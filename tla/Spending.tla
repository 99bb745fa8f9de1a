------------------------------ MODULE Spending ------------------------------
(***************************************************************************)
(* Budgets: when a budget fires (services/budgets.py, _evaluate_budgets).  *)
(*                                                                         *)
(* The task that meters evaluates the budgets next.  It reads them once,   *)
(* awaits the sum of the counters, and commits the marker notified_key     *)
(* before it acts.  Meanwhile an operator may change the budget, and the   *)
(* day may end.                                                            *)
(***************************************************************************)
EXTENDS Metering

CONSTANTS
  Limit,      \* limit_requests that operators set
  Window,     \* windows that operators set
  MaxEdits    \* bound on the changes of budgets and rate limits

ASSUME SpendingAssumption ==
  Limit \subseteq Nat \ {0} /\ Window \subseteq {"daily", "weekly", "monthly", "total"} /\ MaxEdits \in Nat

WindowDays == [daily |-> 1, weekly |-> 7, monthly |-> 30]

\* What notified_key may hold: nothing, "total", or the first day of a window.
Key       == [kind: {"none", "total", "from"}, day: Int]
NoKey     == [kind |-> "none", day |-> 0]
WindowKey(w) == IF w = "total" THEN [kind |-> "total", day |-> 0]
                ELSE [kind |-> "from", day |-> day - (WindowDays[w] - 1)]

Budget   == [id: Nat, edit: Nat, limit: Limit, window: Window, key: Key]
NoBudget == [id |-> None]

VARIABLES
  budget,   \* the row of sandbox_budgets, or NoBudget; edit: which change it is from
  check,    \* the locals of each task's evaluation
  fired,    \* history: the budgets and windows that acted
  edits     \* bound counter, and number of the latest change

svars == <<budget, check, fired, edits>>

Check   == [pc: {"query", "decide", "mark", "act"}, rule: Budget, used: Nat, key: Key]
NoCheck == [pc |-> "none"]

SInit ==
  /\ budget \in [id: {0}, edit: {0}, limit: Limit, window: Window, key: {NoKey}] \union {NoBudget}
  /\ check = [p \in Poller |-> NoCheck]
  /\ fired = {}
  /\ edits = 0

\* _window_usage
WindowUsage(w) ==
  SumOf({d \in Day : w = "total" \/ d >= WindowKey(w).day})

Ready(p) == poll[p].pc = "evaluate"

\* The evaluation ends; the task sleeps until its next tick.
EvalDone(p) == /\ poll' = [poll EXCEPT ![p] = IdlePoll]
               /\ check' = [check EXCEPT ![p] = NoCheck]

MeterKept == UNCHANGED <<now, day, log, cursor, usage, start, billed, seen, cut, faults>>

EvalLoad(p) ==
  /\ Ready(p)
  /\ check[p] = NoCheck
  /\ IF budget = NoBudget THEN EvalDone(p)
     ELSE /\ check' = [check EXCEPT ![p] = [pc |-> "query", rule |-> budget,
                                            used |-> 0, key |-> NoKey]]
          /\ UNCHANGED poll
  /\ MeterKept /\ UNCHANGED <<budget, fired, edits>>

EvalQuery(p) ==
  /\ check[p].pc = "query"
  /\ check' = [check EXCEPT ![p].pc = "decide", ![p].used = WindowUsage(check[p].rule.window)]
  /\ MeterKept /\ UNCHANGED <<poll, budget, fired, edits>>

\* Mutants of Reached and Acted.
Above(c) == c.used > c.rule.limit
Forgets(c) == FALSE

Reached(c) == c.used >= c.rule.limit

\* The rule that was loaded has the marker of the present window.
Acted(c) == c.rule.key = WindowKey(c.rule.window)

EvalDecide(p) ==
  /\ check[p].pc = "decide"
  /\ IF Reached(check[p]) /\ ~Acted(check[p])
     THEN /\ check' = [check EXCEPT ![p].pc = "mark",
                                    ![p].key = WindowKey(check[p].rule.window)]
          /\ UNCHANGED poll
     ELSE EvalDone(p)
  /\ MeterKept /\ UNCHANGED <<budget, fired, edits>>

\* The commit of notified_key, which fails when the row is gone.
EvalMark(p) ==
  /\ check[p].pc = "mark"
  /\ IF budget.id = check[p].rule.id
     THEN /\ budget' = [budget EXCEPT !.key = check[p].key]
          /\ check' = [check EXCEPT ![p].pc = "act"]
          /\ UNCHANGED poll
     ELSE EvalDone(p) /\ UNCHANGED budget
  /\ MeterKept /\ UNCHANGED <<fired, edits>>

EvalActs(p) ==
  /\ check[p].pc = "act"
  /\ fired' = fired \union {<<check[p].rule.edit, check[p].key>>}
  /\ EvalDone(p)
  /\ MeterKept /\ UNCHANGED <<budget, edits>>

EvalStep(p) == EvalLoad(p) \/ EvalQuery(p) \/ EvalDecide(p) \/ EvalMark(p) \/ EvalActs(p)

\* set_budget: an update keeps the row, and forgets the marker.  A new row has an
\* id of its own, or on SQLite perhaps that of a deleted row.
SetBudget ==
  /\ edits < MaxEdits
  /\ edits' = edits + 1
  /\ \E limit \in Limit, w \in Window, id \in {0, edits + 1} :
       budget' = [id     |-> IF budget = NoBudget THEN id ELSE budget.id,
                  edit   |-> edits + 1,
                  limit  |-> limit, window |-> w, key |-> NoKey]
  /\ MeterKept /\ UNCHANGED <<poll, check, fired>>

DeleteBudget ==
  /\ budget # NoBudget
  /\ budget' = NoBudget
  /\ MeterKept /\ UNCHANGED <<poll, check, fired, edits>>

\* A restart forgets what the task was doing.
Restart(p) ==
  /\ faults < MaxFaults
  /\ faults' = faults + 1
  /\ poll[p].pc # "idle"
  /\ EvalDone(p)
  /\ UNCHANGED <<now, day, log, cursor, usage, start, billed, seen, cut, budget, fired, edits>>

SNext ==
  \/ MNext /\ UNCHANGED svars
  \/ SetBudget \/ DeleteBudget
  \/ \E p \in Poller : EvalStep(p) \/ Restart(p)

=============================================================================
