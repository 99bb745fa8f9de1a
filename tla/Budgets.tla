------------------------------- MODULE Budgets -------------------------------
(***************************************************************************)
(* Enforcement of the "detach" budgets (services/budgets.py,               *)
(* _evaluate_budgets and _detach_sandbox).  When the metered usage of a    *)
(* sandbox reaches its limit, and when a budget window rolls over, is the  *)
(* environment's choice.                                                   *)
(***************************************************************************)
EXTENDS KillSwitch

CONSTANT Meters     \* the metering tasks that evaluate the budgets

ASSUME MetersAssumption == Meters \subseteq Proc

VARIABLE notified   \* sandboxes whose notified_key is the current window's

BudgetInit == notified = {}

(***************************************************************************)
(* A budget over its limit that did not act in this window.  The marker is *)
(* committed before the action; a sandbox that already holds a row is cut. *)
(***************************************************************************)
BudgetTrip(b, s) ==
  /\ job[b].pc = "idle"
  /\ s \notin notified
  /\ Begin
  /\ notified' = notified \union {s}
  /\ job' = IF \E r \in ks : r.sandbox = s THEN job
            ELSE [job EXCEPT ![b] = [Idle EXCEPT !.pc = "budgetList",
                                                 !.by = "budget", !.todo = {s}]]
  /\ UNCHANGED <<attached, want, stranded, doubled, ks, lastId, faults>>

\* list_providers answers: detach what it lists.
BudgetList(b, s) ==
  /\ job[b].pc = "budgetList"
  /\ s \in job[b].todo
  /\ job' = [job EXCEPT ![b].pc = "budgetCut", ![b].todo = {}, ![b].listed = {s},
                        ![b].left = LinksOf(s)]
  /\ UNCHANGED <<attached, want, stranded, doubled, ks, lastId, starts, faults, notified>>

\* The gateway is unavailable: the action is given up for this window.
BudgetGivesUp(b) ==
  /\ job[b].pc = "budgetList"
  /\ Fault
  /\ job' = [job EXCEPT ![b] = Idle]
  /\ UNCHANGED <<attached, want, stranded, doubled, ks, lastId, starts, notified>>

\* The budget's next window begins.
BudgetWindow(s) ==
  /\ s \in notified
  /\ notified' = notified \ {s}
  /\ UNCHANGED ksVars

BudgetNext ==
  \/ \E b \in Meters : \/ \E s \in Sandbox : BudgetTrip(b, s) \/ BudgetList(b, s)
                       \/ BudgetGivesUp(b)
  \/ \E s \in Sandbox : BudgetWindow(s)

=============================================================================
