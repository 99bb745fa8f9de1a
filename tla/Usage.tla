------------------------------- MODULE Usage -------------------------------
(***************************************************************************)
(* What is counted and what the counts lead to: the metering of a sandbox, *)
(* its budget and its rate ceiling, with the operators who change them.    *)
(***************************************************************************)
EXTENDS Ceilings

vars == <<mvars, svars, cvars>>

Init == MInit /\ SInit /\ CInit

Next == \/ SNext /\ UNCHANGED cvars
        \/ CNext

Spec == Init /\ [][Next]_vars

(***************************************************************************)
(* The metering task polls and evaluates at every tick, and its calls      *)
(* return or raise.                                                        *)
(***************************************************************************)
Fairness == \A p \in Poller : WF_vars(((PollStep(p) /\ UNCHANGED svars) \/ EvalStep(p)) /\ UNCHANGED cvars)

LiveSpec == Spec /\ Fairness

-----------------------------------------------------------------------------
TypeOK ==
  /\ now \in Nat /\ day \in Day /\ faults \in Nat /\ edits \in Nat
  /\ log \subseteq Line /\ seen \subseteq Line /\ cut \subseteq Line
  /\ cursor \in Nat \union {None} /\ start \in Nat \union {None}
  /\ usage \in [Day -> Nat]
  /\ billed \in [Day -> SUBSET Line]
  /\ poll \in [Poller -> Poll]
  /\ budget \in Budget \union {NoBudget}
  /\ check \in [Poller -> Check \union {NoCheck}]
  /\ fired \subseteq Nat \X Key
  /\ rate \in Rate \union {NoRate}
  /\ pause \in {"none", "on", "due"}
  /\ gov \in [Governor -> Gov]
  /\ spent \in Nat

(***************************************************************************)
(* With one metering task, a request is billed once: the counters are the  *)
(* numbers of distinct inference lines, no line is on two days, and none   *)
(* is older than the metering, through restarts and failed calls           *)
(* (budgets.py:20-21, "history is never billed").                          *)
(***************************************************************************)
BilledOnce ==
  /\ \A d \in Day : usage[d] = Cardinality(billed[d])
  /\ \A d, e \in Day : d # e => billed[d] \intersect billed[e] = {}
  /\ \A d \in Day : \A l \in billed[d] : l.inference /\ l.at > start

(***************************************************************************)
(* A request is missed only if a batch was full, or if its line has the    *)
(* millisecond of a line that was fetched before it, or the one after.     *)
(***************************************************************************)
MissedOnlyNear ==
  \A l \in log :
    l.inference /\ start # None /\ start < l.at /\ l.at <= cursor =>
      \/ \E d \in Day : l \in billed[d]
      \/ l \in cut
      \/ \E m \in seen : m # l /\ l.at - m.at \in {0, 1}

(***************************************************************************)
(* A budget acts at most once for a window key, whatever is changed or     *)
(* restarted meanwhile (budgets.py:11, "once per window").                 *)
(***************************************************************************)
ActsOnce ==
  [][\A p \in Poller : EvalActs(p) => <<check[p].rule.edit, check[p].key>> \notin fired]_vars

(***************************************************************************)
(* A pause is paid for by requests: no request counts for two pauses of    *)
(* the ceiling, so a resumed sandbox is not paused again for what led to   *)
(* the first pause (rate_governor.py, _finish_resume).                     *)
(***************************************************************************)
PausesPaidFor == spent <= Total

(***************************************************************************)
(* The metering does not fall behind for good: the cursor passes every     *)
(* line that is newer than the metering.                                   *)
(***************************************************************************)
MeteringKeepsUp ==
  \A at \in 0 .. MaxTime :
    (start # None /\ start < at /\ \E l \in log : l.at = at) ~> (cursor >= at)

(***************************************************************************)
(* A budget for the total that is reached is marked as acted upon, unless  *)
(* it is changed.                                                          *)
(***************************************************************************)
Overspent(e) == budget # NoBudget /\ budget.edit = e /\ budget.window = "total"
                  /\ WindowUsage("total") >= budget.limit /\ budget.key = NoKey

ReachedIsMarked == \A e \in 0 .. MaxEdits : Overspent(e) ~> ~Overspent(e)

=============================================================================
