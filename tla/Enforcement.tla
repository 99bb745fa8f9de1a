----------------------------- MODULE Enforcement -----------------------------
(***************************************************************************)
(* Everything that detaches and re-attaches providers, together: operators *)
(* pressing the kill switch and editing links, the budget task, the rate   *)
(* governor and the curfew, each a coroutine of one event loop (or of two  *)
(* replicas), over one gateway and one database.                           *)
(***************************************************************************)
EXTENDS RateGovernor, Budgets, Curfew

vars == <<attached, want, stranded, doubled, ks, lastId, job, starts, faults,
          pauses, notified, window, lastWindow>>

Init == KSInit /\ RateInit /\ BudgetInit /\ CurfewInit

OperatorStep ==
  /\ \/ \E p \in Operators : \/ EngageStart(p, "operator")
                             \/ job[p].pc = "idle" /\ ResumeRead(p)
                             \/ CommitRows(p)
                             \/ ResumeCommit(p)
     \/ \E l \in Link : OperatorAttach(l) \/ OperatorDetach(l)
  /\ UNCHANGED <<pauses, notified, window, lastWindow>>

\* The next RPC of a coroutine.
Rpc(p) == RpcStep(p) /\ UNCHANGED <<pauses, notified, window, lastWindow>>

BudgetStep ==
  /\ BudgetNext \/ \E b \in Meters : CommitRows(b) /\ UNCHANGED notified
  /\ UNCHANGED <<pauses, window, lastWindow>>

GovernorStep == RateNext /\ UNCHANGED <<notified, window, lastWindow>>

CurfewTask == CurfewNext /\ UNCHANGED <<pauses, notified>>

\* A restart forgets the jobs and the curfew's last position.
Crash == KSCrash /\ lastWindow' = "unset" /\ UNCHANGED <<pauses, notified, window>>

Next ==
  \/ OperatorStep
  \/ \E p \in Proc : Rpc(p)
  \/ BudgetStep
  \/ GovernorStep
  \/ CurfewTask
  \/ Crash

Spec == Init /\ [][Next]_vars

(***************************************************************************)
(* The event loop keeps running every coroutine that is ready: an RPC      *)
(* answers or times out, a background task ticks again, a cooldown passes. *)
(* Nobody has to press the kill switch, exceed a limit or edit a link.     *)
(***************************************************************************)
Finish(p) == (CommitRows(p) \/ ResumeCommit(p)) /\ UNCHANGED <<pauses, notified, window, lastWindow>>

Fairness ==
  /\ \A p \in Proc : WF_vars(Rpc(p))
  /\ \A p \in Operators \union Meters : WF_vars(Finish(p))
  /\ \A g \in Governors : WF_vars(RateStep(g) /\ UNCHANGED <<notified, window, lastWindow>>)
  /\ WF_vars((\E e \in pauses : Cooldown(e)) /\ UNCHANGED <<notified, window, lastWindow>>)
  /\ \A c \in Curfews : WF_vars(CurfewStep(c) /\ UNCHANGED <<pauses, notified>>)

LiveSpec == Spec /\ Fairness

-----------------------------------------------------------------------------
TypeOK ==
  /\ attached \subseteq Link
  /\ want \subseteq Link
  /\ stranded \subseteq Link
  /\ doubled \subseteq Link
  /\ ks \subseteq Row
  /\ lastId \in Nat
  /\ job \in [Proc -> Job]
  /\ pauses \subseteq Pause
  /\ notified \subseteq Sandbox
  /\ window \in {"in", "out"}
  /\ lastWindow \in {"unset", "in", "out"}

Paused == UNION {e.links : e \in pauses}

(***************************************************************************)
(* No enforcement path, and no interleaving of them, loses a provider: a   *)
(* link the operators asked for is attached, or recorded by a row or a     *)
(* pause that will give it back, or in the hands of a running cut, unless  *)
(* a lost reply, a lost race or a crash stranded it.                       *)
(***************************************************************************)
NoProviderLost ==
  want \subseteq attached \union Recorded \union Paused \union Held \union stranded

\* A soft-pause is temporary: whatever is retried, refused or restarted, and with
\* the governor of another replica at work, its entry goes.
PausesEnd == \A s \in Sandbox : HasPause(s) ~> ~HasPause(s)

\* What the curfew engaged does not outlive its window: while the clock is outside
\* and every row is the curfew's, the rows go, through failed re-attaches and
\* restarts (curfew.py:6-7).
AllCurfew == Engaged /\ \A r \in ks : r.by = "curfew"

CurfewEnds == (window = "out" /\ AllCurfew) ~> (window = "in" \/ ~AllCurfew)

(***************************************************************************)
(* What is held back is given back in the end: no soft-pause stays for     *)
(* ever, and no row of the curfew outlives its window.                     *)
(***************************************************************************)
HoldsEnd == PausesEnd /\ CurfewEnds

-----------------------------------------------------------------------------
(***************************************************************************)
(* What the comments and documents say and the code does not do.  Each is  *)
(* checked by a run that finds it violated.                                *)
(***************************************************************************)

(***************************************************************************)
(* kill_switch.py:6: "The detached set is persisted per sandbox so         *)
(* ``resume`` can re-attach exactly what was cut."  With nothing running,  *)
(* every link the operators asked for can be given back.                   *)
(***************************************************************************)
Recoverable == Quiet => want \subseteq attached \union Recorded \union Paused

=============================================================================
