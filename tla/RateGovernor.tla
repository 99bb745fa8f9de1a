----------------------------- MODULE RateGovernor -----------------------------
(***************************************************************************)
(* The reversible soft-pause of the rate governor                          *)
(* (services/rate_governor.py).  A governor task first soft-pauses the     *)
(* sandboxes that are over their ceiling, then re-attaches the links of    *)
(* the pauses whose cooldown is over.  Which sandbox is over its ceiling,  *)
(* and when a cooldown elapses, is the environment's choice.               *)
(***************************************************************************)
EXTENDS KillSwitch

CONSTANT Governors   \* the governor tasks: one per replica

ASSUME GovernorsAssumption == Governors \subseteq Proc

VARIABLE pauses      \* rows of rate_pause_entries, unique by sandbox

Pause == [sandbox: Sandbox, links: SUBSET Link, due: BOOLEAN]

HasRow(s)   == \E r \in ks : r.sandbox = s
HasPause(s) == \E e \in pauses : e.sandbox = s

RateInit == pauses = {}

\* _soft_pause: a sandbox over its ceiling that holds no row and no pause.
PauseStart(g, s) ==
  /\ job[g].pc = "idle"
  /\ ~HasRow(s)
  /\ ~HasPause(s)
  /\ Begin
  /\ job' = [job EXCEPT ![g] = [Idle EXCEPT !.pc = "pauseList", !.todo = {s}]]
  /\ UNCHANGED <<attached, want, stranded, doubled, ks, lastId, faults, pauses>>

\* list_providers answers: detach what it lists.
PauseList(g, s) ==
  /\ job[g].pc = "pauseList"
  /\ s \in job[g].todo
  /\ job' = [job EXCEPT ![g] = [Idle EXCEPT !.pc = "pauseCut", !.listed = {s},
                                            !.left = LinksOf(s)]]
  /\ UNCHANGED <<attached, want, stranded, doubled, ks, lastId, starts, faults, pauses>>

\* The gateway is unavailable: nothing is paused on this tick.
PauseGivesUp(g) ==
  /\ job[g].pc = "pauseList"
  /\ Fault
  /\ job' = [job EXCEPT ![g] = Idle]
  /\ UNCHANGED <<attached, want, stranded, doubled, ks, lastId, starts, pauses>>

(***************************************************************************)
(* The commit that ends a soft-pause.  A pause of the sandbox that another *)
(* replica wrote meanwhile wins, and the links detached here are dropped.  *)
(***************************************************************************)
PauseCommit(g, s) ==
  /\ job[g].pc = "pauseCut"
  /\ job[g].listed = {s}
  /\ job[g].left = {}
  /\ ~HasPause(s)
  /\ pauses' = pauses \union {[sandbox |-> s, links |-> job[g].cut, due |-> FALSE]}
  /\ job' = [job EXCEPT ![g] = Idle]
  /\ UNCHANGED <<attached, want, stranded, doubled, ks, lastId, starts, faults>>

PauseRaced(g, s) ==
  /\ job[g].pc = "pauseCut"
  /\ job[g].listed = {s}
  /\ job[g].left = {}
  /\ HasPause(s)
  /\ stranded' = stranded \union job[g].cut
  /\ job' = [job EXCEPT ![g] = Idle]
  /\ UNCHANGED <<attached, want, doubled, ks, lastId, starts, faults, pauses>>

\* The cooldown of a pause elapses.
Cooldown(e) ==
  /\ e \in pauses
  /\ ~e.due
  /\ pauses' = (pauses \ {e}) \union {[e EXCEPT !.due = TRUE]}
  /\ UNCHANGED ksVars

(***************************************************************************)
(* _auto_resume: reads the due pauses and re-attaches their links.  It     *)
(* does not look at kill_switch_entries.                                   *)
(***************************************************************************)
DueRead(g) ==
  LET due == {e \in pauses : e.due} IN
  /\ job[g].pc = "idle"
  /\ due # {}
  /\ job' = [job EXCEPT ![g] =
               [Idle EXCEPT !.pc = "unpause",
                            !.todo = {e.sandbox : e \in due},
                            !.tries = {<<0, l>> : l \in UNION {e.links : e \in due}}]]
  /\ UNCHANGED <<attached, want, stranded, doubled, ks, lastId, starts, faults, pauses>>

\* The gateway of the next due pause is reached: its re-attaches follow.
DueClient(g, s) ==
  /\ job[g].pc = "unpause"
  /\ job[g].listed = {}
  /\ s \in job[g].todo
  /\ job' = [job EXCEPT ![g].listed = {s}]
  /\ UNCHANGED <<attached, want, stranded, doubled, ks, lastId, starts, faults, pauses>>

\* The job once the due pause of s is dealt with.
DoneWith(g, s) == IF job[g].todo = {s} THEN Idle
                  ELSE [job[g] EXCEPT !.todo = @ \ {s}, !.listed = {},
                                      !.tries = {t \in @ : t[2][1] # s}]

\* The gateway is unavailable: the pause stays as it is and stays due.
DueSkips(g, s) ==
  /\ job[g].pc = "unpause"
  /\ job[g].listed = {}
  /\ s \in job[g].todo
  /\ Fault
  /\ job' = [job EXCEPT ![g] = DoneWith(g, s)]
  /\ UNCHANGED <<attached, want, stranded, doubled, ks, lastId, starts, pauses>>

(***************************************************************************)
(* _finish_resume: the pause of the sandbox, if it is still there, is      *)
(* deleted, or keeps only the links that failed and cools down again.      *)
(***************************************************************************)
\* Mutant of StillFailing: the pause keeps every link.
EveryLink(g, s) == {l \in Link : l[1] = s}

StillFailing(g, s) == {l \in Failing(g, 0) : l[1] = s}

DueFinish(g, s) ==
  /\ job[g].pc = "unpause"
  /\ job[g].listed = {s}
  /\ \A t \in job[g].tries : t[2][1] # s
  /\ pauses' = {e \in pauses : e.sandbox # s} \union
               {[e EXCEPT !.links = StillFailing(g, s), !.due = FALSE] :
                  e \in {x \in pauses : x.sandbox = s /\ StillFailing(g, s) # {}}}
  /\ job' = [job EXCEPT ![g] = DoneWith(g, s)]
  /\ UNCHANGED <<attached, want, stranded, doubled, ks, lastId, starts, faults>>

RateStep(g) ==
  \/ \E s \in Sandbox : \/ PauseList(g, s) \/ PauseCommit(g, s) \/ PauseRaced(g, s)
                        \/ DueClient(g, s) \/ DueSkips(g, s) \/ DueFinish(g, s)
  \/ PauseGivesUp(g)
  \/ DueRead(g)

RateNext ==
  \/ \E g \in Governors : (\E s \in Sandbox : PauseStart(g, s)) \/ RateStep(g)
  \/ \E e \in pauses : Cooldown(e)

=============================================================================
