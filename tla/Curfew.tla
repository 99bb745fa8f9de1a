-------------------------------- MODULE Curfew --------------------------------
(***************************************************************************)
(* The curfew (services/curfew.py): a task that engages the kill switch    *)
(* when the local time enters the configured window and releases what the  *)
(* curfew engaged when it leaves it.  The wall clock is the environment.   *)
(***************************************************************************)
EXTENDS KillSwitch

CONSTANT Curfews        \* the curfew task, or {} where it is disabled

ASSUME CurfewsAssumption == Curfews \subseteq Proc

VARIABLES
  window,    \* where the wall clock is: "in" or "out" of the window
  lastWindow \* _last_in_window, in memory: the last position acted upon

curfewVars == <<window, lastWindow>>

CurfewInit == window \in {"in", "out"} /\ lastWindow = "unset"

Due(c) == job[c].pc = "idle" /\ lastWindow # window

\* Inside the window and nothing engaged: engage as "curfew".
CurfewEngages(c) ==
  /\ Due(c)
  /\ window = "in"
  /\ EngageStart(c, "curfew")
  /\ UNCHANGED curfewVars

\* The end of that engage marks the transition as acted upon.
CurfewEngaged(c) ==
  /\ job[c].by = "curfew"
  /\ CommitRows(c)
  /\ lastWindow' = "in"
  /\ UNCHANGED window

\* Outside the window and the first row is the curfew's: call resume.
CurfewReleases(c) ==
  /\ Due(c)
  /\ window = "out"
  /\ EngagedBy = "curfew"
  /\ job' = [job EXCEPT ![c] = [Idle EXCEPT !.pc = "release"]]
  /\ UNCHANGED <<attached, want, stranded, doubled, ks, lastId, starts, faults>>
  /\ UNCHANGED curfewVars

(***************************************************************************)
(* resume() reads the rows only now: they may have changed, or all gone    *)
(* since the status was read.  A release that leaves rows is retried on    *)
(* the next tick.                                                          *)
(***************************************************************************)
CurfewReads(c) ==
  /\ job[c].pc = "release"
  /\ ResumeRead(c)
  /\ UNCHANGED curfewVars

CurfewReadsNothing(c) ==
  /\ job[c].pc = "release"
  /\ ~Engaged
  /\ job' = [job EXCEPT ![c] = Idle]
  /\ lastWindow' = "out"
  /\ UNCHANGED <<attached, want, stranded, doubled, ks, lastId, starts, faults, window>>

CurfewReleased(c) ==
  /\ ResumeCommit(c)
  /\ lastWindow' = IF ks' = {} THEN "out" ELSE lastWindow
  /\ UNCHANGED window

\* Nothing to do at this transition: already engaged, or not the curfew's.
CurfewNotes(c) ==
  /\ Due(c)
  /\ IF window = "in" THEN Engaged ELSE EngagedBy # "curfew"
  /\ lastWindow' = window
  /\ UNCHANGED ksVars
  /\ UNCHANGED window

\* The wall clock crosses an edge of the window.
WindowTurns ==
  /\ Begin
  /\ window' = IF window = "in" THEN "out" ELSE "in"
  /\ UNCHANGED <<attached, want, stranded, doubled, ks, lastId, job, faults, lastWindow>>

CurfewStep(c) ==
  \/ CurfewEngages(c) \/ CurfewEngaged(c) \/ CurfewReleases(c) \/ CurfewReads(c)
  \/ CurfewReadsNothing(c) \/ CurfewReleased(c) \/ CurfewNotes(c)

CurfewNext == WindowTurns \/ \E c \in Curfews : CurfewStep(c)

=============================================================================
