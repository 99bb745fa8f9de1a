------------------------------ MODULE Ceilings ------------------------------
(***************************************************************************)
(* Rate ceilings: when the rate governor pauses a sandbox                  *)
(* (services/rate_governor.py, run_once).                                  *)
(*                                                                         *)
(* A tick sums the metered counters, advances the tumbling window of the   *)
(* ceiling and pauses the sandbox that used too much of it; then it reads  *)
(* the due pauses and the counters again, and resumes.  RateGovernor says  *)
(* what pausing and resuming do to the providers.                          *)
(***************************************************************************)
EXTENDS Spending

CONSTANTS
  Governor,      \* rate governor tasks
  MaxRequests,   \* max_requests that operators set
  WindowLength   \* window_seconds that operators set, in units of the clock

ASSUME CeilingsAssumption == MaxRequests \subseteq Nat \ {0} /\ WindowLength \subseteq Nat \ {0}

VARIABLES
  rate,     \* the enabled row of sandbox_rate_limits, or NoRate
  pause,    \* the sandbox's row of rate_pause_entries: "none", "on", or "due"
  gov,      \* the locals of each governor
  spent     \* history: the sum of max_requests over all pauses

cvars == <<rate, pause, gov, spent>>

Rate   == [max: MaxRequests, length: WindowLength, started: Int, base: Nat]
NoRate == [max |-> None]

Gov      == [pc: {"idle", "decide", "pause", "resume", "finish"}, at: Nat, total: Nat, max: Nat]
IdleGov  == [pc |-> "idle", at |-> 0, total |-> 0, max |-> 0]

CInit ==
  /\ rate \in [max: MaxRequests, length: WindowLength, started: {None}, base: {0}] \union {NoRate}
  /\ pause = "none"
  /\ gov = [g \in Governor |-> IdleGov]
  /\ spent = 0

\* _cumulative_counts
Total == SumOf(Day)

UsageKept == MeterKept /\ UNCHANGED <<poll, svars>>

\* The clock and the counters are read before the ceiling; here the two at one time.
RateRead(g) ==
  /\ gov[g].pc = "idle"
  /\ gov' = [gov EXCEPT ![g].pc = "decide", ![g].at = now, ![g].total = Total]
  /\ UsageKept /\ UNCHANGED <<rate, pause, spent>>

Expired(g) == rate.started = None \/ gov[g].at - rate.started >= rate.length
Used(g)    == gov[g].total - rate.base

RateDecide(g) ==
  /\ gov[g].pc = "decide"
  /\ \/ /\ rate = NoRate
        /\ gov' = [gov EXCEPT ![g].pc = "resume"]
        /\ UNCHANGED rate
     \/ /\ rate # NoRate /\ Expired(g)
        /\ rate' = [rate EXCEPT !.started = gov[g].at, !.base = gov[g].total]
        /\ gov' = [gov EXCEPT ![g].pc = "resume"]
     \/ /\ rate # NoRate /\ ~Expired(g)
        /\ gov' = [gov EXCEPT ![g].pc = IF Used(g) >= rate.max THEN "pause" ELSE "resume",
                              ![g].max = rate.max]
        /\ UNCHANGED rate
  /\ UsageKept /\ UNCHANGED <<pause, spent>>

PauseMade(g) ==
  /\ gov[g].pc = "pause"
  /\ pause = "none"
  /\ pause' = "on"
  /\ spent' = spent + gov[g].max
  /\ gov' = [gov EXCEPT ![g].pc = "resume"]
  /\ UsageKept /\ UNCHANGED rate

\* It is paused or kill-switched already, or its gateway is unavailable.
PauseDeclined(g) ==
  /\ gov[g].pc = "pause"
  /\ gov' = [gov EXCEPT ![g].pc = "resume"]
  /\ UsageKept /\ UNCHANGED <<rate, pause, spent>>

CooldownEnds ==
  /\ pause = "on"
  /\ pause' = "due"
  /\ UsageKept /\ UNCHANGED <<rate, gov, spent>>

\* The due pauses and the counters, before the providers are attached.
ResumeReads(g) ==
  /\ gov[g].pc = "resume"
  /\ gov' = IF pause = "due"
            THEN [gov EXCEPT ![g].pc = "finish", ![g].at = now, ![g].total = Total]
            ELSE [gov EXCEPT ![g] = IdleGov]
  /\ UsageKept /\ UNCHANGED <<rate, pause, spent>>

\* Mutant of ResetWindow: the window goes on.
WindowGoesOn(g) == rate' = rate

\* The window begins anew with what had been counted when the resume began.
ResetWindow(g) ==
  rate' = IF rate = NoRate THEN rate
          ELSE [rate EXCEPT !.started = gov[g].at, !.base = gov[g].total]

\* _finish_resume when every provider is attached again.
ResumeFinishes(g) ==
  /\ gov[g].pc = "finish"
  /\ gov' = [gov EXCEPT ![g] = IdleGov]
  /\ IF pause = "none" THEN UNCHANGED <<rate, pause>>
     ELSE pause' = "none" /\ ResetWindow(g)
  /\ UsageKept /\ UNCHANGED spent

\* The gateway is unavailable, or providers are left: a later tick retries.
ResumeRetries(g) ==
  /\ gov[g].pc = "finish"
  /\ gov' = [gov EXCEPT ![g] = IdleGov]
  /\ pause' \in {pause, IF pause = "none" THEN "none" ELSE "on"}
  /\ UsageKept /\ UNCHANGED <<rate, spent>>

RateStep(g) ==
  \/ RateRead(g) \/ RateDecide(g) \/ PauseMade(g) \/ PauseDeclined(g)
  \/ ResumeReads(g) \/ ResumeFinishes(g) \/ ResumeRetries(g)

SetRate ==
  /\ edits < MaxEdits
  /\ edits' = edits + 1
  /\ \E max \in MaxRequests, length \in WindowLength :
       rate' = [max |-> max, length |-> length, started |-> None, base |-> 0]
  /\ MeterKept /\ UNCHANGED <<poll, budget, check, fired, pause, gov, spent>>

\* delete_rate_limit, or set_rate_limit with enabled off
DeleteRate ==
  /\ rate # NoRate
  /\ rate' = NoRate
  /\ UsageKept /\ UNCHANGED <<pause, gov, spent>>

CNext == CooldownEnds \/ SetRate \/ DeleteRate \/ \E g \in Governor : RateStep(g)

=============================================================================
