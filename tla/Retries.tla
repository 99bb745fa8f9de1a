------------------------------- MODULE Retries -------------------------------
(***************************************************************************)
(* call_with_retry (client/_resilience.py): every unary call to a gateway  *)
(* goes through it, and opening a stream does too.  A code that may be     *)
(* retried is, after a backoff that doubles, varies by the jitter, and     *)
(* never outlasts what is left of the time that all attempts share.        *)
(***************************************************************************)
EXTENDS Integers, FiniteSetsExt

CONSTANTS MaxTries,     \* RetryPolicy.max_attempts
          FirstBackoff, \* RetryPolicy.initial_backoff, in ticks
          TopBackoff,   \* RetryPolicy.max_backoff
          Spread,       \* the jitter of a backoff, in ticks
          MaxBudget,    \* bound: the deadline_s of a call
          MaxAnswer     \* bound: the ticks that an attempt takes

ASSUME RetriesAssumption ==
  /\ MaxTries \in Nat \ {0} /\ FirstBackoff \in Nat /\ TopBackoff \in Nat /\ TopBackoff >= FirstBackoff
  /\ Spread \in Nat /\ MaxBudget \in Nat /\ MaxAnswer \in Nat

VARIABLES budget,   \* deadline_s of the call, or NoBudget
          try,      \* the attempt, from 1
          elapsed,  \* ticks since the call began
          until,    \* elapsed when the attempt or the sleep in progress ends
          callState \* "trying", "sleeping", "ok", "giveup"

retryVars == <<budget, try, elapsed, until, callState>>

NoBudget == -1

(* What is left of the budget; the sleep is held to max_backoff without one. *)
Remaining == Max({0, budget - elapsed})
Exhausted == budget # NoBudget /\ Remaining = 0
Cap == IF budget = NoBudget THEN TopBackoff ELSE Remaining

Base(n) == Min({FirstBackoff * 2 ^ (n - 1), TopBackoff})
Unclamped(n) == {Max({0, Base(n) + j}) : j \in -Spread..Spread}
SleepFor(n) == {Max({0, Min({s, Cap})}) : s \in Unclamped(n)}

Attempt == /\ callState' = "trying"
           /\ until' \in elapsed..(elapsed + MaxAnswer)

RetriesInit ==
    /\ budget \in {NoBudget} \cup 0..MaxBudget
    /\ try = 1 /\ elapsed = 0 /\ callState = "trying"
    /\ until \in 0..MaxAnswer

Clock ==
    /\ callState \in {"trying", "sleeping"} /\ elapsed < until
    /\ elapsed' = elapsed + 1
    /\ UNCHANGED <<budget, try, until, callState>>

Answers ==
    /\ callState = "trying" /\ elapsed = until
    /\ callState' = "ok"
    /\ UNCHANGED <<budget, try, elapsed, until>>

(* A code that is not in retryable_codes ends the call at once. *)
Refuses ==
    /\ callState = "trying" /\ elapsed = until
    /\ callState' = "giveup"
    /\ UNCHANGED <<budget, try, elapsed, until>>

FailsForNow ==
    /\ callState = "trying" /\ elapsed = until
    /\ IF try >= MaxTries \/ Exhausted
       THEN callState' = "giveup" /\ UNCHANGED until
       ELSE \E s \in SleepFor(try) : callState' = "sleeping" /\ until' = elapsed + s
    /\ UNCHANGED <<budget, try, elapsed>>

Wakes ==
    /\ callState = "sleeping" /\ elapsed = until
    /\ try' = try + 1
    /\ Attempt
    /\ UNCHANGED <<budget, elapsed>>

RetriesNext == Clock \/ Answers \/ Refuses \/ FailsForNow \/ Wakes

RetriesSpec == RetriesInit /\ [][RetriesNext]_retryVars

-----------------------------------------------------------------------------
(* No attempt begins after the deadline of the call, and the sleeps alone   *)
(* never take a call past it: a call that overruns does so by the time of   *)
(* its last attempt ("Retries must not exceed the budget; jitter is clamped *)
(* to the remaining time", call_with_retry).                                *)
InBudget ==
    /\ (callState = "sleeping" /\ budget # NoBudget) => until <= budget
    /\ (callState = "giveup" /\ budget # NoBudget) => elapsed <= budget + MaxAnswer
=============================================================================
