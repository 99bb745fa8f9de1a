----------------------------- MODULE RateLimit -----------------------------
(***************************************************************************)
(* The sliding window that limits the attempts of one client               *)
(* (api/ratelimit.py), and the lock on an account with too many failed     *)
(* passwords (api/auth/core.py), with the password sign-in that asks both. *)
(* Times are whole units of a clock; both are kept in memory.              *)
(***************************************************************************)
EXTENDS FiniteSets, FiniteSetsExt, Integers, Sequences

CONSTANTS
  Limit, Window, Lockout,        \* of the limiter
  LockAttempts, LockDuration,    \* of the accounts
  SignIns,                       \* password sign-ins, of one client for one account
  MaxClock                       \* bound on the clock

ASSUME LimitAssumption ==
  /\ Limit \in Nat \ {0} /\ Window \in Nat /\ Lockout \in Nat /\ MaxClock \in Nat
  /\ LockAttempts \in Nat \ {0} /\ LockDuration \in Nat

VARIABLES
  now,
  bucket,   \* the times of the client's attempts, oldest first
  admitted, \* history: the times of all attempts that were let through
  promise,  \* history: when the client was last told to come back, 0 for never
  failures, \* of the account: their number, and the time of the last
  signIns   \* where each sign-in is

limitVars == <<now, bucket, admitted, promise, failures, signIns>>

LimitInit ==
  /\ now = 1
  /\ bucket = <<>> /\ admitted = <<>> /\ promise = 0
  /\ failures = [count |-> 0, last |-> 0]
  /\ signIns = [s \in SignIns |-> "idle"]

ClockTicks ==
  /\ now < MaxClock
  /\ now' = now + 1
  /\ UNCHANGED <<bucket, admitted, promise, failures, signIns>>

\* Mutant of Stale: the attempt at the very edge of the window is dropped too.
StaleAtEdge(t) == t + Window <= now

\* An attempt that no longer counts.
Stale(t) == t + Window < now

\* is_limited pops stale attempts off the front, up to the first that still counts.
Purged(b) ==
  LET fresh == {i \in DOMAIN b : ~Stale(b[i])}
  IN  IF fresh = {} THEN <<>> ELSE SubSeq(b, Min(fresh), Len(b))

Limited == Len(Purged(bucket)) >= Limit

\* Mutant of RetryAfter: counted from now.
RetryFromNow == IF Lockout > Window THEN Window - now + Head(Purged(bucket)) ELSE 1

\* The seconds a refused client is told to wait.
RetryAfter == Max({Head(Purged(bucket)) + Lockout - now + 1, 1})

\* The cleanup forgets a client whose last attempt is long past.
CleansUp ==
  /\ bucket # <<>> /\ bucket[Len(bucket)] + Window + Lockout < now
  /\ bucket' = <<>>
  /\ UNCHANGED <<now, admitted, promise, failures, signIns>>

\* is_limited and record, with nothing between them.
Refused(s) ==
  /\ signIns[s] = "idle" /\ Limited
  /\ bucket' = Purged(bucket)
  /\ promise' = now + RetryAfter
  /\ UNCHANGED <<now, admitted, failures, signIns>>

Admitted(s) ==
  /\ signIns[s] = "idle" /\ ~Limited
  /\ bucket' = Append(Purged(bucket), now)
  /\ admitted' = Append(admitted, now)
  /\ promise' = 0
  /\ signIns' = [signIns EXCEPT ![s] = "admitted"]
  /\ UNCHANGED <<now, failures>>

-----------------------------------------------------------------------------
\* is_account_locked; a lock that has run out is forgotten.
Locked == failures.count >= LockAttempts /\ now - failures.last < LockDuration

Clear == failures' = [count |-> 0, last |-> 0]

LockChecked(s) ==
  /\ signIns[s] = "admitted"
  /\ signIns' = [signIns EXCEPT ![s] = IF Locked THEN "idle" ELSE "authenticate"]
  /\ IF failures.count >= LockAttempts /\ ~Locked THEN Clear ELSE UNCHANGED failures
  /\ UNCHANGED <<now, bucket, admitted, promise>>

\* authenticate_user has read the row and says no.
Fails(s) ==
  /\ signIns[s] = "authenticate"
  /\ failures' = [count |-> failures.count + 1, last |-> now]
  /\ signIns' = [signIns EXCEPT ![s] = "idle"]
  /\ UNCHANGED <<now, bucket, admitted, promise>>

Succeeds(s) ==
  /\ signIns[s] = "authenticate"
  /\ Clear
  /\ signIns' = [signIns EXCEPT ![s] = "idle"]
  /\ UNCHANGED <<now, bucket, admitted, promise>>

LimitNext ==
  \/ ClockTicks \/ CleansUp
  \/ \E s \in SignIns : Refused(s) \/ Admitted(s) \/ LockChecked(s) \/ Fails(s) \/ Succeeds(s)

LimitSpec == LimitInit /\ [][LimitNext]_limitVars

-----------------------------------------------------------------------------
\* In no window of the given length are more attempts let through than the limit
\* (ratelimit.py is_limited), although the bucket is purged as it is read and the
\* cleanup drops it whole.
WindowHolds ==
  \A i \in 1 .. Len(admitted) : i + Limit <= Len(admitted) => admitted[i + Limit] - admitted[i] > Window

\* When the lockout is no shorter than the window, as by default, a client that
\* waits as long as the last refusal told it to is let in, unless an attempt of its
\* was let in meanwhile (ratelimit.py retry_after).
WaitEnds == Lockout >= Window /\ promise # 0 /\ now >= promise => ~Limited

\* The limiter keeps both of its promises.
LimiterKeepsWord == WindowHolds /\ WaitEnds

=============================================================================
