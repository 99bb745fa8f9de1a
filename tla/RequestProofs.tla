--------------------------- MODULE RequestProofs ---------------------------
(***************************************************************************)
(* Theorems about what becomes of the requests the server takes: the       *)
(* attempts it limits (RateLimit), for any limit, window, lockout and      *)
(* clock; the edits of a provider (Providers), for any requests, variables *)
(* and types; the denials it is told of (Denials), for any keys,           *)
(* submissions and size of the cache; and the apply of a document by merge *)
(* operations (PolicyDiff), for any documents.                             *)
(***************************************************************************)
EXTENDS RateLimit, Denials, Providers, PolicyDiff, FiniteSetTheorems, SequenceTheorems, WellFoundedInduction, TLAPS

\* A set of naturals has a least element.
LEMMA Least == ASSUME NEW T \in SUBSET Nat, T # {} PROVE \E m \in T : \A x \in T : m <= x
<1> DEFINE R == OpToRel(<, Nat)
<1>1. \A i, j \in Nat : <<i, j>> \in R <=> i < j
  BY DEF OpToRel
<1>2. IsWellFoundedOn(R, Nat)
  BY NatLessThanWellFounded
<1> HIDE DEF R
<1>3. PICK m \in T : \A x \in T : ~ (<<x, m>> \in R)
  BY <1>2, WFMin
<1>4. \A x \in T : ~ (x < m)
  BY <1>1, <1>3
<1> QED BY <1>4

LEMMA MinIs ==
  ASSUME NEW T \in SUBSET Nat, NEW m \in T, \A x \in T : m <= x
  PROVE  Min(T) = m
<1>1. \E x \in T : \A y \in T : x <= y
  OBVIOUS
<1>2. Min(T) \in T /\ \A y \in T : Min(T) <= y
  BY <1>1 DEF Min
<1>3. m \in Nat /\ Min(T) \in Nat
  BY <1>2
<1>4. m <= Min(T) /\ Min(T) <= m
  BY <1>2
<1> QED BY <1>3, <1>4

LEMMA MaxOfTwo == ASSUME NEW a \in Int, NEW b \in Int PROVE Max({a, b}) = IF a >= b THEN a ELSE b
BY DEF Max

\* The end of a sequence.
LEMMA EndOf ==
  ASSUME NEW b \in Seq(Nat), NEW m \in 1 .. Len(b)
  PROVE  /\ SubSeq(b, m, Len(b)) \in Seq(Nat)
         /\ Len(SubSeq(b, m, Len(b))) = Len(b) - (m - 1)
         /\ \A i \in 1 .. Len(b) - (m - 1) : SubSeq(b, m, Len(b))[i] = b[m - 1 + i]
<1>1. Len(b) \in Nat /\ m \in Int /\ Len(b) \in Int /\ \A i \in m .. Len(b) : b[i] \in Nat
  OBVIOUS
<1>2. /\ SubSeq(b, m, Len(b)) \in Seq(Nat)
      /\ Len(SubSeq(b, m, Len(b))) = IF m <= Len(b) THEN Len(b) - m + 1 ELSE 0
      /\ \A i \in 1 .. Len(b) - m + 1 : SubSeq(b, m, Len(b))[i] = b[m + i - 1]
  BY <1>1, SubSeqProperties
<1>3. Len(b) - m + 1 = Len(b) - (m - 1)
  BY <1>1
<1>4. \A i \in 1 .. Len(b) - (m - 1) : m + i - 1 = m - 1 + i
  BY <1>1
<1> QED BY <1>1, <1>2, <1>3, <1>4

-----------------------------------------------------------------------------
(* The limiter.  Its bucket is the end of the history of the attempts it   *)
(* let in: what was popped off the front or forgotten is older than the    *)
(* window, and stays so.                                                   *)

LimitTyped ==
  /\ now \in Nat /\ promise \in Nat
  /\ bucket \in Seq(Nat) /\ admitted \in Seq(Nat)

\* The attempts are in the order of their times, and none is yet to come.
InTime ==
  /\ \A i, j \in 1 .. Len(admitted) : i <= j => admitted[i] <= admitted[j]
  /\ \A i \in 1 .. Len(admitted) : admitted[i] <= now

\* The bucket is the end of the history, from the k-th attempt on.
EndsAt(k) ==
  /\ Len(bucket) = Len(admitted) - k
  /\ \A i \in 1 .. Len(bucket) : bucket[i] = admitted[k + i]
  /\ \A i \in 1 .. k : admitted[i] + Window < now

BucketKept == Len(bucket) <= Limit /\ \E k \in 0 .. Len(admitted) : EndsAt(k)

\* What a client was told is when the attempt now in front is past the lockout.
PromiseFits == promise # 0 => bucket = <<>> \/ bucket[1] + Lockout < promise

LimitInv == LimitTyped /\ InTime /\ BucketKept /\ PromiseFits /\ WindowHolds

\* Purging drops a prefix of attempts that no longer count, and the first that is
\* left does count.
LEMMA PurgedIs ==
  ASSUME NEW b \in Seq(Nat), now \in Nat
  PROVE  \E d \in 0 .. Len(b) :
           /\ Purged(b) \in Seq(Nat) /\ Len(Purged(b)) = Len(b) - d
           /\ \A i \in 1 .. Len(b) - d : Purged(b)[i] = b[d + i]
           /\ \A i \in 1 .. d : b[i] + Window < now
           /\ d < Len(b) => ~ (b[d + 1] + Window < now)
<1> DEFINE fresh == {i \in DOMAIN b : ~Stale(b[i])}
<1>0. Len(b) \in Nat /\ DOMAIN b = 1 .. Len(b) /\ \A i \in 1 .. Len(b) : b[i] \in Nat
  OBVIOUS
<1>1. CASE fresh = {}
  <2>1. Purged(b) = <<>>
    BY <1>1 DEF Purged
  <2>2. \A i \in 1 .. Len(b) : b[i] + Window < now
    BY <1>0, <1>1 DEF Stale
  <2>3. Len(Purged(b)) = Len(b) - Len(b) /\ Purged(b) \in Seq(Nat)
    BY <1>0, <2>1
  <2> WITNESS Len(b) \in 0 .. Len(b)
  <2> QED BY <1>0, <2>2, <2>3
<1>2. CASE fresh # {}
  <2>1. fresh \in SUBSET Nat
    BY <1>0
  <2>2. PICK m \in fresh : \A x \in fresh : m <= x
    BY <1>2, <2>1, Least
  <2>3. Min(fresh) = m
    BY <2>1, <2>2, MinIs
  <2>4. Purged(b) = SubSeq(b, m, Len(b))
    BY <1>2, <2>3 DEF Purged
  <2>5. m \in 1 .. Len(b) /\ ~ (b[m] + Window < now)
    BY <1>0, <2>2 DEF Stale
  <2>6. \A i \in 1 .. m - 1 : b[i] + Window < now
    <3> SUFFICES ASSUME NEW i \in 1 .. m - 1 PROVE b[i] + Window < now
      OBVIOUS
    <3>1. i \notin fresh
      BY <2>2, <2>5, <1>0
    <3> QED BY <1>0, <2>5, <3>1 DEF Stale
  <2>7. /\ Purged(b) \in Seq(Nat) /\ Len(Purged(b)) = Len(b) - (m - 1)
        /\ \A i \in 1 .. Len(b) - (m - 1) : Purged(b)[i] = b[m - 1 + i]
    <3> HIDE DEF fresh
    <3> QED BY <2>4, <2>5, EndOf
  <2>8. m - 1 \in 0 .. Len(b) /\ m - 1 + 1 = m
    BY <1>0, <2>5
  <2> HIDE DEF fresh
  <2> QED BY <2>5, <2>6, <2>7, <2>8
<1> QED BY <1>1, <1>2

\* What remains of the bucket still is the end of the history.
LEMMA PurgedEnds ==
  ASSUME LimitInv
  PROVE  \E k \in 0 .. Len(admitted) :
           /\ Purged(bucket) \in Seq(Nat) /\ Len(Purged(bucket)) = Len(admitted) - k
           /\ Len(Purged(bucket)) <= Len(bucket)
           /\ \A i \in 1 .. Len(Purged(bucket)) : Purged(bucket)[i] = admitted[k + i]
           /\ \A i \in 1 .. k : admitted[i] + Window < now
<1>0. now \in Nat /\ bucket \in Seq(Nat) /\ admitted \in Seq(Nat) /\ Len(admitted) \in Nat /\ Len(bucket) \in Nat
  BY DEF LimitInv, LimitTyped
<1>1. PICK k \in 0 .. Len(admitted) : EndsAt(k)
  BY DEF LimitInv, BucketKept
<1>2. PICK d \in 0 .. Len(bucket) :
        /\ Purged(bucket) \in Seq(Nat) /\ Len(Purged(bucket)) = Len(bucket) - d
        /\ \A i \in 1 .. Len(bucket) - d : Purged(bucket)[i] = bucket[d + i]
        /\ \A i \in 1 .. d : bucket[i] + Window < now
  BY <1>0, PurgedIs
<1>3. k + d \in 0 .. Len(admitted) /\ Len(Purged(bucket)) = Len(admitted) - (k + d)
  BY <1>0, <1>1, <1>2 DEF EndsAt
<1>4. \A i \in 1 .. Len(Purged(bucket)) : Purged(bucket)[i] = admitted[(k + d) + i]
  <2> SUFFICES ASSUME NEW i \in 1 .. Len(Purged(bucket)) PROVE Purged(bucket)[i] = admitted[(k + d) + i]
    OBVIOUS
  <2>1. i \in 1 .. Len(bucket) - d /\ d + i \in 1 .. Len(bucket)
    BY <1>0, <1>2
  <2>2. Purged(bucket)[i] = bucket[d + i] /\ bucket[d + i] = admitted[k + (d + i)]
    BY <1>1, <1>2, <2>1 DEF EndsAt
  <2>3. k + (d + i) = (k + d) + i
    OBVIOUS
  <2> QED BY <2>2, <2>3
<1>5. \A i \in 1 .. k + d : admitted[i] + Window < now
  <2> SUFFICES ASSUME NEW i \in 1 .. k + d PROVE admitted[i] + Window < now
    OBVIOUS
  <2>1. CASE i <= k
    BY <1>1, <2>1 DEF EndsAt
  <2>2. CASE i > k
    <3>1. i - k \in 1 .. d /\ i - k \in 1 .. Len(bucket) /\ k + (i - k) = i
      BY <1>0, <2>2
    <3>2. bucket[i - k] + Window < now /\ bucket[i - k] = admitted[k + (i - k)]
      BY <1>1, <1>2, <3>1 DEF EndsAt
    <3> QED BY <3>1, <3>2
  <2> QED BY <2>1, <2>2
<1>6. Len(Purged(bucket)) <= Len(bucket)
  BY <1>0, <1>2
<1> QED BY <1>2, <1>3, <1>4, <1>5, <1>6

\* A bucket whose first attempt no longer counts, or that is empty, limits nobody.
LEMMA FrontGone ==
  ASSUME LimitInv, bucket = <<>> \/ bucket[1] + Window < now
  PROVE  ~Limited
<1>0. now \in Nat /\ bucket \in Seq(Nat) /\ Len(bucket) \in Nat /\ Len(bucket) <= Limit /\ Limit \in Nat \ {0}
  BY LimitAssumption DEF LimitInv, LimitTyped, BucketKept
<1>1. PICK d \in 0 .. Len(bucket) :
        /\ Purged(bucket) \in Seq(Nat) /\ Len(Purged(bucket)) = Len(bucket) - d
        /\ d < Len(bucket) => ~ (bucket[d + 1] + Window < now)
  BY <1>0, PurgedIs
<1>2. CASE bucket = <<>>
  BY <1>0, <1>1, <1>2 DEF Limited
<1>3. CASE bucket # <<>> /\ bucket[1] + Window < now
  <2>1. d # 0
    BY <1>0, <1>1, <1>3
  <2> QED BY <1>0, <1>1, <2>1 DEF Limited
<1> QED BY <1>2, <1>3

LEMMA LimitInits == ASSUME LimitInit PROVE LimitInv
<1>1. now = 1 /\ bucket = <<>> /\ admitted = <<>> /\ promise = 0
  BY DEF LimitInit
<1>2. Len(<<>>) = 0 /\ <<>> \in Seq(Nat)
  OBVIOUS
<1>3. EndsAt(0)
  BY <1>1, <1>2 DEF EndsAt
<1> QED BY <1>1, <1>2, <1>3, LimitAssumption
    DEF LimitInv, LimitTyped, InTime, BucketKept, PromiseFits, WindowHolds

\* Time passes, and what is old gets older.
LEMMA TickKeeps == ASSUME LimitInv, ClockTicks PROVE LimitInv'
<1>1. /\ now \in Nat /\ now' = now + 1 /\ promise' = promise
      /\ bucket' = bucket /\ admitted' = admitted
  BY DEF LimitInv, LimitTyped, ClockTicks
<1>2. admitted \in Seq(Nat) /\ Len(admitted) \in Nat /\ \A i \in 1 .. Len(admitted) : admitted[i] \in Nat
  BY DEF LimitInv, LimitTyped
<1>3. PICK k \in 0 .. Len(admitted) : EndsAt(k)
  BY DEF LimitInv, BucketKept
<1>4. EndsAt(k)'
  BY <1>1, <1>2, <1>3, LimitAssumption DEF EndsAt
<1>5. InTime'
  BY <1>1, <1>2 DEF LimitInv, InTime
<1> QED BY <1>1, <1>4, <1>5 DEF LimitInv, LimitTyped, BucketKept, PromiseFits, WindowHolds

LEMMA CleanupKeeps == ASSUME LimitInv, CleansUp PROVE LimitInv'
<1>1. /\ now' = now /\ promise' = promise /\ bucket' = <<>> /\ admitted' = admitted
      /\ bucket # <<>> /\ bucket[Len(bucket)] + Window + Lockout < now
  BY DEF CleansUp
<1>2. /\ now \in Nat /\ bucket \in Seq(Nat) /\ Len(bucket) \in Nat /\ Len(bucket) # 0
      /\ admitted \in Seq(Nat) /\ Len(admitted) \in Nat /\ \A i \in 1 .. Len(admitted) : admitted[i] \in Nat
  BY <1>1 DEF LimitInv, LimitTyped
<1>3. PICK k \in 0 .. Len(admitted) : EndsAt(k)
  BY DEF LimitInv, BucketKept
<1>4. admitted[Len(admitted)] + Window + Lockout < now /\ Len(admitted) # 0
  <2>1. Len(bucket) \in 1 .. Len(bucket) /\ k + Len(bucket) = Len(admitted)
    BY <1>2, <1>3 DEF EndsAt
  <2>2. bucket[Len(bucket)] = admitted[Len(admitted)]
    BY <1>3, <2>1 DEF EndsAt
  <2>3. Len(admitted) # 0
    BY <1>2, <2>1
  <2> QED BY <1>1, <2>2, <2>3
<1>5. \A i \in 1 .. Len(admitted) : admitted[i] + Window < now
  <2> SUFFICES ASSUME NEW i \in 1 .. Len(admitted) PROVE admitted[i] + Window < now
    OBVIOUS
  <2>1. Len(admitted) \in 1 .. Len(admitted) /\ i <= Len(admitted)
    BY <1>2
  <2>2. admitted[i] <= admitted[Len(admitted)]
    BY <2>1 DEF LimitInv, InTime
  <2>3. admitted[i] \in Nat /\ admitted[Len(admitted)] \in Nat
    BY <1>2, <2>1
  <2>4. Window \in Nat /\ Lockout \in Nat /\ now \in Nat
    BY <1>2, LimitAssumption
  <2>5. admitted[Len(admitted)] + Window + Lockout < now
    BY <1>4
  <2> QED BY <2>2, <2>3, <2>4, <2>5
<1>6. EndsAt(Len(admitted))'
  BY <1>1, <1>2, <1>5 DEF EndsAt
<1> QED BY <1>1, <1>2, <1>6, LimitAssumption
    DEF LimitInv, LimitTyped, InTime, BucketKept, PromiseFits, WindowHolds

LEMMA RefusalKeeps == ASSUME LimitInv, NEW s \in SignIns, Refused(s) PROVE LimitInv'
<1>1. /\ now' = now /\ bucket' = Purged(bucket) /\ admitted' = admitted /\ Limited
      /\ promise' = now + RetryAfter
  BY DEF Refused
<1>2. /\ now \in Nat /\ bucket \in Seq(Nat) /\ Len(bucket) \in Nat /\ Len(bucket) <= Limit
      /\ admitted \in Seq(Nat) /\ Len(admitted) \in Nat
  BY DEF LimitInv, LimitTyped, BucketKept
<1>3. PICK k \in 0 .. Len(admitted) :
        /\ Purged(bucket) \in Seq(Nat) /\ Len(Purged(bucket)) = Len(admitted) - k
        /\ Len(Purged(bucket)) <= Len(bucket)
        /\ \A i \in 1 .. Len(Purged(bucket)) : Purged(bucket)[i] = admitted[k + i]
        /\ \A i \in 1 .. k : admitted[i] + Window < now
  BY PurgedEnds
<1>4. EndsAt(k)'
  BY <1>1, <1>3 DEF EndsAt
<1>5. Purged(bucket) # <<>> /\ Head(Purged(bucket)) = Purged(bucket)[1] /\ Purged(bucket)[1] \in Nat
  BY <1>1, <1>3, LimitAssumption DEF Limited
<1>6. RetryAfter \in Nat /\ RetryAfter >= Purged(bucket)[1] + Lockout - now + 1
  <2> DEFINE a == Purged(bucket)[1] + Lockout - now + 1
  <2>1. a \in Int
    BY <1>2, <1>5, LimitAssumption
  <2>2. RetryAfter = Max({a, 1})
    BY <1>5 DEF RetryAfter
  <2> HIDE DEF a
  <2>3. Max({a, 1}) = IF a >= 1 THEN a ELSE 1
    BY <2>1, MaxOfTwo
  <2>4. RetryAfter \in Nat /\ RetryAfter >= a
    BY <2>1, <2>2, <2>3
  <2> QED BY <2>4 DEF a
<1>7. promise' \in Nat /\ PromiseFits'
  BY <1>1, <1>2, <1>5, <1>6, LimitAssumption DEF PromiseFits
<1>8. LimitTyped'
  BY <1>1, <1>3, <1>7 DEF LimitInv, LimitTyped
<1>9. BucketKept'
  <2>1. Len(bucket') <= Limit /\ k \in 0 .. Len(admitted')
    BY <1>1, <1>2, <1>3, LimitAssumption
  <2> QED BY <1>4, <2>1 DEF BucketKept
<1>10. InTime' /\ WindowHolds'
  BY <1>1 DEF LimitInv, InTime, WindowHolds
<1> QED BY <1>7, <1>8, <1>9, <1>10 DEF LimitInv

LEMMA AdmissionKeeps == ASSUME LimitInv, NEW s \in SignIns, Admitted(s) PROVE LimitInv'
<1>1. /\ now' = now /\ bucket' = Append(Purged(bucket), now) /\ admitted' = Append(admitted, now)
      /\ ~Limited /\ promise' = 0
  BY DEF Admitted
<1>2. /\ now \in Nat /\ admitted \in Seq(Nat) /\ Len(admitted) \in Nat
      /\ \A i \in 1 .. Len(admitted) : admitted[i] \in Nat
  BY DEF LimitInv, LimitTyped
<1>3. PICK k \in 0 .. Len(admitted) :
        /\ Purged(bucket) \in Seq(Nat) /\ Len(Purged(bucket)) = Len(admitted) - k
        /\ \A i \in 1 .. Len(Purged(bucket)) : Purged(bucket)[i] = admitted[k + i]
        /\ \A i \in 1 .. k : admitted[i] + Window < now
  BY PurgedEnds
<1> DEFINE p == Purged(bucket)
           n == Len(admitted)
<1>4. /\ admitted' \in Seq(Nat) /\ Len(admitted') = n + 1 /\ admitted'[n + 1] = now
      /\ \A i \in 1 .. n : admitted'[i] = admitted[i]
  BY <1>1, <1>2
<1>5. /\ bucket' \in Seq(Nat) /\ Len(bucket') = (n - k) + 1 /\ bucket'[n - k + 1] = now
      /\ \A i \in 1 .. n - k : bucket'[i] = p[i]
  BY <1>1, <1>2, <1>3
<1>6. n - k < Limit
  BY <1>1, <1>2, <1>3, LimitAssumption DEF Limited
<1>7. EndsAt(k)'
  <2>1. Len(bucket') = Len(admitted') - k
    BY <1>2, <1>4, <1>5
  <2>2. \A i \in 1 .. Len(bucket') : bucket'[i] = admitted'[k + i]
    <3> SUFFICES ASSUME NEW i \in 1 .. n - k + 1 PROVE bucket'[i] = admitted'[k + i]
      BY <1>5
    <3>1. CASE i = n - k + 1
      <4>1. k + i = n + 1
        BY <1>2, <3>1
      <4> QED BY <1>4, <1>5, <3>1, <4>1
    <3>2. CASE i # n - k + 1
      <4>1. i \in 1 .. n - k /\ k + i \in 1 .. n
        BY <1>2, <3>2
      <4> QED BY <1>3, <1>4, <1>5, <4>1
    <3> QED BY <3>1, <3>2
  <2>3. \A i \in 1 .. k : admitted'[i] + Window < now
    <3> SUFFICES ASSUME NEW i \in 1 .. k PROVE admitted'[i] + Window < now
      OBVIOUS
    <3>1. i \in 1 .. n
      BY <1>2
    <3>2. admitted'[i] = admitted[i]
      BY <1>4, <3>1
    <3> QED BY <1>3, <3>2
  <2> QED BY <1>1, <2>1, <2>2, <2>3 DEF EndsAt
<1>8. InTime'
  BY <1>1, <1>2, <1>4 DEF LimitInv, InTime
<1>9. WindowHolds'
  <2> SUFFICES ASSUME NEW i \in 1 .. n + 1, i + Limit <= n + 1
               PROVE  admitted'[i + Limit] - admitted'[i] > Window
    BY <1>4 DEF WindowHolds
  <2>1. i \in 1 .. n
    BY <1>2, LimitAssumption
  <2>2. CASE i + Limit = n + 1
    <3>1. i \in 1 .. k
      BY <1>2, <1>6, <2>1, <2>2, LimitAssumption
    <3>2. admitted[i] + Window < now /\ admitted'[i + Limit] = now /\ admitted'[i] = admitted[i]
      BY <1>3, <1>4, <2>1, <2>2, <3>1
    <3> QED BY <1>2, <2>1, <3>2, LimitAssumption
  <2>3. CASE i + Limit # n + 1
    <3>1. i + Limit \in 1 .. n
      BY <1>2, <2>1, <2>3, LimitAssumption
    <3>2. admitted[i + Limit] - admitted[i] > Window
      BY <2>1, <3>1 DEF LimitInv, WindowHolds
    <3> QED BY <1>4, <2>1, <3>1, <3>2
  <2> QED BY <2>2, <2>3
<1>10. Len(bucket') <= Limit /\ k \in 0 .. Len(admitted')
  BY <1>2, <1>4, <1>5, <1>6, LimitAssumption
<1> QED BY <1>1, <1>2, <1>4, <1>5, <1>7, <1>8, <1>9, <1>10 DEF LimitInv, LimitTyped, BucketKept, PromiseFits

LEMMA LimitSteps == ASSUME LimitInv, [LimitNext]_limitVars PROVE LimitInv'
<1>1. CASE ClockTicks
  BY <1>1, TickKeeps
<1>2. CASE CleansUp
  BY <1>2, CleanupKeeps
<1>3. ASSUME NEW s \in SignIns, Refused(s) PROVE LimitInv'
  BY <1>3, RefusalKeeps
<1>4. ASSUME NEW s \in SignIns, Admitted(s) PROVE LimitInv'
  BY <1>4, AdmissionKeeps
<1>5. CASE UNCHANGED <<now, bucket, admitted, promise>>
  BY <1>5 DEF LimitInv, LimitTyped, InTime, BucketKept, EndsAt, PromiseFits, WindowHolds
<1>6. ASSUME NEW s \in SignIns, LockChecked(s) \/ Fails(s) \/ Succeeds(s) PROVE LimitInv'
  BY <1>5, <1>6 DEF LockChecked, Fails, Succeeds
<1> QED BY <1>1, <1>2, <1>3, <1>4, <1>5, <1>6 DEF LimitNext, limitVars

\* The limiter lets no more than the limit in within a window, and whoever waits as
\* long as the last refusal said is let in (ratelimit.py is_limited and record).
THEOREM LimiterKeeps == LimitSpec => []LimiterKeepsWord
<1>1. LimitInv => LimiterKeepsWord
  <2> SUFFICES ASSUME LimitInv, Lockout >= Window, promise # 0, now >= promise PROVE ~Limited
    BY DEF LimiterKeepsWord, WaitEnds, LimitInv
  <2>1. bucket = <<>> \/ bucket[1] + Lockout < promise
    BY DEF LimitInv, PromiseFits
  <2>2. bucket # <<>> => bucket[1] \in Nat
    BY DEF LimitInv, LimitTyped
  <2>3. bucket = <<>> \/ bucket[1] + Window < now
    BY <2>1, <2>2, LimitAssumption DEF LimitInv, LimitTyped
  <2> QED BY <2>3, FrontGone
<1>2. LimitInit => LimitInv
  BY LimitInits
<1>3. LimitInv /\ [LimitNext]_limitVars => LimitInv'
  BY LimitSteps
<1> QED BY <1>1, <1>2, <1>3, PTL DEF LimitSpec

-----------------------------------------------------------------------------
(* The provider.  A request that has not called has changed nothing, one   *)
(* that is to be audited has, and one the log tells of is answered.        *)

Steps == {"call", "audit", "answered", "refused"}
KnownProvider(p) == p.creds \subseteq EnvKeys /\ p.config \subseteq EnvKeys

ProviderTyped ==
  /\ \A p \in provider : KnownProvider(p)
  /\ edit \in [ProviderEdits -> Steps]
  /\ toldOf \in Seq(ProviderEdits)
  /\ changes \subseteq ProviderEdits

EditsFit ==
  \A e \in ProviderEdits :
    /\ edit[e] = "call" => e \notin changes
    /\ edit[e] = "audit" => e \in changes
    /\ e \in ToSet(toldOf) => edit[e] = "answered"

ProviderInv == ProviderTyped /\ EditsFit /\ ChangesAudited

LEMMA ProviderInits == ASSUME ProviderInit PROVE ProviderInv
<1>1. /\ provider = {} /\ edit = [e \in ProviderEdits |-> "call"] /\ toldOf = <<>> /\ changes = {}
  BY DEF ProviderInit
<1>2. ToSet(toldOf) = {} /\ DOMAIN toldOf = {} /\ toldOf \in Seq(ProviderEdits)
  BY <1>1 DEF ToSet
<1> QED BY <1>1, <1>2 DEF ProviderInv, ProviderTyped, EditsFit, ChangesAudited, Steps

\* What the gateway makes of a provider names variables that a request named.
LEMMA StaysKnown ==
  ASSUME ProviderTyped, NEW a \in Asks, provider' \in After(a)
  PROVE  \A p \in provider' : KnownProvider(p)
<1>0. \A p \in provider : p.creds \subseteq EnvKeys /\ p.config \subseteq EnvKeys
  BY DEF ProviderTyped, KnownProvider
<1>1. CASE a.op = "create"
  <2>1. provider' = {NewProvider(a)} /\ a.creds \subseteq EnvKeys /\ a.config \subseteq EnvKeys
    BY <1>1 DEF After, Asks
  <2>2. {IF a.kind \in DOMAIN CredKey THEN CredKey[a.kind] ELSE ApiKey} \subseteq EnvKeys
    BY CredKeyAssumption
  <2>3. KnownProvider(NewProvider(a))
    BY <2>1, <2>2 DEF NewProvider, KnownProvider
  <2> QED BY <2>1, <2>3
<1>2. CASE a.op = "update"
  <2>1. a.creds \subseteq EnvKeys /\ a.config \subseteq EnvKeys
    BY <1>2 DEF Asks
  <2>2. PICK p \in provider : \E q \in Updated(p, a) : provider' = {q}
    BY <1>2 DEF After
  <2>6. PICK q \in Updated(p, a) : provider' = {q}
    BY <2>2
  <2>3. PICK k \in {p.kind, a.kind}, c \in {a.creds, a.creds \cup p.creds}, f \in {a.config, a.config \cup p.config} :
          q = [p EXCEPT !.kind = k, !.creds = c, !.config = f]
    BY DEF Updated
  <2>4. c \subseteq EnvKeys /\ f \subseteq EnvKeys
    BY <1>0, <2>1, <2>3
  <2>5. KnownProvider(q)
    BY <2>3, <2>4 DEF KnownProvider
  <2> QED BY <2>5, <2>6
<1>3. CASE a.op = "delete"
  BY <1>3 DEF After
<1>4. CASE a.op = "rotate"
  BY <1>4 DEF After, ProviderTyped
<1>5. \A keys : \A p \in provider : KnownProvider(Refreshing(p, keys))
  BY <1>0 DEF KnownProvider, Refreshing
<1>6. CASE a.op = "configure"
  <2>1. provider' = {Refreshing(p, p.refresh \cup {a.key}) : p \in provider}
    BY <1>6 DEF After
  <2> QED BY <1>5, <2>1
<1>7. CASE a.op = "unconfigure"
  <2>1. provider' = {Refreshing(p, p.refresh \ {a.key}) : p \in provider}
    BY <1>7 DEF After
  <2> QED BY <1>5, <2>1
<1> QED BY <1>1, <1>2, <1>3, <1>4, <1>6, <1>7 DEF Asks

\* The requests that changed the provider, when one more has.
LEMMA ChangeKeeps ==
  ASSUME ProviderInv, NEW e \in ProviderEdits, NEW a \in Asks, Changes(e, a), toldOf' = toldOf,
         NEW pc \in {"audit", "refused"}, EditGoes(e, pc), unheard \subseteq unheard',
         pc = "refused" => e \in unheard'
  PROVE  ProviderInv'
<1>1. /\ edit[e] = "call" /\ provider' \in After(a) /\ changes' = changes \cup {e}
      /\ edit' = [edit EXCEPT ![e] = pc] /\ toldOf' = toldOf
  BY DEF Changes, EditGoes
<1>2. ToSet(toldOf)' = ToSet(toldOf) /\ e \notin ToSet(toldOf)
  BY <1>1 DEF ProviderInv, EditsFit, ToSet
<1>3. edit' \in [ProviderEdits -> Steps] /\ edit'[e] = pc /\ \A x \in ProviderEdits \ {e} : edit'[x] = edit[x]
  BY <1>1 DEF ProviderInv, ProviderTyped, Steps
<1>4. ProviderTyped'
  BY <1>1, <1>3, StaysKnown DEF ProviderInv, ProviderTyped
<1>5. EditsFit'
  BY <1>1, <1>2, <1>3 DEF ProviderInv, EditsFit
<1>6. ChangesAudited'
  <2>1. \A x \in changes' : edit'[x] = "audit" \/ x \in ToSet(toldOf)' \cup unheard'
    BY <1>1, <1>2, <1>3 DEF ProviderInv, ChangesAudited, ProviderTyped
  <2>2. \A x \in changes' \ unheard' : edit'[x] # "refused"
    BY <1>1, <1>3 DEF ProviderInv, ChangesAudited, ProviderTyped
  <2> QED BY <1>1, <1>2, <2>1, <2>2 DEF ProviderInv, ChangesAudited
<1> QED BY <1>4, <1>5, <1>6 DEF ProviderInv

\* A request that goes elsewhere, and changes nothing.
LEMMA MoveKeeps ==
  ASSUME ProviderInv, NEW e \in ProviderEdits, NEW pc \in {"answered", "refused"}, EditGoes(e, pc),
         provider' = provider, toldOf' = toldOf, changes' = changes, unheard \subseteq unheard',
         edit[e] = "call" \/ (edit[e] = "audit" /\ pc = "answered" /\ e \in unheard')
  PROVE  ProviderInv'
<1>1. edit' = [edit EXCEPT ![e] = pc]
  BY DEF EditGoes
<1>2. ToSet(toldOf)' = ToSet(toldOf) /\ e \notin ToSet(toldOf)
  BY DEF ProviderInv, EditsFit, ToSet
<1>3. edit' \in [ProviderEdits -> Steps] /\ edit'[e] = pc /\ \A x \in ProviderEdits \ {e} : edit'[x] = edit[x]
  BY <1>1 DEF ProviderInv, ProviderTyped, Steps
<1>4. ProviderTyped'
  BY <1>3 DEF ProviderInv, ProviderTyped
<1>5. EditsFit'
  BY <1>2, <1>3 DEF ProviderInv, EditsFit
<1>6. ChangesAudited'
  <2>1. \A x \in changes : edit'[x] = "audit" \/ x \in ToSet(toldOf) \cup unheard'
    BY <1>2, <1>3 DEF ProviderInv, ChangesAudited, EditsFit, ProviderTyped
  <2>2. \A x \in changes \ unheard' : edit'[x] # "refused"
    BY <1>3 DEF ProviderInv, ChangesAudited, EditsFit, ProviderTyped
  <2> QED BY <1>2, <2>1, <2>2 DEF ProviderInv, ChangesAudited
<1> QED BY <1>4, <1>5, <1>6 DEF ProviderInv

LEMMA AuditKeeps == ASSUME ProviderInv, NEW e \in ProviderEdits, Audits(e) PROVE ProviderInv'
<1>1. /\ edit[e] = "audit" /\ toldOf' = Append(toldOf, e) /\ edit' = [edit EXCEPT ![e] = "answered"]
      /\ provider' = provider /\ changes' = changes /\ unheard' = unheard
  BY DEF Audits, EditGoes
<1>2. /\ toldOf \in Seq(ProviderEdits) /\ Len(toldOf) \in Nat /\ DOMAIN toldOf = 1 .. Len(toldOf)
  BY DEF ProviderInv, ProviderTyped
<1>3. /\ toldOf' \in Seq(ProviderEdits) /\ DOMAIN toldOf' = 1 .. Len(toldOf) + 1 /\ toldOf'[Len(toldOf) + 1] = e
      /\ \A i \in 1 .. Len(toldOf) : toldOf'[i] = toldOf[i]
  BY <1>1, <1>2
<1>4. ToSet(toldOf)' = ToSet(toldOf) \cup {e}
  <2>1. \A i \in 1 .. Len(toldOf) + 1 : i \in 1 .. Len(toldOf) \/ i = Len(toldOf) + 1
    BY <1>2
  <2>2. 1 .. Len(toldOf) \subseteq 1 .. Len(toldOf) + 1 /\ Len(toldOf) + 1 \in 1 .. Len(toldOf) + 1
    BY <1>2
  <2> QED BY <1>2, <1>3, <2>1, <2>2 DEF ToSet
<1>5. e \notin ToSet(toldOf) /\ e \in changes
  BY <1>1 DEF ProviderInv, EditsFit
<1>6. edit' \in [ProviderEdits -> Steps] /\ edit'[e] = "answered" /\ \A x \in ProviderEdits \ {e} : edit'[x] = edit[x]
  BY <1>1 DEF ProviderInv, ProviderTyped, Steps
<1>7. ProviderTyped'
  BY <1>1, <1>3, <1>6 DEF ProviderInv, ProviderTyped
<1>8. EditsFit'
  BY <1>1, <1>4, <1>6 DEF ProviderInv, EditsFit
<1>9. \A i, j \in DOMAIN toldOf' : toldOf'[i] = toldOf'[j] => i = j
  <2> SUFFICES ASSUME NEW i \in DOMAIN toldOf', NEW j \in DOMAIN toldOf', toldOf'[i] = toldOf'[j] PROVE i = j
    OBVIOUS
  <2>1. \A k \in 1 .. Len(toldOf) : toldOf'[k] # e
    BY <1>2, <1>3, <1>5 DEF ToSet
  <2>2. CASE i \in 1 .. Len(toldOf) /\ j \in 1 .. Len(toldOf)
    BY <1>2, <1>3, <2>2 DEF ProviderInv, ChangesAudited
  <2>3. CASE i = Len(toldOf) + 1 \/ j = Len(toldOf) + 1
    BY <1>2, <1>3, <2>1, <2>3
  <2> QED BY <1>2, <1>3, <2>2, <2>3
<1>10. ChangesAudited'
  <2>1. \A x \in changes : edit'[x] = "audit" \/ x \in (ToSet(toldOf) \cup {e}) \cup unheard
    BY <1>6 DEF ProviderInv, ChangesAudited, ProviderTyped
  <2>2. \A x \in changes \ unheard : edit'[x] # "refused"
    BY <1>6 DEF ProviderInv, ChangesAudited, ProviderTyped
  <2> QED BY <1>1, <1>4, <1>5, <1>9, <2>1, <2>2 DEF ProviderInv, ChangesAudited
<1> QED BY <1>7, <1>8, <1>10 DEF ProviderInv

LEMMA EndKeeps == ASSUME ProviderInv, ServerEnds PROVE ProviderInv'
<1>1. /\ unheard' = unheard \cup {e \in ProviderEdits : edit[e] = "audit"}
      /\ edit' = [e \in ProviderEdits |-> IF edit[e] = "answered" THEN "answered" ELSE "refused"]
      /\ provider' = provider /\ toldOf' = toldOf /\ changes' = changes
  BY DEF ServerEnds, Loses
<1>2. ToSet(toldOf)' = ToSet(toldOf)
  BY <1>1 DEF ToSet
<1>3. ProviderTyped'
  BY <1>1 DEF ProviderInv, ProviderTyped, Steps
<1>4. EditsFit'
  BY <1>1, <1>2 DEF ProviderInv, EditsFit
<1>5. ChangesAudited'
  <2>1. \A x \in changes : edit'[x] = "audit" \/ x \in ToSet(toldOf) \cup unheard'
    BY <1>1 DEF ProviderInv, ChangesAudited, ProviderTyped
  <2>2. \A x \in changes \ unheard' : edit'[x] # "refused"
    BY <1>1 DEF ProviderInv, ChangesAudited, EditsFit, ProviderTyped, Steps
  <2> QED BY <1>1, <1>2, <2>1, <2>2 DEF ProviderInv, ChangesAudited
<1> QED BY <1>3, <1>4, <1>5 DEF ProviderInv

LEMMA ProviderSteps == ASSUME ProviderInv, [ProviderNext]_providerVars PROVE ProviderInv'
<1>1. ASSUME NEW e \in ProviderEdits, NEW a \in Asks, Called(e, a) PROVE ProviderInv'
  BY <1>1, ChangeKeeps DEF Called
<1>2. ASSUME NEW e \in ProviderEdits, NEW a \in Asks, AnswerLost(e, a) PROVE ProviderInv'
  BY <1>2, ChangeKeeps DEF AnswerLost, Loses
<1>3. ASSUME NEW e \in ProviderEdits, NEW a \in Asks, CallRefused(e, a) PROVE ProviderInv'
  BY <1>3, MoveKeeps DEF CallRefused, NothingDone
<1>4. ASSUME NEW e \in ProviderEdits, WriteLimited(e) PROVE ProviderInv'
  BY <1>4, MoveKeeps DEF WriteLimited
<1>5. ASSUME NEW e \in ProviderEdits, AuditFails(e) PROVE ProviderInv'
  BY <1>5, MoveKeeps DEF AuditFails, Loses
<1>6. CASE UNCHANGED providerVars
  BY <1>6 DEF providerVars, ProviderInv, ProviderTyped, EditsFit, ChangesAudited, ToSet
<1> QED BY <1>1, <1>2, <1>3, <1>4, <1>5, <1>6, AuditKeeps, EndKeeps DEF ProviderNext

\* An injection of the first numbers, as many as a set has elements, reaches all of it.
LEMMA AllInOrder ==
  ASSUME NEW S, IsFiniteSet(S), NEW o \in SetToSeqs(S)
  PROVE  /\ Cardinality(S) \in Nat /\ DOMAIN o = 1 .. Cardinality(S)
         /\ \A i \in DOMAIN o : o[i] \in S
         /\ \A i, j \in DOMAIN o : o[i] = o[j] => i = j
         /\ \A x \in S : \E i \in DOMAIN o : o[i] = x
<1> DEFINE D == 1 .. Cardinality(S)
<1>1. Cardinality(S) \in Nat
  BY FS_CardinalityType
<1>2. o \in [D -> S] /\ \A i, j \in D : i # j => o[i] # o[j]
  BY DEF SetToSeqs
<1>3. o \in Injection(D, S)
  BY <1>2 DEF Injection, IsInjective
<1>4. IsFiniteSet(D) /\ Cardinality(D) = Cardinality(S)
  BY <1>1, FS_Interval
<1>5. o \in Surjection(D, S)
  BY <1>3, <1>4, FS_Injection
<1>6. \A x \in S : \E i \in D : o[i] = x
  BY <1>5 DEF Surjection
<1> QED BY <1>1, <1>2, <1>6

Sources == {"credential", "config", "type_default"}
Line == [key : EnvKeys, source : Sources]
KeysIn(lines) == {l.key : l \in ToSet(lines)}
DistinctKeys(lines) == \A i, j \in DOMAIN lines : lines[i].key = lines[j].key => i = j
Sourced(keys, source) == {[key |-> k, source |-> source] : k \in keys}

\* The lines of one source add its keys that had none, once each.
LEMMA LinesAre ==
  ASSUME NEW lines \in Seq(Line), DistinctKeys(lines),
         NEW keys \in SUBSET EnvKeys, NEW source \in Sources, NEW m \in Lines(lines, keys, source)
  PROVE  /\ m \in Seq(Line) /\ DistinctKeys(m)
         /\ ToSet(m) = ToSet(lines) \cup Sourced(keys \ KeysIn(lines), source)
         /\ KeysIn(m) = KeysIn(lines) \cup keys
<1> DEFINE S == keys \ KeysIn(lines)
<1>1. PICK o \in SetToSeqs(S) : m = lines \o [i \in DOMAIN o |-> [key |-> o[i], source |-> source]]
  BY DEF Lines, KeysIn
<1>2. IsFiniteSet(S)
  BY CredKeyAssumption, FS_Subset
<1> DEFINE n == Cardinality(S)
           t == [i \in 1 .. n |-> [key |-> o[i], source |-> source]]
<1> HIDE DEF S
<1>3. /\ n \in Nat /\ DOMAIN o = 1 .. n /\ \A i \in 1 .. n : o[i] \in S
      /\ \A i, j \in 1 .. n : o[i] = o[j] => i = j
      /\ \A x \in S : \E i \in 1 .. n : o[i] = x
  BY <1>2, AllInOrder
<1>4. S \subseteq EnvKeys /\ \A x \in S : x \notin KeysIn(lines)
  BY DEF S
<1> HIDE DEF n
<1>5. /\ t \in Seq(Line) /\ Len(t) = n /\ m = lines \o t
      /\ \A i \in 1 .. n : t[i] = [key |-> o[i], source |-> source]
  <2>1. \A i \in 1 .. n : [key |-> o[i], source |-> source] \in Line
    BY <1>3, <1>4 DEF Line
  <2> QED BY <1>1, <1>3, <2>1
<1> HIDE DEF t
<1>6. /\ Len(lines) \in Nat /\ DOMAIN lines = 1 .. Len(lines)
      /\ \A i \in 1 .. Len(lines) : lines[i] \in Line
  OBVIOUS
<1>7. /\ m \in Seq(Line) /\ DOMAIN m = 1 .. Len(lines) + n
      /\ \A i \in 1 .. Len(lines) : m[i] = lines[i]
      /\ \A i \in 1 .. n : m[Len(lines) + i] = t[i]
  <2>1. m \in Seq(Line) /\ Len(m) = Len(lines) + n
        /\ \A i \in 1 .. Len(lines) + n : m[i] = IF i <= Len(lines) THEN lines[i] ELSE t[i - Len(lines)]
    BY <1>5, ConcatProperties
  <2>2. \A i \in 1 .. Len(lines) : m[i] = lines[i]
    BY <1>3, <1>6, <2>1
  <2>3. \A i \in 1 .. n : m[Len(lines) + i] = t[i]
    <3> SUFFICES ASSUME NEW i \in 1 .. n PROVE m[Len(lines) + i] = t[i]
      OBVIOUS
    <3>1. Len(lines) + i \in 1 .. Len(lines) + n /\ ~ (Len(lines) + i <= Len(lines)) /\ (Len(lines) + i) - Len(lines) = i
      BY <1>3, <1>6
    <3> QED BY <2>1, <3>1
  <2> QED BY <2>1, <2>2, <2>3
<1>8. \A i \in 1 .. Len(lines) + n : i \in 1 .. Len(lines) \/ \E j \in 1 .. n : i = Len(lines) + j
  <2> SUFFICES ASSUME NEW i \in 1 .. Len(lines) + n, i \notin 1 .. Len(lines)
               PROVE  i - Len(lines) \in 1 .. n /\ i = Len(lines) + (i - Len(lines))
    OBVIOUS
  <2> QED BY <1>3, <1>6
<1>9. 1 .. Len(lines) \subseteq 1 .. Len(lines) + n /\ \A j \in 1 .. n : Len(lines) + j \in 1 .. Len(lines) + n
  BY <1>3, <1>6
<1>10. ToSet(m) = ToSet(lines) \cup Sourced(S, source)
  <2>1. \A x \in ToSet(m) : x \in ToSet(lines) \cup Sourced(S, source)
    <3> SUFFICES ASSUME NEW i \in 1 .. Len(lines) + n PROVE m[i] \in ToSet(lines) \cup Sourced(S, source)
      BY <1>7 DEF ToSet
    <3>1. CASE i \in 1 .. Len(lines)
      BY <1>6, <1>7, <3>1 DEF ToSet
    <3>2. ASSUME NEW j \in 1 .. n, i = Len(lines) + j PROVE m[i] \in Sourced(S, source)
      BY <1>3, <1>5, <1>7, <3>2 DEF Sourced
    <3> QED BY <1>8, <3>1, <3>2
  <2>2. \A x \in ToSet(lines) : x \in ToSet(m)
    BY <1>6, <1>7, <1>9 DEF ToSet
  <2>3. \A x \in Sourced(S, source) : x \in ToSet(m)
    <3> SUFFICES ASSUME NEW k \in S PROVE [key |-> k, source |-> source] \in ToSet(m)
      BY DEF Sourced
    <3>1. PICK j \in 1 .. n : o[j] = k
      BY <1>3
    <3>2. m[Len(lines) + j] = [key |-> k, source |-> source] /\ Len(lines) + j \in DOMAIN m
      BY <1>5, <1>7, <1>9, <3>1
    <3> QED BY <3>2 DEF ToSet
  <2> QED BY <2>1, <2>2, <2>3
<1>11. KeysIn(m) = KeysIn(lines) \cup keys
  <2>1. {l.key : l \in Sourced(S, source)} = S
    <3> DEFINE L(k) == [key |-> k, source |-> source]
    <3>1. \A k \in S : L(k).key = k
      OBVIOUS
    <3>2. Sourced(S, source) = {L(k) : k \in S}
      BY DEF Sourced
    <3> HIDE DEF L
    <3> QED BY <3>1, <3>2
  <2>2. KeysIn(m) = KeysIn(lines) \cup {l.key : l \in Sourced(S, source)}
    BY <1>10 DEF KeysIn
  <2> QED BY <2>1, <2>2 DEF S
<1>12. DistinctKeys(m)
  <2>1. \A i \in 1 .. Len(lines) : m[i].key \in KeysIn(lines)
    BY <1>6, <1>7 DEF KeysIn, ToSet
  <2>2. \A j \in 1 .. n : m[Len(lines) + j].key = o[j] /\ o[j] \notin KeysIn(lines)
    BY <1>3, <1>4, <1>5, <1>7
  <2> SUFFICES ASSUME NEW i \in 1 .. Len(lines) + n, NEW j \in 1 .. Len(lines) + n, m[i].key = m[j].key PROVE i = j
    BY <1>7 DEF DistinctKeys
  <2>3. CASE i \in 1 .. Len(lines) /\ j \in 1 .. Len(lines)
    BY <1>6, <1>7, <2>3 DEF DistinctKeys
  <2>4. CASE i \in 1 .. Len(lines) /\ \E x \in 1 .. n : j = Len(lines) + x
    BY <2>1, <2>2, <2>4
  <2>5. CASE j \in 1 .. Len(lines) /\ \E x \in 1 .. n : i = Len(lines) + x
    BY <2>1, <2>2, <2>5
  <2>6. ASSUME NEW x \in 1 .. n, NEW y \in 1 .. n, i = Len(lines) + x, j = Len(lines) + y PROVE i = j
    <3>1. o[x] = o[y]
      BY <2>2, <2>6
    <3> QED BY <1>3, <2>6, <3>1
  <2> QED BY <1>8, <2>3, <2>4, <2>5, <2>6
<1> QED BY <1>7, <1>10, <1>11, <1>12 DEF S

LEMMA LinesOf ==
  \A lines \in Seq(Line) : \A keys, source, m :
    DistinctKeys(lines) /\ keys \subseteq EnvKeys /\ source \in Sources /\ m \in Lines(lines, keys, source)
      => /\ m \in Seq(Line) /\ DistinctKeys(m)
         /\ ToSet(m) = ToSet(lines) \cup Sourced(keys \ KeysIn(lines), source)
         /\ KeysIn(m) = KeysIn(lines) \cup keys
<1> SUFFICES ASSUME NEW lines \in Seq(Line), NEW keys, NEW source, NEW m,
                    DistinctKeys(lines), keys \subseteq EnvKeys, source \in Sources, m \in Lines(lines, keys, source)
             PROVE  /\ m \in Seq(Line) /\ DistinctKeys(m)
                    /\ ToSet(m) = ToSet(lines) \cup Sourced(keys \ KeysIn(lines), source)
                    /\ KeysIn(m) = KeysIn(lines) \cup keys
  OBVIOUS
<1>1. keys \in SUBSET EnvKeys
  OBVIOUS
<1> QED BY <1>1, LinesAre

\* The environment of a provider that names known variables is whole.
LEMMA EnvIsWhole ==
  ASSUME ProviderTyped
  PROVE  EnvWhole
<1> SUFFICES ASSUME NEW p \in provider, NEW lines \in EnvLines(p)
             PROVE  /\ ToSet(lines) = {[key |-> k, source |-> IF k \in p.creds THEN "credential"
                                                               ELSE IF k \in p.config THEN "config" ELSE "type_default"] :
                                         k \in p.creds \cup p.config \cup DefaultKey(p)}
                    /\ DistinctKeys(lines)
  BY DEF EnvWhole, DistinctKeys
<1>1. p.creds \subseteq EnvKeys /\ p.config \subseteq EnvKeys /\ DefaultKey(p) \subseteq EnvKeys
  BY CredKeyAssumption DEF ProviderTyped, KnownProvider, DefaultKey
<1>2. PICK none : none = <<>>
  OBVIOUS
<1>3. /\ none \in Seq(Line) /\ DistinctKeys(none)
      /\ ToSet(none) = {} /\ KeysIn(none) = {}
  BY <1>2 DEF DistinctKeys, ToSet, KeysIn
<1>4. PICK l \in Lines(none, p.creds, "credential") :
        \E m \in Lines(l, p.config, "config") : lines \in Lines(m, DefaultKey(p), "type_default")
  BY <1>2 DEF EnvLines
<1>5. PICK m \in Lines(l, p.config, "config") : lines \in Lines(m, DefaultKey(p), "type_default")
  BY <1>4
<1>6. "credential" \in Sources /\ "config" \in Sources /\ "type_default" \in Sources
  BY DEF Sources
<1>7. l \in Seq(Line) /\ DistinctKeys(l)
  BY <1>1, <1>3, <1>4, <1>6, LinesOf
<1>8. ToSet(l) = ToSet(none) \cup Sourced(p.creds \ KeysIn(none), "credential")
  BY <1>1, <1>3, <1>4, <1>6, LinesOf
<1>9. KeysIn(l) = KeysIn(none) \cup p.creds
  BY <1>1, <1>3, <1>4, <1>6, LinesOf
<1>10. m \in Seq(Line) /\ DistinctKeys(m)
  BY <1>1, <1>5, <1>6, <1>7, LinesOf
<1>11. ToSet(m) = ToSet(l) \cup Sourced(p.config \ KeysIn(l), "config")
  BY <1>1, <1>5, <1>6, <1>7, LinesOf
<1>12. KeysIn(m) = KeysIn(l) \cup p.config
  BY <1>1, <1>5, <1>6, <1>7, LinesOf
<1>13. DistinctKeys(lines)
  BY <1>1, <1>5, <1>6, <1>10, LinesOf
<1>14. ToSet(lines) = ToSet(m) \cup Sourced(DefaultKey(p) \ KeysIn(m), "type_default")
  BY <1>1, <1>5, <1>6, <1>10, LinesOf
<1>15. ToSet(lines) = Sourced(p.creds, "credential") \cup Sourced(p.config \ p.creds, "config")
                       \cup Sourced(DefaultKey(p) \ (p.creds \cup p.config), "type_default")
  BY <1>3, <1>8, <1>9, <1>11, <1>12, <1>14
<1> QED BY <1>13, <1>15 DEF Sourced

\* The log tells of what was done to the provider and of nothing else, and what lost
\* nothing and was refused did nothing (routes/providers.py); the environment has one
\* line for each variable, under the first of its sources (services/providers.py get_env).
THEOREM ProvidersAreTold == ProviderSpec => []ProvidersTell
<1>1. ProviderInv => ProvidersTell
  BY EnvIsWhole DEF ProviderInv, ProvidersTell
<1>2. ProviderInit => ProviderInv
  BY ProviderInits
<1>3. ProviderInv /\ [ProviderNext]_providerVars => ProviderInv'
  BY ProviderSteps
<1> QED BY <1>1, <1>2, <1>3, PTL DEF ProviderSpec

-----------------------------------------------------------------------------
(* The cache of the denials.  Against the history it was filled from, it   *)
(* holds the last summaries of its keys, in the order of their places; the *)
(* last summary of any other key is before them, and then the cache is     *)
(* full.                                                                   *)

Summary == [key : Keys, by : Submissions]

\* The n-th of the history is the last one of its key.
IsLast(h, n) == \A m \in n + 1 .. Len(h) : h[m].key # h[n].key

\* The i-th of the cache is the at[i]-th of the history.
Places(c, h, at) ==
  /\ at \in [1 .. Len(c) -> 1 .. Len(h)]
  /\ \A i, j \in 1 .. Len(c) : i < j => at[i] < at[j]
  /\ \A i \in 1 .. Len(c) : c[i] = h[at[i]] /\ IsLast(h, at[i])

\* What is not in the cache is before what is, and there is no room for it.
Evicted(c, h, at, n) == Len(c) >= MaxEntries /\ \A i \in 1 .. Len(c) : n < at[i]

Complete(c, h, at) ==
  \A n \in 1 .. Len(h) : IsLast(h, n) => (\E i \in 1 .. Len(c) : at[i] = n) \/ Evicted(c, h, at, n)

Fits(c, h) == \E at : Places(c, h, at) /\ Complete(c, h, at)

\* The sequence without its p-th.
LEMMA Removed ==
  ASSUME NEW S, NEW c \in Seq(S), NEW p \in 1 .. Len(c)
  PROVE  /\ RemoveAt(c, p) \in Seq(S)
         /\ Len(RemoveAt(c, p)) = Len(c) - 1
         /\ \A i \in 1 .. Len(c) - 1 : RemoveAt(c, p)[i] = IF i < p THEN c[i] ELSE c[i + 1]
<1> DEFINE a == SubSeq(c, 1, p - 1)
           b == SubSeq(c, p + 1, Len(c))
<1>1. Len(c) \in Nat /\ p \in Int /\ \A i \in 1 .. Len(c) : c[i] \in S
  OBVIOUS
<1>2. a \in Seq(S) /\ Len(a) = p - 1 /\ \A i \in 1 .. p - 1 : a[i] = c[i]
  <2>1. 1 \in Int /\ p - 1 \in Int /\ \A i \in 1 .. p - 1 : c[i] \in S
    BY <1>1
  <2>2. /\ a \in Seq(S) /\ Len(a) = IF 1 <= p - 1 THEN p - 1 - 1 + 1 ELSE 0
        /\ \A i \in 1 .. p - 1 - 1 + 1 : a[i] = c[1 + i - 1]
    BY <2>1, SubSeqProperties
  <2> HIDE DEF a
  <2>3. p - 1 - 1 + 1 = p - 1 /\ \A i \in 1 .. p - 1 : 1 + i - 1 = i
    BY <1>1
  <2> QED BY <1>1, <2>2, <2>3
<1>3. b \in Seq(S) /\ Len(b) = Len(c) - p /\ \A i \in 1 .. Len(c) - p : b[i] = c[p + i]
  <2>1. p + 1 \in Int /\ Len(c) \in Int /\ \A i \in p + 1 .. Len(c) : c[i] \in S
    BY <1>1
  <2>2. /\ b \in Seq(S) /\ Len(b) = IF p + 1 <= Len(c) THEN Len(c) - (p + 1) + 1 ELSE 0
        /\ \A i \in 1 .. Len(c) - (p + 1) + 1 : b[i] = c[p + 1 + i - 1]
    BY <2>1, SubSeqProperties
  <2> HIDE DEF b
  <2>3. Len(c) - (p + 1) + 1 = Len(c) - p /\ \A i \in 1 .. Len(c) - p : p + 1 + i - 1 = p + i
    BY <1>1
  <2>4. Len(b) = Len(c) - p
    BY <1>1, <2>2
  <2> QED BY <2>2, <2>3, <2>4
<1>4. RemoveAt(c, p) = a \o b
  BY DEF RemoveAt
<1> HIDE DEF a, b
<1>5. a \o b \in Seq(S) /\ Len(a \o b) = Len(a) + Len(b)
  BY <1>2, <1>3, ConcatProperties
<1>6. \A i \in 1 .. Len(a) + Len(b) : (a \o b)[i] = IF i <= Len(a) THEN a[i] ELSE b[i - Len(a)]
  BY <1>2, <1>3, ConcatProperties
<1>7. ASSUME NEW i \in 1 .. Len(c) - 1 PROVE (a \o b)[i] = IF i < p THEN c[i] ELSE c[i + 1]
  <2>1. i \in 1 .. Len(a) + Len(b)
    BY <1>1, <1>2, <1>3
  <2>2. CASE i < p
    <3>1. i <= Len(a) /\ i \in 1 .. p - 1
      BY <1>1, <1>2, <2>2
    <3> QED BY <1>2, <1>6, <2>1, <2>2, <3>1
  <2>3. CASE ~ (i < p)
    <3>1. ~ (i <= Len(a)) /\ i - Len(a) \in 1 .. Len(c) - p /\ p + (i - Len(a)) = i + 1
      BY <1>1, <1>2, <2>3
    <3> QED BY <1>3, <1>6, <2>1, <2>3, <3>1
  <2> QED BY <2>2, <2>3
<1>8. Len(a) + Len(b) = Len(c) - 1
  BY <1>1, <1>2, <1>3
<1> QED BY <1>4, <1>5, <1>7, <1>8

\* A key has one place in the cache, and what is left without it keeps its order.
LEMMA WithoutFits ==
  ASSUME NEW c \in Seq(Summary), NEW h \in Seq(Summary), NEW k, Fits(c, h)
  PROVE  /\ Without(c, k) \in Seq(Summary)
         /\ Len(Without(c, k)) <= Len(c) /\ Len(c) <= Len(Without(c, k)) + 1
         /\ \E at : /\ Places(Without(c, k), h, at)
                    /\ \A i \in 1 .. Len(Without(c, k)) : Without(c, k)[i].key # k
                    /\ \A n \in 1 .. Len(h) : IsLast(h, n) /\ h[n].key # k =>
                         \/ \E i \in 1 .. Len(Without(c, k)) : at[i] = n
                         \/ Len(c) >= MaxEntries /\ \A i \in 1 .. Len(Without(c, k)) : n < at[i]
<1>1. PICK at : Places(c, h, at) /\ Complete(c, h, at)
  BY DEF Fits
<1>2. /\ Len(c) \in Nat /\ Len(h) \in Nat /\ DOMAIN c = 1 .. Len(c)
      /\ at \in [1 .. Len(c) -> 1 .. Len(h)]
      /\ \A i, j \in 1 .. Len(c) : i < j => at[i] < at[j]
      /\ \A i \in 1 .. Len(c) : c[i] = h[at[i]] /\ IsLast(h, at[i])
  BY <1>1 DEF Places
<1>3. CASE ~ \E i \in DOMAIN c : c[i].key = k
  <2>1. Without(c, k) = c
    BY <1>3 DEF Without
  <2>2. \A i \in 1 .. Len(c) : c[i].key # k
    BY <1>2, <1>3
  <2> QED BY <1>1, <1>2, <2>1, <2>2 DEF Complete, Evicted
<1>4. CASE \E i \in DOMAIN c : c[i].key = k
  <2>1. PICK p \in 1 .. Len(c) : c[p].key = k /\ Without(c, k) = RemoveAt(c, p)
    <3>1. (CHOOSE i \in DOMAIN c : c[i].key = k) \in DOMAIN c /\ c[CHOOSE i \in DOMAIN c : c[i].key = k].key = k
      BY <1>4
    <3> QED BY <1>2, <1>4, <3>1 DEF Without
  <2> DEFINE w == Without(c, k)
             b == [i \in 1 .. Len(c) - 1 |-> IF i < p THEN at[i] ELSE at[i + 1]]
  <2>2. /\ w \in Seq(Summary) /\ Len(w) = Len(c) - 1
        /\ \A i \in 1 .. Len(c) - 1 : w[i] = IF i < p THEN c[i] ELSE c[i + 1]
    BY <2>1, Removed
  <2>3. \A i \in 1 .. Len(c) - 1 : i \in 1 .. Len(c) /\ i + 1 \in 1 .. Len(c)
    BY <1>2
  <2>4. b \in [1 .. Len(w) -> 1 .. Len(h)] /\ \A i \in 1 .. Len(w) : b[i] = IF i < p THEN at[i] ELSE at[i + 1]
    BY <1>2, <2>2, <2>3
  <2> HIDE DEF w, b
  <2>5. \A i, j \in 1 .. Len(w) : i < j => b[i] < b[j]
    <3> SUFFICES ASSUME NEW i \in 1 .. Len(w), NEW j \in 1 .. Len(w), i < j PROVE b[i] < b[j]
      OBVIOUS
    <3>1. /\ i \in 1 .. Len(c) /\ i + 1 \in 1 .. Len(c) /\ j \in 1 .. Len(c) /\ j + 1 \in 1 .. Len(c)
          /\ i < j /\ i < j + 1 /\ i + 1 < j + 1
      BY <1>2, <2>2, <2>3
    <3>2. at[i] < at[j] /\ at[i] < at[j + 1] /\ at[i + 1] < at[j + 1]
      BY <1>2, <3>1
    <3>3. j < p => i < p
      BY <2>1, <3>1
    <3> QED BY <2>4, <3>2, <3>3
  <2>6. \A i \in 1 .. Len(w) : w[i] = h[b[i]] /\ IsLast(h, b[i])
    BY <1>2, <2>2, <2>3, <2>4
  <2>7. \A i \in 1 .. Len(c) : i # p => c[i].key # k
    <3> SUFFICES ASSUME NEW i \in 1 .. Len(c), i # p, c[i].key = k PROVE FALSE
      OBVIOUS
    <3>1. /\ h[at[i]].key = h[at[p]].key
          /\ \A m \in at[i] + 1 .. Len(h) : h[m].key # h[at[i]].key
          /\ \A m \in at[p] + 1 .. Len(h) : h[m].key # h[at[p]].key
      BY <1>2, <2>1 DEF IsLast
    <3>2. at[i] \in 1 .. Len(h) /\ at[p] \in 1 .. Len(h)
      BY <1>2, <2>1
    <3>3. at[i] < at[p] \/ at[p] < at[i]
      BY <1>2, <2>1
    <3>4. at[p] \in at[i] + 1 .. Len(h) \/ at[i] \in at[p] + 1 .. Len(h)
      BY <1>2, <3>2, <3>3
    <3> QED BY <3>1, <3>4
  <2>8. \A i \in 1 .. Len(w) : w[i].key # k
    <3> SUFFICES ASSUME NEW i \in 1 .. Len(w) PROVE w[i].key # k
      OBVIOUS
    <3>1. i < p => i # p
      BY <2>1
    <3>2. ~ (i < p) => i + 1 # p
      BY <1>2, <2>1, <2>2
    <3> QED BY <2>2, <2>3, <2>7, <3>1, <3>2
  <2>9. ASSUME NEW n \in 1 .. Len(h), IsLast(h, n), h[n].key # k
        PROVE  (\E i \in 1 .. Len(w) : b[i] = n) \/ (Len(c) >= MaxEntries /\ \A i \in 1 .. Len(w) : n < b[i])
    <3>1. (\E i \in 1 .. Len(c) : at[i] = n) \/ (Len(c) >= MaxEntries /\ \A i \in 1 .. Len(c) : n < at[i])
      BY <1>1, <2>9 DEF Complete, Evicted
    <3>2. ASSUME NEW i \in 1 .. Len(c), at[i] = n PROVE \E x \in 1 .. Len(w) : b[x] = n
      <4>1. i # p
        BY <1>2, <2>1, <2>9, <3>2
      <4>2. CASE i < p
        <5>1. i \in 1 .. Len(w)
          BY <1>2, <2>1, <2>2, <4>2
        <5> QED BY <2>4, <3>2, <4>2, <5>1
      <4>3. CASE ~ (i < p)
        <5>1. i - 1 \in 1 .. Len(w) /\ ~ (i - 1 < p) /\ i - 1 + 1 = i
          BY <1>2, <2>1, <2>2, <4>1, <4>3
        <5> QED BY <2>4, <3>2, <5>1
      <4> QED BY <4>2, <4>3
    <3>3. ASSUME \A i \in 1 .. Len(c) : n < at[i] PROVE \A i \in 1 .. Len(w) : n < b[i]
      BY <2>2, <2>3, <2>4, <3>3
    <3> QED BY <3>1, <3>2, <3>3
  <2>10. Places(w, h, b)
    BY <2>4, <2>5, <2>6 DEF Places
  <2>11. w \in Seq(Summary) /\ Len(w) <= Len(c) /\ Len(c) <= Len(w) + 1
    BY <1>2, <2>2
  <2> QED BY <2>8, <2>9, <2>10, <2>11 DEF w
<1> QED BY <1>3, <1>4

\* A summary that is new is the last of its key; the others that were last and are of
\* another key still are.
LEMMA StoredFits ==
  ASSUME NEW c \in Seq(Summary), NEW h \in Seq(Summary), NEW e \in Summary, Fits(c, h)
  PROVE  /\ Stored(c, e) \in Seq(Summary) /\ Stored(c, e) # <<>>
         /\ Len(Stored(c, e)) <= Len(c) + 1
         /\ Fits(Stored(c, e), Append(h, e))
<1> DEFINE w == Without(c, e.key)
           d == Append(w, e)
           g == Append(h, e)
<1>1. Stored(c, e) = d
  BY DEF Stored
<1>2. w \in Seq(Summary) /\ Len(w) <= Len(c) /\ Len(c) <= Len(w) + 1
  BY WithoutFits
<1>3. PICK at : /\ Places(w, h, at)
                /\ \A i \in 1 .. Len(w) : w[i].key # e.key
                /\ \A n \in 1 .. Len(h) : IsLast(h, n) /\ h[n].key # e.key =>
                     (\E i \in 1 .. Len(w) : at[i] = n) \/ (Len(c) >= MaxEntries /\ \A i \in 1 .. Len(w) : n < at[i])
  BY WithoutFits
<1> HIDE DEF w
<1>4. /\ Len(c) \in Nat /\ Len(w) \in Nat /\ Len(h) \in Nat
      /\ at \in [1 .. Len(w) -> 1 .. Len(h)]
      /\ \A i, j \in 1 .. Len(w) : i < j => at[i] < at[j]
      /\ \A i \in 1 .. Len(w) : w[i] = h[at[i]] /\ IsLast(h, at[i])
  BY <1>2, <1>3 DEF Places
<1>5. /\ d \in Seq(Summary) /\ d # <<>> /\ Len(d) = Len(w) + 1
      /\ \A i \in 1 .. Len(w) : d[i] = w[i]
      /\ d[Len(w) + 1] = e
  BY <1>2, AppendProperties
<1>6. /\ g \in Seq(Summary) /\ Len(g) = Len(h) + 1
      /\ \A i \in 1 .. Len(h) : g[i] = h[i]
      /\ g[Len(h) + 1] = e
  BY AppendProperties
<1> HIDE DEF d, g
<1> DEFINE b == [i \in 1 .. Len(w) + 1 |-> IF i = Len(w) + 1 THEN Len(h) + 1 ELSE at[i]]
<1>7. /\ \A i \in 1 .. Len(w) : i \in 1 .. Len(d) /\ i # Len(w) + 1
      /\ \A i \in 1 .. Len(d) : i \in 1 .. Len(w) \/ i = Len(w) + 1
      /\ \A i \in 1 .. Len(g) : i \in 1 .. Len(h) \/ i = Len(h) + 1
      /\ \A i \in 1 .. Len(h) : i \in 1 .. Len(g) /\ i < Len(h) + 1
      /\ Len(w) + 1 \in 1 .. Len(d) /\ Len(h) + 1 \in 1 .. Len(g)
  BY <1>4, <1>5, <1>6
<1>8. b \in [1 .. Len(d) -> 1 .. Len(g)] /\ b[Len(w) + 1] = Len(h) + 1 /\ \A i \in 1 .. Len(w) : b[i] = at[i]
  BY <1>4, <1>5, <1>7
<1> HIDE DEF b
<1>9. \A n \in 1 .. Len(h) : IsLast(g, n) <=> IsLast(h, n) /\ h[n].key # e.key
  <2> SUFFICES ASSUME NEW n \in 1 .. Len(h) PROVE IsLast(g, n) <=> IsLast(h, n) /\ h[n].key # e.key
    OBVIOUS
  <2>1. /\ \A m \in n + 1 .. Len(g) : m \in n + 1 .. Len(h) \/ m = Len(h) + 1
        /\ \A m \in n + 1 .. Len(h) : m \in n + 1 .. Len(g)
        /\ Len(h) + 1 \in n + 1 .. Len(g)
    <3>1. Len(g) = Len(h) + 1 /\ Len(h) \in Nat /\ n \in Nat /\ n <= Len(h)
      BY <1>4, <1>6
    <3> QED BY <3>1
  <2>2. \A m \in n + 1 .. Len(h) : m \in 1 .. Len(h)
    BY <1>4
  <2>3. g[n] = h[n] /\ g[Len(h) + 1] = e /\ \A m \in n + 1 .. Len(h) : g[m] = h[m]
    BY <1>6, <2>2
  <2> HIDE DEF g
  <2> QED BY <2>1, <2>3, Zenon DEF IsLast
<1>10. IsLast(g, Len(h) + 1)
  <2>1. Len(h) + 1 + 1 .. Len(g) = {}
    BY <1>4, <1>6
  <2> QED BY <2>1 DEF IsLast
<1>11. Places(d, g, b)
  <2>1. \A i, j \in 1 .. Len(d) : i < j => b[i] < b[j]
    <3> SUFFICES ASSUME NEW i \in 1 .. Len(d), NEW j \in 1 .. Len(d), i < j PROVE b[i] < b[j]
      OBVIOUS
    <3>1. i \in 1 .. Len(w)
      BY <1>4, <1>5
    <3>2. at[i] \in 1 .. Len(h)
      BY <1>4, <3>1
    <3> QED BY <1>4, <1>7, <1>8, <3>1, <3>2
  <2>2. \A i \in 1 .. Len(d) : d[i] = g[b[i]] /\ IsLast(g, b[i])
    <3> SUFFICES ASSUME NEW i \in 1 .. Len(d) PROVE d[i] = g[b[i]] /\ IsLast(g, b[i])
      OBVIOUS
    <3>1. CASE i \in 1 .. Len(w)
      <4>1. at[i] \in 1 .. Len(h) /\ b[i] = at[i]
        BY <1>4, <1>8, <3>1
      <4>2. h[at[i]].key # e.key
        BY <1>3, <1>4, <3>1
      <4> QED BY <1>4, <1>5, <1>6, <1>9, <3>1, <4>1, <4>2
    <3>2. CASE i = Len(w) + 1
      BY <1>5, <1>6, <1>8, <1>10, <3>2
    <3> QED BY <1>7, <3>1, <3>2
  <2> QED BY <1>8, <2>1, <2>2 DEF Places
<1>12. Complete(d, g, b)
  <2> SUFFICES ASSUME NEW n \in 1 .. Len(g), IsLast(g, n)
               PROVE  (\E i \in 1 .. Len(d) : b[i] = n) \/ Evicted(d, g, b, n)
    BY DEF Complete
  <2>1. CASE n = Len(h) + 1
    BY <1>7, <1>8, <2>1
  <2>2. CASE n \in 1 .. Len(h)
    <3>1. IsLast(h, n) /\ h[n].key # e.key
      BY <1>9, <2>2
    <3>2. CASE \E i \in 1 .. Len(w) : at[i] = n
      BY <1>7, <1>8, <3>2
    <3>3. CASE Len(c) >= MaxEntries /\ \A i \in 1 .. Len(w) : n < at[i]
      <4>1. Len(d) >= MaxEntries
        BY <1>2, <1>4, <1>5, <3>3, MaxEntriesAssumption
      <4>2. \A i \in 1 .. Len(d) : n < b[i]
        BY <1>7, <1>8, <2>2, <3>3
      <4> QED BY <4>1, <4>2 DEF Evicted
    <3> QED BY <1>3, <2>2, <3>1, <3>2, <3>3
  <2> QED BY <1>7, <2>1, <2>2
<1>13. Len(d) <= Len(c) + 1
  BY <1>2, <1>4, <1>5
<1> QED BY <1>1, <1>5, <1>11, <1>12, <1>13 DEF Fits, g

\* The oldest goes, if there is one too many.
LEMMA Put1Fits ==
  ASSUME NEW c \in Seq(Summary), NEW h \in Seq(Summary), NEW e \in Summary, Fits(c, h), Len(c) <= MaxEntries
  PROVE  Put1(c, e) \in Seq(Summary) /\ Fits(Put1(c, e), Append(h, e)) /\ Len(Put1(c, e)) <= MaxEntries
<1> DEFINE d == Stored(c, e)
           g == Append(h, e)
<1>1. d \in Seq(Summary) /\ d # <<>> /\ Len(d) <= Len(c) + 1 /\ Fits(d, g)
  BY StoredFits
<1>2. Put1(c, e) = IF Len(d) > MaxEntries THEN Tail(d) ELSE d
  BY DEF Put1
<1> HIDE DEF d, g
<1>3. Len(d) \in Nat /\ Len(c) \in Nat /\ Len(d) # 0
  BY <1>1, EmptySeq
<1>4. CASE Len(d) <= MaxEntries
  BY <1>1, <1>2, <1>3, <1>4, MaxEntriesAssumption DEF g
<1>5. CASE Len(d) > MaxEntries
  <2> DEFINE t == Tail(d)
  <2>1. t \in Seq(Summary) /\ Len(t) = Len(d) - 1 /\ \A i \in 1 .. Len(d) - 1 : t[i] = d[i + 1]
    BY <1>1, HeadTailProperties
  <2> HIDE DEF t
  <2>2. Len(t) = MaxEntries
    BY <1>1, <1>3, <1>5, <2>1, MaxEntriesAssumption
  <2>3. PICK at : Places(d, g, at) /\ Complete(d, g, at)
    BY <1>1 DEF Fits
  <2>4. /\ at \in [1 .. Len(d) -> 1 .. Len(g)]
        /\ \A i, j \in 1 .. Len(d) : i < j => at[i] < at[j]
        /\ \A i \in 1 .. Len(d) : d[i] = g[at[i]] /\ IsLast(g, at[i])
    BY <2>3 DEF Places
  <2> DEFINE b == [i \in 1 .. Len(t) |-> at[i + 1]]
  <2>5. \A i \in 1 .. Len(t) : i + 1 \in 1 .. Len(d) /\ 1 < i + 1
    BY <1>3, <2>1
  <2>6. b \in [1 .. Len(t) -> 1 .. Len(g)] /\ \A i \in 1 .. Len(t) : b[i] = at[i + 1]
    BY <2>4, <2>5
  <2> HIDE DEF b
  <2>7. \A i, j \in 1 .. Len(t) : i < j => b[i] < b[j]
    <3> SUFFICES ASSUME NEW i \in 1 .. Len(t), NEW j \in 1 .. Len(t), i < j PROVE b[i] < b[j]
      OBVIOUS
    <3>1. i + 1 < j + 1
      OBVIOUS
    <3> QED BY <2>4, <2>5, <2>6, <3>1
  <2>8. \A i \in 1 .. Len(t) : t[i] = g[b[i]] /\ IsLast(g, b[i])
    BY <2>1, <2>4, <2>5, <2>6
  <2>9. Complete(t, g, b)
    <3> SUFFICES ASSUME NEW n \in 1 .. Len(g), IsLast(g, n)
                 PROVE  (\E i \in 1 .. Len(t) : b[i] = n) \/ Evicted(t, g, b, n)
      BY DEF Complete
    <3>1. (\E i \in 1 .. Len(d) : at[i] = n) \/ Evicted(d, g, at, n)
      BY <2>3 DEF Complete
    <3>2. 1 \in 1 .. Len(d)
      BY <1>3
    <3>3. CASE at[1] = n
      <4>1. \A i \in 1 .. Len(t) : n < b[i]
        BY <2>4, <2>5, <2>6, <3>2, <3>3
      <4> QED BY <2>2, <4>1, MaxEntriesAssumption DEF Evicted
    <3>4. ASSUME NEW i \in 1 .. Len(d), at[i] = n, i # 1 PROVE \E x \in 1 .. Len(t) : b[x] = n
      <4>1. i - 1 \in 1 .. Len(t) /\ i - 1 + 1 = i
        BY <1>3, <2>1, <3>4
      <4> QED BY <2>6, <3>4, <4>1
    <3>5. CASE Evicted(d, g, at, n)
      <4>1. \A i \in 1 .. Len(t) : n < b[i]
        BY <2>5, <2>6, <3>5 DEF Evicted
      <4> QED BY <2>2, <4>1, MaxEntriesAssumption DEF Evicted
    <3> QED BY <3>1, <3>3, <3>4, <3>5
  <2>10. Places(t, g, b)
    BY <2>6, <2>7, <2>8 DEF Places
  <2>11. Fits(t, g) /\ Len(t) <= MaxEntries
    BY <2>2, <2>9, <2>10, MaxEntriesAssumption DEF Fits
  <2>12. Put1(c, e) = t
    BY <1>2, <1>5 DEF t
  <2> QED BY <2>1, <2>11, <2>12 DEF g
<1> QED BY <1>3, <1>4, <1>5, MaxEntriesAssumption

\* The caches of the first summaries of a call, as many as there are.
Filling(c, s, m, f) == f = [n \in 0 .. m |-> IF n = 0 THEN c ELSE Put1(f[n - 1], s[n])]

\* There are such caches, whatever the summaries.
LEMMA Fillings == ASSUME NEW c, NEW s, NEW m \in Nat PROVE \E f : Filling(c, s, m, f)
<1> DEFINE T == {n \in Nat : ~ \E f : Filling(c, s, n, f)}
<1> SUFFICES ASSUME T # {} PROVE FALSE
  OBVIOUS
<1>1. T \in SUBSET Nat
  OBVIOUS
<1>2. PICK n \in T : \A x \in T : n <= x
  <2> HIDE DEF T
  <2> QED BY <1>1, Least
<1>3. n \in Nat /\ ~ \E f : Filling(c, s, n, f)
  OBVIOUS
<1>4. CASE n = 0
  <2> DEFINE f == [x \in 0 .. 0 |-> c]
  <2>1. [x \in 0 .. 0 |-> IF x = 0 THEN c ELSE Put1(f[x - 1], s[x])] = f
    OBVIOUS
  <2> QED BY <1>3, <1>4, <2>1 DEF Filling
<1>5. CASE n # 0
  <2>1. n - 1 \in Nat /\ n - 1 \notin T
    BY <1>1, <1>2, <1>3, <1>5
  <2>2. PICK g : Filling(c, s, n - 1, g)
    BY <2>1
  <2>3. g = [x \in 0 .. n - 1 |-> IF x = 0 THEN c ELSE Put1(g[x - 1], s[x])]
    BY <2>2 DEF Filling
  <2> DEFINE f == [x \in 0 .. n |-> IF x = 0 THEN c ELSE Put1(g[x - 1], s[x])]
  <2>4. \A x \in 0 .. n : x # 0 => x - 1 \in 0 .. n - 1 /\ x - 1 \in 0 .. n
    BY <1>3
  <2>5. \A x \in 0 .. n - 1 : x \in 0 .. n
    BY <1>3
  <2>6. \A x \in 0 .. n - 1 : f[x] = g[x]
    <3> SUFFICES ASSUME NEW x \in 0 .. n - 1 PROVE f[x] = g[x]
      OBVIOUS
    <3>1. g[x] = IF x = 0 THEN c ELSE Put1(g[x - 1], s[x])
      BY <2>3, Zenon
    <3> QED BY <2>5, <3>1
  <2>7. [x \in 0 .. n |-> IF x = 0 THEN c ELSE Put1(f[x - 1], s[x])] = f
    <3> DEFINE e == [x \in 0 .. n |-> IF x = 0 THEN c ELSE Put1(f[x - 1], s[x])]
    <3>1. \A x \in 0 .. n : x # 0 => f[x - 1] = g[x - 1]
      BY <2>4, <2>6
    <3>2. \A x \in 0 .. n : (IF x = 0 THEN c ELSE Put1(f[x - 1], s[x])) = IF x = 0 THEN c ELSE Put1(g[x - 1], s[x])
      <4> HIDE DEF f
      <4> QED BY <3>1
    <3> QED BY <3>2, Zenon
  <2>8. Filling(c, s, n, f)
    <3> HIDE DEF f
    <3> QED BY <2>7 DEF Filling
  <2> QED BY <1>3, <2>8
<1> QED BY <1>4, <1>5

\* The last of them is the cache that the call leaves.
LEMMA PutAllIs ==
  ASSUME NEW c, NEW s, Len(s) \in Nat
  PROVE  \E f : /\ PutAll(c, s) = f[Len(s)] /\ f[0] = c
                /\ \A n \in 1 .. Len(s) : f[n] = Put1(f[n - 1], s[n])
<1> DEFINE f == CHOOSE g : g = [n \in 0 .. Len(s) |-> IF n = 0 THEN c ELSE Put1(g[n - 1], s[n])]
<1>1. PutAll(c, s) = f[Len(s)]
  BY DEF PutAll
<1>2. f = [n \in 0 .. Len(s) |-> IF n = 0 THEN c ELSE Put1(f[n - 1], s[n])]
  <2>1. \E g : g = [n \in 0 .. Len(s) |-> IF n = 0 THEN c ELSE Put1(g[n - 1], s[n])]
    <3>1. \E g : Filling(c, s, Len(s), g)
      BY Fillings
    <3> QED BY <3>1, Zenon DEF Filling
  <2> QED BY <2>1, Zenon
<1> HIDE DEF f
<1>3. 0 \in 0 .. Len(s) /\ \A n \in 1 .. Len(s) : n \in 0 .. Len(s) /\ n # 0
  OBVIOUS
<1>4. f[0] = c /\ \A n \in 1 .. Len(s) : f[n] = Put1(f[n - 1], s[n])
  BY <1>2, <1>3, Zenon
<1> QED BY <1>1, <1>4

LEMMA PutAllFits ==
  ASSUME NEW c \in Seq(Summary), NEW h \in Seq(Summary), NEW s \in Seq(Summary), Fits(c, h), Len(c) <= MaxEntries
  PROVE  PutAll(c, s) \in Seq(Summary) /\ Fits(PutAll(c, s), h \o s) /\ Len(PutAll(c, s)) <= MaxEntries
<1> DEFINE Upto(n) == SubSeq(s, 1, n)
<1>0. Len(s) \in Nat /\ \A i \in 1 .. Len(s) : s[i] \in Summary
  OBVIOUS
<1>1. PICK f : /\ PutAll(c, s) = f[Len(s)] /\ f[0] = c
               /\ \A n \in 1 .. Len(s) : f[n] = Put1(f[n - 1], s[n])
  BY <1>0, PutAllIs
<1> DEFINE Good(n) == f[n] \in Seq(Summary) /\ Fits(f[n], h \o Upto(n)) /\ Len(f[n]) <= MaxEntries
           T == {n \in 0 .. Len(s) : ~ Good(n)}
<1>2. Good(0)
  <2>1. Upto(0) = <<>>
    BY SubSeqEmpty
  <2>2. h \o <<>> = h
    BY ConcatEmptySeq
  <2> QED BY <1>1, <2>1, <2>2
<1>3. ASSUME NEW n \in 1 .. Len(s), Good(n - 1) PROVE Good(n)
  <2>1. s[n] \in Summary /\ f[n] = Put1(f[n - 1], s[n])
    BY <1>0, <1>1
  <2>2. Upto(n - 1) \in Seq(Summary)
    <3>1. \A i \in 1 .. n - 1 : s[i] \in Summary
      BY <1>0
    <3>2. 1 \in Int /\ n - 1 \in Int
      OBVIOUS
    <3> QED BY <3>1, <3>2, SubSeqProperties
  <2>3. h \o Upto(n) = Append(h \o Upto(n - 1), s[n])
    <3>1. Upto(n) = Upto(n - 1) \o <<s[n]>>
      <4>1. 1 \in 1 .. Len(s) /\ n \in 1 .. Len(s)
        BY <1>0
      <4> QED BY <4>1, SubSeqRecursiveSecond
    <3> HIDE DEF Upto
    <3>2. <<s[n]>> \in Seq(Summary)
      BY <2>1
    <3>3. h \o Upto(n) = (h \o Upto(n - 1)) \o <<s[n]>>
      <4>1. (h \o Upto(n - 1)) \o <<s[n]>> = h \o (Upto(n - 1) \o <<s[n]>>)
        BY <2>2, <3>2
      <4> QED BY <3>1, <4>1
    <3>4. h \o Upto(n - 1) \in Seq(Summary)
      BY <2>2, ConcatProperties
    <3> QED BY <2>1, <3>3, <3>4, AppendIsConcat
  <2>4. h \o Upto(n - 1) \in Seq(Summary)
    <3> HIDE DEF Upto
    <3> QED BY <2>2, ConcatProperties
  <2> HIDE DEF Upto
  <2> QED BY <1>3, <2>1, <2>3, <2>4, Put1Fits
<1>4. T = {}
  <2> SUFFICES ASSUME T # {} PROVE FALSE
    OBVIOUS
  <2>1. PICK n \in T : \A x \in T : n <= x
    <3>1. T \in SUBSET Nat
      BY <1>0
    <3> HIDE DEF T
    <3> QED BY <3>1, Least
  <2> HIDE DEF Good
  <2>2. n \in 1 .. Len(s) /\ n - 1 \in 0 .. Len(s) /\ ~ (n <= n - 1)
    BY <1>0, <1>2, <2>1
  <2>3. Good(n - 1)
    BY <2>1, <2>2
  <2> QED BY <1>3, <2>1, <2>2, <2>3
<1>5. Good(Len(s)) /\ Upto(Len(s)) = s
  <2> HIDE DEF Good
  <2>1. Len(s) \in 0 .. Len(s)
    BY <1>0
  <2> QED BY <1>4, <2>1, SubSeqFull
<1> HIDE DEF Upto, T
<1> QED BY <1>1, <1>5

-----------------------------------------------------------------------------
(* The submissions and the table. *)

SubmitSteps == {"new", "send", "persist", "commit", "answered", "error", "failed"}
Submission == [pc : SubmitSteps, keys : Seq(Keys), found : SUBSET (Keys \X Submissions)]
Row == [key : Keys, by : Submissions, born : Submissions, old : BOOLEAN]

DenialTyped ==
  /\ cached \in Seq(Summary) /\ ingested \in Seq(Summary)
  /\ submit \in [Submissions -> Submission]
  /\ corpus \subseteq Row /\ accepted \subseteq Submissions

CacheKept == Len(cached) <= MaxEntries /\ Fits(cached, ingested)

\* What is persisted the gateway took.
TakenFirst == \A i \in Submissions : submit[i].pc \in {"persist", "commit", "answered", "error"} => i \in accepted

DenialInv == DenialTyped /\ CacheKept /\ TakenFirst /\ CorpusTells

LEMMA EmptyFits == Fits(<<>>, <<>>)
<1> DEFINE at == [i \in 1 .. 0 |-> 0]
<1>1. \A i \in 1 .. 0 : FALSE
  OBVIOUS
<1>2. Len(<<>>) = 0
  OBVIOUS
<1>3. at \in [1 .. 0 -> 1 .. 0]
  BY <1>1
<1> HIDE DEF at
<1>4. Places(<<>>, <<>>, at)
  BY <1>1, <1>2, <1>3 DEF Places
<1>5. Complete(<<>>, <<>>, at)
  BY <1>1, <1>2 DEF Complete
<1> QED BY <1>4, <1>5 DEF Fits

LEMMA DenialInits == DenialInit => DenialInv
<1> SUFFICES ASSUME DenialInit PROVE DenialInv
  OBVIOUS
<1>1. \A k \in BoundedSeq(Keys, MaxSummaries) : k \in Seq(Keys)
  <2> SUFFICES ASSUME NEW k \in BoundedSeq(Keys, MaxSummaries) PROVE k \in Seq(Keys)
    OBVIOUS
  <2>1. PICK m \in 0 .. MaxSummaries : k \in [1 .. m -> Keys]
    BY DEF BoundedSeq, SeqOf
  <2>2. m \in Nat
    BY MaxEntriesAssumption
  <2> QED BY <2>1, <2>2, SeqDef
<1>2. submit \in [Submissions -> {[pc |-> "new", keys |-> k, found |-> {}] : k \in BoundedSeq(Keys, MaxSummaries) \ {<<>>}}]
  BY DEF DenialInit
<1>3. \A i \in Submissions : submit[i] \in Submission /\ submit[i].pc = "new"
  <2> SUFFICES ASSUME NEW i \in Submissions PROVE submit[i] \in Submission /\ submit[i].pc = "new"
    OBVIOUS
  <2>1. PICK k \in BoundedSeq(Keys, MaxSummaries) : submit[i] = [pc |-> "new", keys |-> k, found |-> {}]
    BY <1>2
  <2> QED BY <1>1, <2>1 DEF Submission, SubmitSteps
<1>4. DenialTyped
  BY <1>2, <1>3 DEF DenialInit, DenialTyped
<1>5. CacheKept
  BY EmptyFits, MaxEntriesAssumption DEF DenialInit, CacheKept
<1>6. TakenFirst /\ CorpusTells
  BY <1>3 DEF DenialInit, TakenFirst, CorpusTells
<1> QED BY <1>4, <1>5, <1>6 DEF DenialInv

LEMMA SubmitsMove ==
  ASSUME DenialTyped, NEW i \in Submissions, NEW pc \in SubmitSteps, Submits(i, pc)
  PROVE  /\ submit' \in [Submissions -> Submission]
         /\ submit'[i].pc = pc /\ submit'[i].keys = submit[i].keys
         /\ \A j \in Submissions \ {i} : submit'[j] = submit[j]
BY DEF DenialTyped, Submits, Submission

\* A step of one submission that leaves the table alone, when the gateway has taken it if
\* it goes on, and its keys are in the table if it is answered.
LEMMA SubmitKeeps ==
  ASSUME DenialInv, NEW i \in Submissions, NEW pc \in SubmitSteps \ {"answered"},
         submit' \in [Submissions -> Submission],
         submit'[i].pc = pc, submit'[i].keys = submit[i].keys,
         \A j \in Submissions \ {i} : submit'[j] = submit[j],
         accepted \subseteq accepted', pc \in {"persist", "commit", "error"} => i \in accepted',
         corpus' = corpus, pruned' = pruned
  PROVE  TakenFirst' /\ CorpusTells'
<1>1. TakenFirst'
  BY DEF DenialInv, TakenFirst
<1>2. (\A r, s \in corpus : r.key = s.key => r = s)' /\ (\A r \in corpus : r.by \in accepted)'
  BY DEF DenialInv, CorpusTells
<1>3. ASSUME NEW j \in Submissions, submit'[j].pc = "answered", NEW k \in ToSet(submit'[j].keys)
      PROVE  RowOf(k)' # {} \/ \E x \in Submissions : <<k, x>> \in pruned'
  <2>1. j # i /\ submit'[j] = submit[j]
    BY <1>3
  <2>2. RowOf(k) # {} \/ \E x \in Submissions : <<k, x>> \in pruned
    BY <1>3, <2>1 DEF DenialInv, CorpusTells, Reports
  <2> QED BY <2>2 DEF RowOf
<1> QED BY <1>1, <1>2, <1>3 DEF CorpusTells, Reports

LEMMA IngestsKeeps == ASSUME DenialInv, NEW i \in Submissions, Ingests(i) PROVE DenialInv'
<1>1. /\ cached' = PutAll(cached, Summaries(i)) /\ ingested' = ingested \o Summaries(i)
      /\ Submits(i, "send") /\ UNCHANGED <<corpus, accepted, pruned>>
  BY DEF Ingests
<1>2. submit[i].keys \in Seq(Keys)
  BY DEF DenialInv, DenialTyped, Submission
<1>3. Summaries(i) \in Seq(Summary)
  <2>1. Len(submit[i].keys) \in Nat /\ \A n \in 1 .. Len(submit[i].keys) : submit[i].keys[n] \in Keys
    BY <1>2
  <2>2. Summaries(i) \in [1 .. Len(submit[i].keys) -> Summary]
    BY <2>1 DEF Summaries, Summary
  <2> QED BY <2>1, <2>2, SeqDef
<1>4. cached' \in Seq(Summary) /\ ingested' \in Seq(Summary) /\ CacheKept'
  <2>1. cached \in Seq(Summary) /\ ingested \in Seq(Summary) /\ Fits(cached, ingested) /\ Len(cached) <= MaxEntries
    BY DEF DenialInv, DenialTyped, CacheKept
  <2>2. /\ PutAll(cached, Summaries(i)) \in Seq(Summary)
        /\ Fits(PutAll(cached, Summaries(i)), ingested \o Summaries(i))
        /\ Len(PutAll(cached, Summaries(i))) <= MaxEntries
    BY <1>3, <2>1, PutAllFits
  <2>3. ingested \o Summaries(i) \in Seq(Summary)
    BY <1>3, <2>1, ConcatProperties
  <2> QED BY <1>1, <2>2, <2>3 DEF CacheKept
<1>5. /\ submit' \in [Submissions -> Submission]
      /\ submit'[i].pc = "send" /\ submit'[i].keys = submit[i].keys
      /\ \A j \in Submissions \ {i} : submit'[j] = submit[j]
  BY <1>1, SubmitsMove DEF DenialInv, SubmitSteps
<1>6. TakenFirst' /\ CorpusTells'
  BY <1>1, <1>5, SubmitKeeps DEF SubmitSteps
<1> QED BY <1>1, <1>4, <1>5, <1>6 DEF DenialInv, DenialTyped

\* The cache is not touched by the rest.
LEMMA MovesKeep ==
  ASSUME DenialInv, NEW i \in Submissions, Accepts(i) \/ Refuses(i) \/ LooksForRows(i) \/ CommitFails(i)
  PROVE  DenialInv'
<1>0. /\ cached' = cached /\ ingested' = ingested /\ corpus' = corpus /\ pruned' = pruned
      /\ accepted' = accepted \/ (accepted' = accepted \cup {i} /\ Submits(i, "persist"))
  BY DEF Accepts, Refuses, LooksForRows, CommitFails
<1>1. CacheKept' /\ accepted' \subseteq Submissions /\ accepted \subseteq accepted'
  BY <1>0 DEF DenialInv, CacheKept, DenialTyped
<1>2. PICK pc \in {"persist", "failed", "commit", "error"} :
        /\ submit' \in [Submissions -> Submission]
        /\ submit'[i].pc = pc /\ submit'[i].keys = submit[i].keys
        /\ \A j \in Submissions \ {i} : submit'[j] = submit[j]
        /\ pc # "failed" => i \in accepted'
  <2>1. CASE Accepts(i)
    <3>1. Submits(i, "persist") /\ i \in accepted' /\ "persist" \in SubmitSteps
      BY <2>1 DEF Accepts, SubmitSteps
    <3> QED BY <3>1, SubmitsMove DEF DenialInv
  <2>2. CASE Refuses(i)
    <3>1. Submits(i, "failed") /\ "failed" \in SubmitSteps
      BY <2>2 DEF Refuses, SubmitSteps
    <3> QED BY <3>1, SubmitsMove DEF DenialInv
  <2>3. CASE LooksForRows(i)
    <3>1. i \in accepted'
      BY <2>3 DEF LooksForRows, DenialInv, TakenFirst
    <3>2. {<<r.key, r.born>> : r \in Found(i)} \in SUBSET (Keys \X Submissions)
      BY DEF DenialInv, DenialTyped, Found, Row
    <3>3. /\ submit' \in [Submissions -> Submission]
          /\ submit'[i].pc = "commit" /\ submit'[i].keys = submit[i].keys
          /\ \A j \in Submissions \ {i} : submit'[j] = submit[j]
      BY <2>3, <3>2 DEF LooksForRows, DenialInv, DenialTyped, Submission, SubmitSteps
    <3> QED BY <3>1, <3>3
  <2>4. CASE CommitFails(i)
    <3>1. Submits(i, "error") /\ i \in accepted' /\ "error" \in SubmitSteps
      BY <2>4 DEF CommitFails, SubmitSteps, DenialInv, TakenFirst
    <3> QED BY <3>1, SubmitsMove DEF DenialInv
  <2> QED BY <2>1, <2>2, <2>3, <2>4
<1>3. TakenFirst' /\ CorpusTells'
  BY <1>0, <1>1, <1>2, SubmitKeeps DEF SubmitSteps
<1> QED BY <1>0, <1>1, <1>2, <1>3 DEF DenialInv, DenialTyped

\* A commit writes one row for each key it reports, over the row there is.
LEMMA CommitsKeeps == ASSUME DenialInv, NEW i \in Submissions, Commits(i) PROVE DenialInv'
<1> DEFINE New(k) == [key |-> k, by |-> i, born |-> Born(i, k), old |-> FALSE]
<1>1. /\ submit[i].pc = "commit" /\ corpus' = (corpus \ Found(i)) \cup {New(k) : k \in Reports(i)}
      /\ Submits(i, "answered")
      /\ cached' = cached /\ ingested' = ingested /\ accepted' = accepted /\ pruned' = pruned
  BY DEF Commits
<1>2. /\ submit' \in [Submissions -> Submission]
      /\ submit'[i].pc = "answered" /\ submit'[i].keys = submit[i].keys
      /\ \A j \in Submissions \ {i} : submit'[j] = submit[j]
  BY <1>1, SubmitsMove DEF DenialInv, SubmitSteps
<1>3. i \in accepted /\ Reports(i) \subseteq Keys
  <2>1. submit[i].keys \in Seq(Keys)
    BY DEF DenialInv, DenialTyped, Submission
  <2> QED BY <1>1, <2>1 DEF DenialInv, TakenFirst, Reports, ToSet
<1>4. \A k \in Reports(i) : Born(i, k) \in Submissions
  <2> SUFFICES ASSUME NEW k \in Reports(i), RowOf(k) # {} PROVE (CHOOSE r \in RowOf(k) : TRUE).born \in Submissions
    BY DEF Born
  <2>1. (CHOOSE r \in RowOf(k) : TRUE) \in corpus
    BY DEF RowOf
  <2> QED BY <2>1 DEF DenialInv, DenialTyped, Row
<1>5. \A k \in Reports(i) : New(k) \in Row /\ New(k).key = k /\ New(k).by = i
  BY <1>3, <1>4 DEF Row
<1> HIDE DEF New
<1>6. \A r \in corpus' : (r \in corpus /\ r.key \notin Reports(i)) \/ \E k \in Reports(i) : r = New(k)
  BY <1>1 DEF Found
<1>7. DenialTyped'
  BY <1>1, <1>2, <1>5, <1>6 DEF DenialInv, DenialTyped
<1>8. CacheKept'
  BY <1>1 DEF DenialInv, CacheKept
<1>9. TakenFirst'
  BY <1>1, <1>2, <1>3 DEF DenialInv, TakenFirst
<1>10. \A r, s \in corpus' : r.key = s.key => r = s
  BY <1>5, <1>6 DEF DenialInv, CorpusTells
<1>11. \A r \in corpus' : r.by \in accepted'
  BY <1>1, <1>3, <1>5, <1>6 DEF DenialInv, CorpusTells
<1>12. ASSUME NEW j \in Submissions, submit'[j].pc = "answered", NEW k \in ToSet(submit'[j].keys)
       PROVE  RowOf(k)' # {} \/ \E x \in Submissions : <<k, x>> \in pruned'
  <2>1. CASE k \in Reports(i)
    <3>1. New(k) \in corpus' /\ New(k).key = k
      BY <1>1, <1>5, <2>1
    <3> QED BY <3>1 DEF RowOf
  <2>2. CASE k \notin Reports(i)
    <3>1. j # i /\ submit'[j] = submit[j]
      BY <1>2, <1>12, <2>2 DEF Reports
    <3>2. RowOf(k) # {} \/ \E x \in Submissions : <<k, x>> \in pruned
      BY <1>12, <3>1 DEF DenialInv, CorpusTells, Reports
    <3>3. RowOf(k) \subseteq RowOf(k)'
      BY <1>1, <2>2 DEF RowOf, Found
    <3> QED BY <1>1, <3>2, <3>3
  <2> QED BY <2>1, <2>2
<1> QED BY <1>7, <1>8, <1>9, <1>10, <1>11, <1>12 DEF DenialInv, CorpusTells, Reports

LEMMA AgesKeeps == ASSUME DenialInv, NEW r \in corpus, Ages(r) PROVE DenialInv'
<1> DEFINE o == [r EXCEPT !.old = TRUE]
<1>1. /\ corpus' = (corpus \ {r}) \cup {o}
      /\ cached' = cached /\ ingested' = ingested /\ submit' = submit /\ accepted' = accepted /\ pruned' = pruned
  BY DEF Ages
<1>2. r \in Row
  BY DEF DenialInv, DenialTyped
<1>3. o \in Row /\ o.key = r.key /\ o.by = r.by
  BY <1>2 DEF Row
<1> HIDE DEF o
<1>4. DenialTyped' /\ CacheKept' /\ TakenFirst'
  BY <1>1, <1>3 DEF DenialInv, DenialTyped, CacheKept, TakenFirst
<1>5. \A x \in corpus' : \E y \in corpus : y.key = x.key /\ y.by = x.by /\ (x = y \/ (y = r /\ x = o))
  BY <1>1, <1>3
<1>6. (\A x, y \in corpus' : x.key = y.key => x = y) /\ \A x \in corpus' : x.by \in accepted'
  <2>1. \A x, y \in corpus : x.key = y.key => x = y
    BY DEF DenialInv, CorpusTells
  <2>2. ASSUME NEW x \in corpus', NEW y \in corpus', x.key = y.key PROVE x = y
    BY <1>1, <1>3, <2>1, <2>2
  <2> QED BY <1>1, <1>5, <2>2 DEF DenialInv, CorpusTells
<1>7. \A k : RowOf(k) # {} => RowOf(k)' # {}
  <2> SUFFICES ASSUME NEW k, NEW x \in corpus, x.key = k PROVE \E y \in corpus' : y.key = k
    BY DEF RowOf
  <2> QED BY <1>1, <1>3
<1> QED BY <1>1, <1>4, <1>6, <1>7 DEF DenialInv, CorpusTells, Reports

LEMMA PruneKeeps == ASSUME DenialInv, PruneSamples PROVE DenialInv'
<1>1. /\ corpus' = {r \in corpus : ~ r.old}
      /\ pruned' = pruned \cup {<<r.key, r.by>> : r \in {x \in corpus : x.old}}
      /\ cached' = cached /\ ingested' = ingested /\ submit' = submit /\ accepted' = accepted
  BY DEF PruneSamples
<1>2. DenialTyped' /\ CacheKept' /\ TakenFirst'
  BY <1>1 DEF DenialInv, DenialTyped, CacheKept, TakenFirst
<1>3. (\A r, s \in corpus' : r.key = s.key => r = s) /\ \A r \in corpus' : r.by \in accepted'
  BY <1>1 DEF DenialInv, CorpusTells
<1>4. ASSUME NEW k, RowOf(k) # {} \/ \E x \in Submissions : <<k, x>> \in pruned
      PROVE  RowOf(k)' # {} \/ \E x \in Submissions : <<k, x>> \in pruned'
  <2>1. ASSUME NEW r \in corpus, r.key = k, ~ r.old PROVE r \in RowOf(k)'
    BY <1>1, <2>1 DEF RowOf
  <2>2. ASSUME NEW r \in corpus, r.key = k, r.old PROVE r.by \in Submissions /\ <<k, r.by>> \in pruned'
    BY <1>1, <2>2 DEF DenialInv, DenialTyped, Row
  <2>3. ASSUME NEW x \in Submissions, <<k, x>> \in pruned PROVE <<k, x>> \in pruned'
    BY <1>1, <2>3
  <2>4. RowOf(k) # {} => \E r \in corpus : r.key = k
    BY DEF RowOf
  <2> QED BY <1>4, <2>1, <2>2, <2>3, <2>4
<1> QED BY <1>1, <1>2, <1>3, <1>4 DEF DenialInv, CorpusTells, Reports

LEMMA RestartsKeeps == ASSUME DenialInv, Restarts PROVE DenialInv'
<1>1. /\ cached' = <<>> /\ ingested' = <<>> /\ corpus' = corpus /\ accepted' = accepted /\ pruned' = pruned
      /\ submit' = [i \in Submissions |-> IF submit[i].pc \in {"new", "answered", "error", "failed"} THEN submit[i]
                                          ELSE [submit[i] EXCEPT !.pc = "failed"]]
  BY DEF Restarts
<1>2. \A i \in Submissions : submit'[i] \in Submission /\ submit'[i].keys = submit[i].keys
                              /\ (submit'[i] = submit[i] \/ submit'[i].pc = "failed")
  BY <1>1 DEF DenialInv, DenialTyped, Submission, SubmitSteps
<1>3. submit' \in [Submissions -> Submission]
  BY <1>1, <1>2
<1>4. DenialTyped'
  BY <1>1, <1>3 DEF DenialInv, DenialTyped
<1>5. CacheKept'
  <2>1. Fits(cached', ingested') /\ Len(cached') <= MaxEntries
    BY <1>1, EmptyFits, MaxEntriesAssumption
  <2> QED BY <2>1 DEF CacheKept
<1>6. TakenFirst'
  BY <1>1, <1>2 DEF DenialInv, TakenFirst
<1>7. CorpusTells'
  <2>1. \A j \in Submissions : submit'[j].pc = "answered" => submit'[j] = submit[j]
    BY <1>2
  <2> QED BY <1>1, <2>1 DEF DenialInv, CorpusTells, Reports, RowOf
<1> QED BY <1>4, <1>5, <1>6, <1>7 DEF DenialInv

LEMMA DenialSteps == DenialInv /\ [DenialNext]_denialVars => DenialInv'
<1> SUFFICES ASSUME DenialInv, [DenialNext]_denialVars PROVE DenialInv'
  OBVIOUS
<1>1. ASSUME NEW i \in Submissions, Ingests(i) \/ Accepts(i) \/ Refuses(i) \/ LooksForRows(i) \/ Commits(i) \/ CommitFails(i)
      PROVE  DenialInv'
  BY <1>1, IngestsKeeps, MovesKeep, CommitsKeeps
<1>2. CASE UNCHANGED denialVars
  BY <1>2 DEF DenialInv, DenialTyped, CacheKept, TakenFirst, CorpusTells, Reports, RowOf, denialVars
<1> QED BY <1>1, <1>2, AgesKeeps, PruneKeeps, RestartsKeeps DEF DenialNext

\* The last report of a key is the last of its key.
LEMMA LastIs ==
  ASSUME ingested \in Seq(Summary)
  PROVE  \A k : \/ LastOf(k) = 0 /\ \A n \in 1 .. Len(ingested) : ingested[n].key # k
                \/ /\ LastOf(k) \in 1 .. Len(ingested) /\ ingested[LastOf(k)].key = k
                   /\ IsLast(ingested, LastOf(k))
<1> SUFFICES ASSUME NEW k
             PROVE  \/ LastOf(k) = 0 /\ \A n \in 1 .. Len(ingested) : ingested[n].key # k
                    \/ /\ LastOf(k) \in 1 .. Len(ingested) /\ ingested[LastOf(k)].key = k
                       /\ IsLast(ingested, LastOf(k))
  OBVIOUS
<1> DEFINE at == {n \in 1 .. Len(ingested) : ingested[n].key = k}
           S == {Len(ingested) - n : n \in at}
<1>0. Len(ingested) \in Nat
  OBVIOUS
<1>1. LastOf(k) = IF at = {} THEN 0 ELSE CHOOSE n \in at : \A m \in at : m <= n
  BY DEF LastOf
<1>2. CASE at = {}
  BY <1>1, <1>2
<1>3. CASE at # {}
  <2>1. S \in SUBSET Nat /\ S # {}
    BY <1>0, <1>3
  <2>2. PICK d \in S : \A x \in S : d <= x
    <3> HIDE DEF S
    <3> QED BY <2>1, Least
  <2>3. PICK n \in at : d = Len(ingested) - n
    OBVIOUS
  <2>4. \A m \in at : m <= n
    <3> SUFFICES ASSUME NEW m \in at PROVE m <= n
      OBVIOUS
    <3>1. Len(ingested) - n <= Len(ingested) - m
      BY <2>2, <2>3
    <3> QED BY <1>0, <3>1
  <2>5. LastOf(k) \in at /\ \A m \in at : m <= LastOf(k)
    <3> HIDE DEF at
    <3> QED BY <1>1, <1>3, <2>4
  <2>6. \A m \in LastOf(k) + 1 .. Len(ingested) : m \in 1 .. Len(ingested) /\ ~ (m <= LastOf(k))
    BY <1>0, <2>5
  <2>7. IsLast(ingested, LastOf(k))
    BY <2>5, <2>6 DEF IsLast
  <2> QED BY <2>5, <2>7
<1> QED BY <1>2, <1>3

LEMMA LastIsOne ==
  ASSUME ingested \in Seq(Summary)
  PROVE  \A n \in 1 .. Len(ingested) : IsLast(ingested, n) => LastOf(ingested[n].key) = n
<1> SUFFICES ASSUME NEW n \in 1 .. Len(ingested), IsLast(ingested, n) PROVE LastOf(ingested[n].key) = n
  OBVIOUS
<1> DEFINE l == LastOf(ingested[n].key)
<1>0. Len(ingested) \in Nat
  OBVIOUS
<1>1. l \in 1 .. Len(ingested) /\ ingested[l].key = ingested[n].key /\ IsLast(ingested, l)
  BY LastIs
<1> HIDE DEF l
<1>2. ~ (l > n) /\ ~ (n > l)
  <2>1. l > n => l \in n + 1 .. Len(ingested)
    BY <1>0, <1>1
  <2>2. n > l => n \in l + 1 .. Len(ingested)
    BY <1>0, <1>1
  <2> QED BY <1>1, <2>1, <2>2 DEF IsLast
<1>3. l = n
  BY <1>1, <1>2
<1> QED BY <1>3 DEF l

\* What is in the cache at a key is its last report.
LEMMA HeldIs ==
  ASSUME DenialInv, NEW at, Places(cached, ingested, at), NEW i \in 1 .. Len(cached)
  PROVE  LastOf(cached[i].key) = at[i] /\ at[i] \in 1 .. Len(ingested) /\ cached[i] = ingested[at[i]]
<1>1. at[i] \in 1 .. Len(ingested) /\ cached[i] = ingested[at[i]] /\ IsLast(ingested, at[i])
  BY DEF Places
<1>2. ingested \in Seq(Summary)
  BY DEF DenialInv, DenialTyped
<1> QED BY <1>1, <1>2, LastIsOne

\* Fewer keys than the cache has room for were reported after one that is in it.
LEMMA FewNewer ==
  ASSUME DenialInv, NEW at, Places(cached, ingested, at), Complete(cached, ingested, at),
         NEW i \in 1 .. Len(cached)
  PROVE  Cardinality(Newer(cached[i].key)) < MaxEntries
<1> DEFINE k == cached[i].key
           N == Newer(k)
           f == [j \in N |-> CHOOSE x \in i + 1 .. Len(cached) : at[x] = LastOf(j)]
<1>0. /\ Len(cached) \in Nat /\ Len(cached) <= MaxEntries /\ Len(ingested) \in Nat
      /\ ingested \in Seq(Summary) /\ LastOf(k) = at[i] /\ at[i] \in 1 .. Len(ingested)
  BY HeldIs DEF DenialInv, DenialTyped, CacheKept
<1>1. \A j \in N : /\ LastOf(j) \in 1 .. Len(ingested) /\ ingested[LastOf(j)].key = j
                   /\ IsLast(ingested, LastOf(j)) /\ LastOf(j) > at[i]
  <2> SUFFICES ASSUME NEW j \in N
               PROVE  /\ LastOf(j) \in 1 .. Len(ingested) /\ ingested[LastOf(j)].key = j
                      /\ IsLast(ingested, LastOf(j)) /\ LastOf(j) > at[i]
    OBVIOUS
  <2>1. LastOf(j) > at[i]
    BY <1>0 DEF Newer
  <2>2. LastOf(j) # 0
    BY <1>0, <2>1
  <2> QED BY <1>0, <2>1, <2>2, LastIs
<1> HIDE DEF N, k
<1>2. \A j \in N : \E x \in i + 1 .. Len(cached) : at[x] = LastOf(j)
  <2> SUFFICES ASSUME NEW j \in N PROVE \E x \in i + 1 .. Len(cached) : at[x] = LastOf(j)
    OBVIOUS
  <2>1. ~ (LastOf(j) < at[i])
    BY <1>0, <1>1
  <2>2. PICK x \in 1 .. Len(cached) : at[x] = LastOf(j)
    BY <1>1, <2>1 DEF Complete, Evicted
  <2>3. x # i /\ ~ (x < i)
    BY <1>0, <1>1, <2>2 DEF Places
  <2>4. x \in i + 1 .. Len(cached)
    BY <1>0, <2>2, <2>3
  <2> QED BY <2>2, <2>4
<1>3. \A j \in N : f[j] \in i + 1 .. Len(cached) /\ at[f[j]] = LastOf(j)
  BY <1>2
<1>4. f \in Injection(N, i + 1 .. Len(cached))
  <2>1. f \in [N -> i + 1 .. Len(cached)]
    BY <1>3
  <2> HIDE DEF f
  <2>2. \A a, b \in N : f[a] = f[b] => a = b
    BY <1>1, <1>3
  <2> QED BY <2>1, <2>2 DEF Injection, IsInjective
<1> HIDE DEF f
<1>5. IsFiniteSet(i + 1 .. Len(cached)) /\ Cardinality(i + 1 .. Len(cached)) = Len(cached) - i
  <2>1. i + 1 \in Int /\ Len(cached) \in Int
    BY <1>0
  <2>2. /\ IsFiniteSet(i + 1 .. Len(cached))
        /\ Cardinality(i + 1 .. Len(cached)) = IF i + 1 > Len(cached) THEN 0 ELSE Len(cached) - (i + 1) + 1
    BY <2>1, FS_Interval
  <2> QED BY <1>0, <2>2
<1>6. IsFiniteSet(N) /\ Cardinality(N) <= Cardinality(i + 1 .. Len(cached))
  BY <1>4, <1>5, FS_Injection
<1>7. Cardinality(N) \in Nat
  BY <1>6, FS_CardinalityType
<1>8. Cardinality(N) < MaxEntries
  BY <1>0, <1>5, <1>6, <1>7, MaxEntriesAssumption
<1> QED BY <1>8 DEF N, k

\* As many as it has room for were reported after one that is not.
LEMMA ManyNewer ==
  ASSUME DenialInv, NEW at, Places(cached, ingested, at), Complete(cached, ingested, at),
         NEW k, LastOf(k) > 0, \A i \in 1 .. Len(cached) : cached[i].key # k
  PROVE  ~ (Cardinality(Newer(k)) < MaxEntries)
<1> DEFINE N == Newer(k)
           f == [i \in 1 .. Len(cached) |-> cached[i].key]
           g == [j \in N |-> LastOf(j)]
<1>0. /\ Len(cached) \in Nat /\ Len(cached) <= MaxEntries /\ Len(ingested) \in Nat
      /\ ingested \in Seq(Summary) /\ \A i \in 1 .. Len(cached) : cached[i].key \in Keys
  <2>1. cached \in Seq(Summary) /\ ingested \in Seq(Summary) /\ Len(cached) <= MaxEntries
    BY DEF DenialInv, DenialTyped, CacheKept
  <2>2. \A i \in 1 .. Len(cached) : cached[i] \in Summary
    BY <2>1
  <2> QED BY <2>1, <2>2 DEF Summary
<1>1. LastOf(k) \in 1 .. Len(ingested) /\ ingested[LastOf(k)].key = k /\ IsLast(ingested, LastOf(k))
  BY <1>0, LastIs
<1>2. ~ \E i \in 1 .. Len(cached) : at[i] = LastOf(k)
  BY <1>1 DEF Places
<1>3. Len(cached) = MaxEntries /\ \A i \in 1 .. Len(cached) : LastOf(k) < at[i]
  <2>1. Len(cached) >= MaxEntries /\ \A i \in 1 .. Len(cached) : LastOf(k) < at[i]
    BY <1>1, <1>2 DEF Complete, Evicted
  <2> QED BY <1>0, <2>1, MaxEntriesAssumption
<1>4. \A i \in 1 .. Len(cached) : LastOf(cached[i].key) = at[i]
  BY HeldIs
<1>5. f \in Injection(1 .. Len(cached), N)
  <2>1. \A i \in 1 .. Len(cached) : cached[i].key \in N
    BY <1>0, <1>3, <1>4 DEF Newer
  <2>2. f \in [1 .. Len(cached) -> N] /\ \A i \in 1 .. Len(cached) : f[i] = cached[i].key
    BY <2>1
  <2> HIDE DEF f, N
  <2>3. ASSUME NEW a \in 1 .. Len(cached), NEW b \in 1 .. Len(cached), f[a] = f[b] PROVE a = b
    <3>1. at[a] = at[b]
      BY <1>4, <2>2, <2>3
    <3> QED BY <1>0, <3>1 DEF Places
  <2> QED BY <2>2, <2>3 DEF Injection, IsInjective
<1>6. IsFiniteSet(N)
  <2>1. \A j \in N : LastOf(j) \in 1 .. Len(ingested) /\ ingested[LastOf(j)].key = j
    <3> SUFFICES ASSUME NEW j \in N PROVE LastOf(j) \in 1 .. Len(ingested) /\ ingested[LastOf(j)].key = j
      OBVIOUS
    <3>1. LastOf(j) # 0
      BY <1>0, <1>1 DEF Newer
    <3> QED BY <1>0, <3>1, LastIs
  <2> HIDE DEF N
  <2>2. g \in Injection(N, 1 .. Len(ingested))
    BY <2>1 DEF Injection, IsInjective
  <2>3. IsFiniteSet(1 .. Len(ingested))
    BY <1>0, FS_Interval
  <2> HIDE DEF g
  <2> QED BY <2>2, <2>3, FS_Injection
<1> HIDE DEF f, g, N
<1>7. Cardinality(1 .. Len(cached)) <= Cardinality(N)
  BY <1>5, <1>6, FS_Injection
<1>8. Cardinality(1 .. Len(cached)) = MaxEntries
  BY <1>0, <1>3, FS_Interval, MaxEntriesAssumption
<1>9. Cardinality(N) \in Nat
  BY <1>6, FS_CardinalityType
<1>10. ~ (Cardinality(N) < MaxEntries)
  BY <1>7, <1>8, <1>9, MaxEntriesAssumption
<1> QED BY <1>10 DEF N

LEMMA NewestAreKept == DenialInv => CacheKeepsNewest
<1> SUFFICES ASSUME DenialInv, NEW k \in Keys
             PROVE  {e \in ToSet(cached) : e.key = k}
                      = IF LastOf(k) > 0 /\ Cardinality(Newer(k)) < MaxEntries THEN {ingested[LastOf(k)]} ELSE {}
  BY DEF CacheKeepsNewest
<1>0. ingested \in Seq(Summary) /\ ToSet(cached) = {cached[i] : i \in 1 .. Len(cached)}
  BY DEF DenialInv, DenialTyped, ToSet
<1>1. PICK at : Places(cached, ingested, at) /\ Complete(cached, ingested, at)
  BY DEF DenialInv, CacheKept, Fits
<1>2. CASE \E i \in 1 .. Len(cached) : cached[i].key = k
  <2>1. PICK i \in 1 .. Len(cached) : cached[i].key = k
    BY <1>2
  <2>2. LastOf(k) \in 1 .. Len(ingested) /\ LastOf(k) > 0
    BY <1>1, <2>1, HeldIs
  <2>3. Cardinality(Newer(k)) < MaxEntries
    BY <1>1, <2>1, FewNewer
  <2>4. \A x \in 1 .. Len(cached) : cached[x].key = k => cached[x] = ingested[LastOf(k)]
    BY <1>1, HeldIs
  <2>5. {e \in ToSet(cached) : e.key = k} = {ingested[LastOf(k)]}
    BY <1>0, <2>1, <2>4
  <2> QED BY <2>2, <2>3, <2>5
<1>3. CASE ~ \E i \in 1 .. Len(cached) : cached[i].key = k
  <2>1. {e \in ToSet(cached) : e.key = k} = {}
    BY <1>0, <1>3
  <2>2. LastOf(k) > 0 => ~ (Cardinality(Newer(k)) < MaxEntries)
    BY <1>1, <1>3, ManyNewer
  <2> QED BY <2>1, <2>2
<1> QED BY <1>2, <1>3

\* The cache holds what was reported last, as much as it has room for (services/
\* denial_context.py ingest_summaries), and the table what the gateway took, each key
\* once and none forgotten but by age (services/denial_store.py persist_summaries).
THEOREM DenialsAreTold == DenialSpec => []DenialsTell
<1>1. DenialInv => DenialsTell
  BY NewestAreKept DEF DenialInv, DenialsTell
<1>2. DenialInit => DenialInv
  BY DenialInits
<1>3. DenialInv /\ [DenialNext]_denialVars => DenialInv'
  BY DenialSteps
<1> QED BY <1>1, <1>2, <1>3, PTL DEF DenialSpec

-----------------------------------------------------------------------------
(* The operations of a merge: their order by kind is what keeps an         *)
(* endpoint from being in two rules on the way.                            *)

Enumerates(s, N) == s \in SetToSeqs(N) /\ \A i, j \in DOMAIN s : i < j => s[i] < s[j]

\* A finite set of numbers can be enumerated in its order: a smallest one that could not
\* would have a least number, and without it could.
LEMMA Enumerated == ASSUME NEW N \in SUBSET Nat, IsFiniteSet(N) PROVE \E s : Enumerates(s, N)
<1> DEFINE Bad(M) == IsFiniteSet(M) /\ ~ \E s : Enumerates(s, M)
           T == {c \in Nat : \E M \in SUBSET Nat : Bad(M) /\ Cardinality(M) = c}
<1> SUFFICES ASSUME Bad(N) PROVE FALSE
  OBVIOUS
<1>1. T \in SUBSET Nat /\ T # {}
  <2>1. Cardinality(N) \in Nat
    BY FS_CardinalityType
  <2> QED BY <2>1
<1>2. PICK c \in T : \A x \in T : c <= x
  <2> HIDE DEF T
  <2> QED BY <1>1, Least
<1>3. PICK M \in SUBSET Nat : Bad(M) /\ Cardinality(M) = c
  BY <1>2
<1>4. M # {}
  <2> SUFFICES ASSUME M = {} PROVE FALSE
    OBVIOUS
  <2> DEFINE s == [i \in 1 .. 0 |-> 0]
  <2>1. Cardinality(M) = 0 /\ \A i \in 1 .. 0 : FALSE
    BY FS_EmptySet
  <2>2. s \in [1 .. 0 -> M] /\ DOMAIN s = 1 .. 0
    BY <2>1
  <2> HIDE DEF s
  <2>3. Enumerates(s, M)
    BY <2>1, <2>2 DEF Enumerates, SetToSeqs
  <2> QED BY <1>3, <2>3
<1>5. PICK m \in M : \A x \in M : m <= x
  BY <1>4, Least
<1> DEFINE L == M \ {m}
<1>6. IsFiniteSet(L) /\ Cardinality(L) = c - 1 /\ c \in Nat /\ c - 1 \in Nat
  <2>1. IsFiniteSet(M) /\ c \in Nat
    BY <1>1, <1>2, <1>3
  <2>2. IsFiniteSet(L) /\ Cardinality(L) = c - 1
    BY <1>3, <2>1, FS_RemoveElement
  <2>3. Cardinality(L) \in Nat
    BY <2>2, FS_CardinalityType
  <2> QED BY <2>1, <2>2, <2>3
<1>7. PICK s : Enumerates(s, L)
  <2>1. c - 1 \notin T
    BY <1>2, <1>6
  <2>2. L \in SUBSET Nat
    OBVIOUS
  <2> HIDE DEF L
  <2> QED BY <1>6, <2>1, <2>2
<1>8. /\ s \in [1 .. c - 1 -> L]
      /\ \A i, j \in 1 .. c - 1 : i # j => s[i] # s[j]
      /\ \A i, j \in 1 .. c - 1 : i < j => s[i] < s[j]
  BY <1>6, <1>7 DEF Enumerates, SetToSeqs
<1> DEFINE t == [i \in 1 .. c |-> IF i = 1 THEN m ELSE s[i - 1]]
<1>9. \A i \in 1 .. c : i # 1 => i - 1 \in 1 .. c - 1
  BY <1>6
<1>10. t \in [1 .. c -> M] /\ \A i \in 1 .. c : t[i] = IF i = 1 THEN m ELSE s[i - 1]
  BY <1>8, <1>9
<1> HIDE DEF t
<1>11. \A i, j \in 1 .. c : i < j => t[i] < t[j]
  <2> SUFFICES ASSUME NEW i \in 1 .. c, NEW j \in 1 .. c, i < j PROVE t[i] < t[j]
    OBVIOUS
  <2>1. j # 1 /\ j - 1 \in 1 .. c - 1 /\ (i # 1 => i - 1 \in 1 .. c - 1 /\ i - 1 < j - 1)
    BY <1>6
  <2>2. s[j - 1] \in L /\ t[j] = s[j - 1]
    BY <1>8, <1>10, <2>1
  <2>3. m < s[j - 1]
    <3>1. m <= s[j - 1] /\ m # s[j - 1] /\ m \in Nat /\ s[j - 1] \in Nat
      BY <1>5, <2>2
    <3> QED BY <3>1
  <2> QED BY <1>8, <1>10, <2>1, <2>2, <2>3
<1>12. \A i, j \in 1 .. c : i # j => t[i] # t[j]
  <2> SUFFICES ASSUME NEW i \in 1 .. c, NEW j \in 1 .. c, i # j PROVE t[i] # t[j]
    OBVIOUS
  <2>1. t[i] \in Nat /\ t[j] \in Nat
    BY <1>10
  <2>2. i < j \/ j < i
    BY <1>6
  <2> QED BY <1>11, <2>1, <2>2
<1>13. Enumerates(t, M)
  BY <1>3, <1>10, <1>11, <1>12 DEF Enumerates, SetToSeqs
<1> QED BY <1>3, <1>13

\* InOrder lists a set: each of it at one place.
Lists(s, N) ==
  /\ Len(s) \in Nat /\ s \in [1 .. Len(s) -> N]
  /\ \A i, j \in 1 .. Len(s) : s[i] = s[j] => i = j
  /\ \A n \in N : \E i \in 1 .. Len(s) : s[i] = n

LEMMA InOrderLists == ASSUME NEW N \in SUBSET Nat, IsFiniteSet(N) PROVE Lists(InOrder(N), N)
<1> DEFINE s == InOrder(N)
           c == Cardinality(N)
<1>1. s \in SetToSeqs(N)
  <2>1. \E x \in SetToSeqs(N) : \A i, j \in DOMAIN x : i < j => x[i] < x[j]
    BY Enumerated DEF Enumerates
  <2> QED BY <2>1 DEF InOrder
<1>2. c \in Nat
  BY FS_CardinalityType
<1> HIDE DEF s
<1>3. s \in [1 .. c -> N] /\ \A i, j \in 1 .. c : i # j => s[i] # s[j]
  BY <1>1 DEF SetToSeqs
<1>4. Len(s) = c
  BY <1>2, <1>3
<1>5. s \in Injection(1 .. c, N)
  BY <1>3 DEF Injection, IsInjective
<1>6. IsFiniteSet(1 .. c) /\ Cardinality(1 .. c) = c
  BY <1>2, FS_Interval
<1>7. s \in Surjection(1 .. c, N)
  BY <1>5, <1>6, FS_Injection
<1> HIDE DEF c
<1>8. \A n \in N : \E i \in 1 .. c : s[i] = n
  BY <1>7 DEF Surjection
<1>9. Lists(s, N)
  BY <1>2, <1>3, <1>4, <1>8 DEF Lists
<1> QED BY <1>9 DEF s

DiffOp == [type : {"add_rule", "remove_rule"}, name : RuleNames]

\* The rules of the two documents, and what a merge does with them.
LEMMA RulesNamed ==
  ASSUME current \in Documents, target \in Documents
  PROVE  /\ ToRemove \subseteq RuleNames /\ ToAdd \subseteq RuleNames /\ ToChange \subseteq RuleNames
         /\ Lists(InOrder(ToRemove), ToRemove) /\ Lists(InOrder(ToAdd), ToAdd) /\ Lists(InOrder(ToChange), ToChange)
<1>1. /\ RuleNames \subseteq Nat /\ DOMAIN current.rules \subseteq RuleNames /\ DOMAIN target.rules \subseteq RuleNames
      /\ IsFiniteSet(DOMAIN current.rules) /\ IsFiniteSet(DOMAIN target.rules)
  BY DocumentsAssumption
<1>2. /\ ToRemove \in SUBSET DOMAIN current.rules /\ ToAdd \in SUBSET DOMAIN target.rules
      /\ ToChange \in SUBSET DOMAIN current.rules
  BY DEF ToRemove, ToAdd, ToChange
<1>3. IsFiniteSet(ToRemove) /\ IsFiniteSet(ToAdd) /\ IsFiniteSet(ToChange)
  BY <1>1, <1>2, FS_Subset
<1> QED BY <1>1, <1>2, <1>3, InOrderLists

\* One operation for each of a set.
LEMMA EachIs ==
  ASSUME NEW t \in {"add_rule", "remove_rule"}, NEW N \in SUBSET RuleNames, Lists(InOrder(N), N)
  PROVE  /\ Each(t, N) \in Seq(DiffOp)
         /\ \A i \in 1 .. Len(Each(t, N)) : \E n \in N : Each(t, N)[i] = MergeOp(t, n)
         /\ \A n \in N : \E i \in 1 .. Len(Each(t, N)) : Each(t, N)[i] = MergeOp(t, n)
<1> DEFINE s == InOrder(N)
           e == Each(t, N)
<1>1. Len(s) \in Nat /\ s \in [1 .. Len(s) -> N] /\ \A n \in N : \E i \in 1 .. Len(s) : s[i] = n
  BY DEF Lists
<1>2. e = [i \in 1 .. Len(s) |-> MergeOp(t, s[i])]
  BY DEF Each
<1> HIDE DEF s, e
<1>3. \A n \in N : MergeOp(t, n) \in DiffOp
  BY DEF MergeOp, DiffOp
<1>4. e \in [1 .. Len(s) -> DiffOp] /\ \A i \in 1 .. Len(s) : e[i] = MergeOp(t, s[i])
  BY <1>1, <1>2, <1>3
<1>5. e \in Seq(DiffOp) /\ Len(e) = Len(s)
  BY <1>1, <1>4
<1>6. \A i \in 1 .. Len(e) : \E n \in N : e[i] = MergeOp(t, n)
  BY <1>1, <1>4, <1>5
<1>7. \A n \in N : \E i \in 1 .. Len(e) : e[i] = MergeOp(t, n)
  BY <1>1, <1>4, <1>5
<1> QED BY <1>5, <1>6, <1>7 DEF e

\* A changed rule is removed, and then added.
LEMMA PairsAre ==
  ASSUME Lists(InOrder(ToChange), ToChange), ToChange \subseteq RuleNames
  PROVE  /\ Pairs \in Seq(DiffOp)
         /\ \A i \in 1 .. Len(Pairs) : \E n \in ToChange, t \in {"add_rule", "remove_rule"} : Pairs[i] = MergeOp(t, n)
         /\ \A n \in ToChange : \E i, j \in 1 .. Len(Pairs) :
              Pairs[i] = MergeOp("remove_rule", n) /\ Pairs[j] = MergeOp("add_rule", n)
         /\ \A i, j \in 1 .. Len(Pairs) : \A n :
              Pairs[i] = MergeOp("add_rule", n) /\ Pairs[j] = MergeOp("remove_rule", n) => j < i
<1> DEFINE s == InOrder(ToChange)
           c == Len(s)
           type(i) == IF i % 2 = 1 THEN "remove_rule" ELSE "add_rule"
           half(i) == (i + 1) \div 2
<1>1. /\ c \in Nat /\ s \in [1 .. c -> ToChange] /\ \A n \in ToChange : \E i \in 1 .. c : s[i] = n
      /\ \A i, j \in 1 .. c : s[i] = s[j] => i = j
  BY DEF Lists
<1>2. Pairs = [i \in 1 .. 2 * c |-> MergeOp(type(i), s[half(i)])]
  BY DEF Pairs
<1>3. \A i \in 1 .. 2 * c : half(i) \in 1 .. c /\ (i = 2 * half(i) - 1 \/ i = 2 * half(i)) /\ (i % 2 = 1 <=> i = 2 * half(i) - 1)
  BY <1>1
<1>4. \A x \in 1 .. c : /\ 2 * x - 1 \in 1 .. 2 * c /\ half(2 * x - 1) = x /\ (2 * x - 1) % 2 = 1
                        /\ 2 * x \in 1 .. 2 * c /\ half(2 * x) = x /\ (2 * x) % 2 # 1
  <2> SUFFICES ASSUME NEW x \in 1 .. c
               PROVE  /\ 2 * x - 1 \in 1 .. 2 * c /\ half(2 * x - 1) = x /\ (2 * x - 1) % 2 = 1
                      /\ 2 * x \in 1 .. 2 * c /\ half(2 * x) = x /\ (2 * x) % 2 # 1
    OBVIOUS
  <2>1. c \in Nat /\ x \in Nat /\ 1 <= x /\ x <= c
    BY <1>1
  <2> HIDE DEF c
  <2>2. 2 * x - 1 \in 1 .. 2 * c /\ 2 * x \in 1 .. 2 * c
    BY <2>1
  <2>3. (2 * x - 1 + 1) \div 2 = x /\ (2 * x + 1) \div 2 = x
    BY <2>1
  <2>4. (2 * x - 1) % 2 = 1 /\ (2 * x) % 2 # 1
    BY <2>1
  <2> QED BY <2>2, <2>3, <2>4
<1>5. 2 * c \in Nat
  BY <1>1
<1> HIDE DEF s, half
<1>6. \A i \in 1 .. 2 * c : type(i) \in {"add_rule", "remove_rule"} /\ s[half(i)] \in ToChange
  BY <1>1, <1>3
<1>7. \A i \in 1 .. 2 * c : Pairs[i] = MergeOp(type(i), s[half(i)])
  BY <1>2
<1> HIDE DEF c
<1>8. \A t \in {"add_rule", "remove_rule"}, n \in ToChange : MergeOp(t, n) \in DiffOp
  BY DEF MergeOp, DiffOp
<1>9. Pairs \in [1 .. 2 * c -> DiffOp]
  <2> HIDE DEF type
  <2> QED BY <1>2, <1>6, <1>8
<1>10. Pairs \in Seq(DiffOp) /\ Len(Pairs) = 2 * c
  BY <1>5, <1>9
<1>11. \A i \in 1 .. Len(Pairs) : \E n \in ToChange, t \in {"add_rule", "remove_rule"} : Pairs[i] = MergeOp(t, n)
  <2> HIDE DEF type
  <2> QED BY <1>6, <1>7, <1>10
<1>12. ASSUME NEW n \in ToChange
       PROVE  \E i, j \in 1 .. Len(Pairs) : Pairs[i] = MergeOp("remove_rule", n) /\ Pairs[j] = MergeOp("add_rule", n)
  <2>1. PICK x \in 1 .. c : s[x] = n
    BY <1>1 DEF c
  <2>2. Pairs[2 * x - 1] = MergeOp("remove_rule", n) /\ Pairs[2 * x] = MergeOp("add_rule", n)
    BY <1>4, <1>7, <2>1
  <2> QED BY <1>4, <1>10, <2>2
<1>13. ASSUME NEW i \in 1 .. Len(Pairs), NEW j \in 1 .. Len(Pairs), NEW n,
              Pairs[i] = MergeOp("add_rule", n), Pairs[j] = MergeOp("remove_rule", n)
       PROVE  j < i
  <2>1. type(i) = "add_rule" /\ type(j) = "remove_rule" /\ s[half(i)] = n /\ s[half(j)] = n
    <3> HIDE DEF type
    <3> QED BY <1>7, <1>10, <1>13 DEF MergeOp
  <2>2. half(i) = half(j)
    BY <1>1, <1>3, <1>10, <2>1 DEF c
  <2>3. i = 2 * half(i) /\ j = 2 * half(i) - 1
    BY <1>3, <1>10, <2>1, <2>2
  <2>4. half(i) \in Nat
    BY <1>3, <1>10, <1>5
  <2> QED BY <2>3, <2>4
<1> QED BY <1>10, <1>11, <1>12, <1>13

\* What is to be removed is removed first, and what is to be added is added last; what is
\* removed after something was added is a changed rule, as is what was added.
LEMMA MergeOpsAre ==
  ASSUME current \in Documents, target \in Documents
  PROVE  /\ MergeOps \in Seq(DiffOp)
         /\ \A i \in 1 .. Len(MergeOps) : \E n :
              \/ MergeOps[i] = MergeOp("remove_rule", n) /\ n \in ToRemove \cup ToChange
              \/ MergeOps[i] = MergeOp("add_rule", n) /\ n \in ToAdd \cup ToChange
         /\ \A n \in ToRemove \cup ToChange : \E i \in 1 .. Len(MergeOps) : MergeOps[i] = MergeOp("remove_rule", n)
         /\ \A n \in ToAdd \cup ToChange : \E i \in 1 .. Len(MergeOps) : MergeOps[i] = MergeOp("add_rule", n)
         /\ \A i, j \in 1 .. Len(MergeOps) : \A m, n :
              i < j /\ MergeOps[i] = MergeOp("add_rule", m) /\ MergeOps[j] = MergeOp("remove_rule", n)
                => m \in ToChange /\ n \in ToChange /\ m # n
<1> DEFINE A == Each("remove_rule", ToRemove)
           B == Each("add_rule", ToAdd)
           P == Pairs
           M == MergeOps
<1>0. \A t, u, m, n : MergeOp(t, m) = MergeOp(u, n) => t = u /\ m = n
  BY DEF MergeOp
<1>1. /\ A \in Seq(DiffOp)
      /\ \A i \in 1 .. Len(A) : \E n \in ToRemove : A[i] = MergeOp("remove_rule", n)
      /\ \A n \in ToRemove : \E i \in 1 .. Len(A) : A[i] = MergeOp("remove_rule", n)
  BY RulesNamed, EachIs
<1>2. /\ B \in Seq(DiffOp)
      /\ \A i \in 1 .. Len(B) : \E n \in ToAdd : B[i] = MergeOp("add_rule", n)
      /\ \A n \in ToAdd : \E i \in 1 .. Len(B) : B[i] = MergeOp("add_rule", n)
  BY RulesNamed, EachIs
<1>3. /\ P \in Seq(DiffOp)
      /\ \A i \in 1 .. Len(P) : \E n \in ToChange, t \in {"add_rule", "remove_rule"} : P[i] = MergeOp(t, n)
      /\ \A n \in ToChange : \E i, j \in 1 .. Len(P) :
           P[i] = MergeOp("remove_rule", n) /\ P[j] = MergeOp("add_rule", n)
      /\ \A i, j \in 1 .. Len(P) : \A n :
           P[i] = MergeOp("add_rule", n) /\ P[j] = MergeOp("remove_rule", n) => j < i
  BY RulesNamed, PairsAre
<1>4. M = (A \o P) \o B
  BY DEF MergeOps
<1> HIDE DEF A, B, P, M
<1>5. Len(A) \in Nat /\ Len(P) \in Nat /\ Len(B) \in Nat
  BY <1>1, <1>2, <1>3
<1>6. /\ A \o P \in Seq(DiffOp) /\ Len(A \o P) = Len(A) + Len(P)
      /\ \A i \in 1 .. Len(A) + Len(P) : (A \o P)[i] = IF i <= Len(A) THEN A[i] ELSE P[i - Len(A)]
  BY <1>1, <1>3, ConcatProperties
<1>7. /\ M \in Seq(DiffOp) /\ Len(M) = Len(A) + Len(P) + Len(B)
      /\ \A i \in 1 .. Len(A) + Len(P) + Len(B) :
           M[i] = IF i <= Len(A) + Len(P) THEN (A \o P)[i] ELSE B[i - (Len(A) + Len(P))]
  BY <1>2, <1>4, <1>6, ConcatProperties
<1>8. /\ \A i \in 1 .. Len(A) : i \in 1 .. Len(M) /\ M[i] = A[i]
      /\ \A i \in 1 .. Len(P) : i + Len(A) \in 1 .. Len(M) /\ M[i + Len(A)] = P[i]
      /\ \A i \in 1 .. Len(B) : i + (Len(A) + Len(P)) \in 1 .. Len(M) /\ M[i + (Len(A) + Len(P))] = B[i]
  <2>1. ASSUME NEW i \in 1 .. Len(A) PROVE i \in 1 .. Len(M) /\ M[i] = A[i]
    <3>1. i \in 1 .. Len(A) + Len(P) /\ i \in 1 .. Len(M) /\ i <= Len(A) /\ i <= Len(A) + Len(P)
      BY <1>5, <1>7
    <3> QED BY <1>6, <1>7, <3>1
  <2>2. ASSUME NEW i \in 1 .. Len(P) PROVE i + Len(A) \in 1 .. Len(M) /\ M[i + Len(A)] = P[i]
    <3>1. /\ i + Len(A) \in 1 .. Len(A) + Len(P) /\ i + Len(A) \in 1 .. Len(M)
          /\ ~ (i + Len(A) <= Len(A)) /\ i + Len(A) <= Len(A) + Len(P) /\ i + Len(A) - Len(A) = i
      BY <1>5, <1>7
    <3> QED BY <1>6, <1>7, <3>1
  <2>3. ASSUME NEW i \in 1 .. Len(B)
        PROVE  i + (Len(A) + Len(P)) \in 1 .. Len(M) /\ M[i + (Len(A) + Len(P))] = B[i]
    <3>1. /\ i + (Len(A) + Len(P)) \in 1 .. Len(M) /\ ~ (i + (Len(A) + Len(P)) <= Len(A) + Len(P))
          /\ i + (Len(A) + Len(P)) - (Len(A) + Len(P)) = i
      BY <1>5, <1>7
    <3> QED BY <1>7, <3>1
  <2> QED BY <2>1, <2>2, <2>3
<1>9. \A i \in 1 .. Len(M) : \/ i \in 1 .. Len(A)
                             \/ \E x \in 1 .. Len(P) : i = x + Len(A)
                             \/ \E x \in 1 .. Len(B) : i = x + (Len(A) + Len(P))
  <2> SUFFICES ASSUME NEW i \in 1 .. Len(M), i \notin 1 .. Len(A)
               PROVE  (\E x \in 1 .. Len(P) : i = x + Len(A)) \/ \E x \in 1 .. Len(B) : i = x + (Len(A) + Len(P))
    OBVIOUS
  <2>1. CASE i <= Len(A) + Len(P)
    <3>1. i - Len(A) \in 1 .. Len(P) /\ i = i - Len(A) + Len(A)
      BY <1>5, <1>7, <2>1
    <3> QED BY <3>1
  <2>2. CASE ~ (i <= Len(A) + Len(P))
    <3>1. i - (Len(A) + Len(P)) \in 1 .. Len(B) /\ i = i - (Len(A) + Len(P)) + (Len(A) + Len(P))
      BY <1>5, <1>7, <2>2
    <3> QED BY <3>1
  <2> QED BY <2>1, <2>2
<1>10. \A i \in 1 .. Len(M) : \E n : \/ M[i] = MergeOp("remove_rule", n) /\ n \in ToRemove \cup ToChange
                                     \/ M[i] = MergeOp("add_rule", n) /\ n \in ToAdd \cup ToChange
  <2> SUFFICES ASSUME NEW i \in 1 .. Len(M)
               PROVE  \E n : \/ M[i] = MergeOp("remove_rule", n) /\ n \in ToRemove \cup ToChange
                             \/ M[i] = MergeOp("add_rule", n) /\ n \in ToAdd \cup ToChange
    OBVIOUS
  <2>1. CASE i \in 1 .. Len(A)
    BY <1>1, <1>8, <2>1
  <2>2. CASE \E x \in 1 .. Len(P) : i = x + Len(A)
    <3>1. PICK x \in 1 .. Len(P) : i = x + Len(A)
      BY <2>2
    <3>2. \E n \in ToChange : P[x] = MergeOp("add_rule", n) \/ P[x] = MergeOp("remove_rule", n)
      BY <1>3
    <3>3. M[i] = P[x]
      BY <1>8, <3>1
    <3> QED BY <3>2, <3>3
  <2>3. CASE \E x \in 1 .. Len(B) : i = x + (Len(A) + Len(P))
    BY <1>2, <1>8, <2>3
  <2> QED BY <1>9, <2>1, <2>2, <2>3
<1>11. \A n \in ToRemove \cup ToChange : \E i \in 1 .. Len(M) : M[i] = MergeOp("remove_rule", n)
  <2>1. \A n \in ToRemove : \E i \in 1 .. Len(M) : M[i] = MergeOp("remove_rule", n)
    BY <1>1, <1>8
  <2>2. ASSUME NEW n \in ToChange PROVE \E i \in 1 .. Len(M) : M[i] = MergeOp("remove_rule", n)
    <3>1. PICK x \in 1 .. Len(P) : P[x] = MergeOp("remove_rule", n)
      BY <1>3
    <3> QED BY <1>8, <3>1
  <2> QED BY <2>1, <2>2
<1>12. \A n \in ToAdd \cup ToChange : \E i \in 1 .. Len(M) : M[i] = MergeOp("add_rule", n)
  <2>1. ASSUME NEW n \in ToAdd PROVE \E i \in 1 .. Len(M) : M[i] = MergeOp("add_rule", n)
    <3>1. PICK x \in 1 .. Len(B) : B[x] = MergeOp("add_rule", n)
      BY <1>2
    <3> QED BY <1>8, <3>1
  <2>2. ASSUME NEW n \in ToChange PROVE \E i \in 1 .. Len(M) : M[i] = MergeOp("add_rule", n)
    <3>1. PICK x \in 1 .. Len(P) : P[x] = MergeOp("add_rule", n)
      BY <1>3
    <3> QED BY <1>8, <3>1
  <2> QED BY <2>1, <2>2
<1>13. ASSUME NEW i \in 1 .. Len(M), NEW j \in 1 .. Len(M), NEW m, NEW n, i < j,
              M[i] = MergeOp("add_rule", m), M[j] = MergeOp("remove_rule", n)
       PROVE  m \in ToChange /\ n \in ToChange /\ m # n
  <2>1. i \notin 1 .. Len(A)
    <3> SUFFICES ASSUME i \in 1 .. Len(A) PROVE FALSE
      OBVIOUS
    <3>1. PICK k \in ToRemove : M[i] = MergeOp("remove_rule", k)
      BY <1>1, <1>8
    <3> QED BY <1>0, <1>13, <3>1
  <2>2. ASSUME NEW x \in 1 .. Len(B), j = x + (Len(A) + Len(P)) PROVE FALSE
    <3>1. PICK k \in ToAdd : M[j] = MergeOp("add_rule", k)
      BY <1>2, <1>8, <2>2
    <3> QED BY <1>0, <1>13, <3>1
  <2>3. j \notin 1 .. Len(A)
    BY <1>5, <1>13, <2>1
  <2>4. PICK y \in 1 .. Len(P) : j = y + Len(A)
    BY <1>9, <2>2, <2>3
  <2>5. ASSUME NEW x \in 1 .. Len(B), i = x + (Len(A) + Len(P)) PROVE FALSE
    BY <1>5, <1>13, <2>4, <2>5
  <2>6. PICK x \in 1 .. Len(P) : i = x + Len(A)
    BY <1>9, <2>1, <2>5
  <2>7. P[x] = MergeOp("add_rule", m) /\ P[y] = MergeOp("remove_rule", n)
    BY <1>8, <1>13, <2>4, <2>6
  <2>8. m \in ToChange /\ n \in ToChange
    <3>1. PICK k \in ToChange, t \in {"add_rule", "remove_rule"} : P[x] = MergeOp(t, k)
      BY <1>3
    <3>2. PICK l \in ToChange, u \in {"add_rule", "remove_rule"} : P[y] = MergeOp(u, l)
      BY <1>3
    <3> QED BY <1>0, <2>7, <3>1, <3>2
  <2>9. x < y
    BY <1>5, <1>13, <2>4, <2>6
  <2>10. m # n
    <3> SUFFICES ASSUME m = n PROVE FALSE
      OBVIOUS
    <3>1. y < x
      BY <1>3, <2>7
    <3> QED BY <1>5, <2>9, <3>1
  <2> QED BY <2>8, <2>10
<1> QED BY <1>7, <1>10, <1>11, <1>12, <1>13 DEF M

\* The places in a list, and of a rule.
PlacesIn(list) == {list[i].at : i \in DOMAIN list}
PlacesOf(r) == {x.at : x \in ToSet(r.endpoints)}

\* Lists that are equal but for the order of places have the same ones.
LEMMA SamePlaces ==
  ASSUME NEW a, NEW b, SameItems(a, b)
  PROVE  PlacesIn(a) = PlacesIn(b)
<1>1. PICK p \in Bijection(DOMAIN a, DOMAIN b) : \A i \in DOMAIN a : b[p[i]] = a[i]
  BY DEF SameItems
<1>2. p \in [DOMAIN a -> DOMAIN b] /\ \A j \in DOMAIN b : \E i \in DOMAIN a : p[i] = j
  BY DEF Bijection, Surjection
<1>3. \A i \in DOMAIN a : p[i] \in DOMAIN b /\ b[p[i]].at = a[i].at
  BY <1>1, <1>2
<1> QED BY <1>2, <1>3 DEF PlacesIn

LEMMA SameAsItself == ASSUME NEW r PROVE RulesEqual(r, r)
<1>1. ASSUME NEW a PROVE SameItems(a, a)
  <2> DEFINE p == [i \in DOMAIN a |-> i]
  <2>1. p \in Bijection(DOMAIN a, DOMAIN a)
    BY DEF Bijection, Injection, Surjection, IsInjective
  <2>2. \A i \in DOMAIN a : p[i] = i
    OBVIOUS
  <2> HIDE DEF p
  <2> QED BY <2>1, <2>2 DEF SameItems
<1> QED BY <1>1 DEF RulesEqual

-----------------------------------------------------------------------------
(* The apply of a document: of the operations of the merge, the first d    *)
(* have been taken and the rest are to come.                               *)

Took(d, t, n) == \E i \in 1 .. d : MergeOps[i] = MergeOp(t, n)

\* What there is of a rule.
RuleIs(d, n) ==
  /\ n \in DOMAIN rules <=> Took(d, "add_rule", n) \/ (n \in DOMAIN current.rules /\ ~ Took(d, "remove_rule", n))
  /\ n \in DOMAIN rules => rules[n] = IF Took(d, "add_rule", n) THEN target.rules[n] ELSE current.rules[n]

\* The rest of the operations.
RestOf(d) == Len(ops) = Len(MergeOps) - d /\ \A i \in 1 .. Len(ops) : ops[i] = MergeOps[d + i]

Taking(d) ==
  /\ \A n : RuleIs(d, n)
  /\ IF ops # <<>> \/ answer = "merged" THEN RestOf(d) ELSE d = 0

DiffInv ==
  /\ current \in Documents /\ target \in Documents /\ ops \in Seq(DiffOp)
  /\ ops # <<>> \/ answer = "merged" => ~ Unsupported
  /\ answer = "merged" => ops = <<>>
  /\ answer = "up_to_date" => DiffIsEmpty
  /\ IF answer = "replaced" THEN ops = <<>> /\ rules = target.rules
     ELSE \E d \in 0 .. Len(MergeOps) : Taking(d)

LEMMA OpsLength == ASSUME current \in Documents, target \in Documents PROVE Len(MergeOps) \in Nat
BY MergeOpsAre

\* At first nothing has been done.
LEMMA NothingTaken ==
  ASSUME rules = current.rules
  PROVE  \A n : RuleIs(0, n)
<1>1. \A t, n : ~ Took(0, t, n)
  BY DEF Took
<1> QED BY <1>1 DEF RuleIs

LEMMA DiffInits == DiffInit => DiffInv
<1> SUFFICES ASSUME DiffInit PROVE DiffInv
  OBVIOUS
<1>1. current \in Documents /\ target \in Documents /\ rules = current.rules /\ ops = <<>> /\ answer = "none"
  BY DEF DiffInit
<1>2. Taking(0)
  BY <1>1, NothingTaken DEF Taking
<1>3. 0 \in 0 .. Len(MergeOps)
  BY <1>1, OpsLength
<1> QED BY <1>1, <1>2, <1>3 DEF DiffInv

\* Before the merge starts nothing has been done.
LEMMA NotYet ==
  ASSUME DiffInv, answer \notin {"merged", "replaced"}, ops = <<>>
  PROVE  \A n : RuleIs(0, n)
BY DEF DiffInv, Taking

\* The two documents stay what they are.
LEMMA SameDocs ==
  ASSUME current' = current, target' = target
  PROVE  MergeOps' = MergeOps /\ Unsupported' = Unsupported /\ DiffIsEmpty' = DiffIsEmpty
BY DEF MergeOps, Each, Pairs, ToRemove, ToAdd, ToChange, Unsupported, DiffIsEmpty, SameFiles, SameUser, Paths, Workdir

LEMMA SendKeeps == ASSUME DiffInv, MergeSends PROVE DiffInv'
<1>1. /\ answer = "none" /\ ops = <<>> /\ ~ Unsupported /\ ops' = MergeOps
      /\ answer' = (IF MergeOps = <<>> THEN "merged" ELSE "none")
      /\ current' = current /\ target' = target /\ rules' = rules
  BY DEF MergeSends
<1>2. MergeOps' = MergeOps /\ Unsupported' = Unsupported /\ current \in Documents /\ target \in Documents
  BY <1>1, SameDocs DEF DiffInv
<1>3. MergeOps \in Seq(DiffOp) /\ Len(MergeOps) \in Nat
  BY <1>2, MergeOpsAre
<1>4. \A n : RuleIs(0, n)'
  BY <1>1, <1>2, NotYet DEF RuleIs, Took
<1>5. RestOf(0)'
  BY <1>1, <1>2, <1>3 DEF RestOf
<1>6. Taking(0)'
  BY <1>1, <1>4, <1>5 DEF Taking
<1>7. 0 \in 0 .. Len(MergeOps')
  BY <1>2, <1>3
<1> QED BY <1>1, <1>2, <1>3, <1>6, <1>7 DEF DiffInv

\* What the gateway takes is done, and nothing it did before is undone but a rule that
\* has been removed and is now added.
LEMMA TakeKeeps == ASSUME DiffInv, GatewayTakes PROVE DiffInv'
<1>1. /\ answer = "none" /\ ops # <<>> /\ rules' = Taken(Head(ops), rules) /\ ops' = Tail(ops)
      /\ answer' = (IF ops' = <<>> THEN "merged" ELSE "none")
      /\ current' = current /\ target' = target
  BY DEF GatewayTakes
<1>2. /\ MergeOps' = MergeOps /\ Unsupported' = Unsupported /\ ~ Unsupported
      /\ current \in Documents /\ target \in Documents /\ ops \in Seq(DiffOp)
  BY <1>1, SameDocs DEF DiffInv
<1>3. PICK d \in 0 .. Len(MergeOps) : (\A n : RuleIs(d, n)) /\ RestOf(d)
  BY <1>1 DEF DiffInv, Taking
<1>4. /\ Len(ops) \in Nat /\ Len(ops) # 0 /\ Head(ops) = ops[1]
      /\ Tail(ops) \in Seq(DiffOp) /\ Len(Tail(ops)) = Len(ops) - 1
      /\ \A i \in 1 .. Len(ops) - 1 : Tail(ops)[i] = ops[i + 1]
  BY <1>1, <1>2, HeadTailProperties, EmptySeq
<1>5. /\ Len(MergeOps) \in Nat /\ Len(ops) = Len(MergeOps) - d
      /\ d + 1 \in 1 .. Len(MergeOps) /\ d + 1 \in 0 .. Len(MergeOps)
      /\ Head(ops) = MergeOps[d + 1]
  <2>1. Len(MergeOps) \in Nat /\ Len(ops) = Len(MergeOps) - d /\ \A i \in 1 .. Len(ops) : ops[i] = MergeOps[d + i]
    BY <1>2, <1>3, OpsLength DEF RestOf
  <2>2. 1 \in 1 .. Len(ops)
    BY <1>4
  <2> QED BY <1>4, <2>1, <2>2
<1>6. RestOf(d + 1)'
  <2>1. Len(Tail(ops)) = Len(MergeOps) - (d + 1)
    BY <1>4, <1>5
  <2>2. ASSUME NEW i \in 1 .. Len(Tail(ops)) PROVE Tail(ops)[i] = MergeOps[d + 1 + i]
    <3>1. i \in 1 .. Len(ops) - 1 /\ i + 1 \in 1 .. Len(ops) /\ d + (i + 1) = d + 1 + i
      BY <1>4
    <3> QED BY <1>3, <1>4, <3>1 DEF RestOf
  <2> QED BY <1>1, <1>2, <2>1, <2>2 DEF RestOf
<1>7. \A t, n : Took(d + 1, t, n) <=> Took(d, t, n) \/ Head(ops) = MergeOp(t, n)
  <2>1. \A i \in 1 .. d + 1 : i \in 1 .. d \/ i = d + 1
    OBVIOUS
  <2>2. \A i \in 1 .. d : i \in 1 .. d + 1
    OBVIOUS
  <2>3. d + 1 \in 1 .. d + 1
    OBVIOUS
  <2> QED BY <1>5, <2>1, <2>2, <2>3 DEF Took
<1>8. \A t, n : Took(d + 1, t, n)' <=> Took(d + 1, t, n)
  BY <1>2 DEF Took
<1>9. PICK x : Head(ops) = MergeOp("remove_rule", x) \/ Head(ops) = MergeOp("add_rule", x)
  BY <1>2, <1>5, MergeOpsAre
<1>10. \A t, u, m, n : MergeOp(t, m) = MergeOp(u, n) => t = u /\ m = n
  BY DEF MergeOp
<1>11. ASSUME NEW n PROVE RuleIs(d + 1, n)'
  <2>1. RuleIs(d, n)
    BY <1>3
  <2>2. CASE Head(ops) = MergeOp("remove_rule", x)
    <3>1. rules' = [k \in DOMAIN rules \ {x} |-> rules[k]]
      BY <1>1, <2>2 DEF Taken, MergeOp
    <3>2. CASE n = x
      <4>1. ~ Took(d, "add_rule", x)
        <5> SUFFICES ASSUME NEW i \in 1 .. d, MergeOps[i] = MergeOp("add_rule", x) PROVE FALSE
          BY DEF Took
        <5>1. i \in 1 .. Len(MergeOps) /\ i < d + 1
          BY <1>5
        <5> QED BY <1>2, <1>5, <2>2, <5>1, MergeOpsAre
      <4>2. ~ Took(d + 1, "add_rule", x) /\ Took(d + 1, "remove_rule", x)
        BY <1>7, <1>10, <2>2, <4>1
      <4> QED BY <1>1, <1>8, <3>1, <3>2, <4>2 DEF RuleIs
    <3>3. CASE n # x
      <4>1. \A t : Took(d + 1, t, n) <=> Took(d, t, n)
        BY <1>7, <1>10, <2>2, <3>3
      <4> QED BY <1>1, <1>8, <2>1, <3>1, <3>3, <4>1 DEF RuleIs
    <3> QED BY <3>2, <3>3
  <2>3. CASE Head(ops) = MergeOp("add_rule", x)
    <3>1. rules' = [k \in DOMAIN rules \cup {x} |-> IF k = x THEN target.rules[x] ELSE rules[k]]
      BY <1>1, <2>3 DEF Taken, MergeOp
    <3>2. CASE n = x
      <4>1. Took(d + 1, "add_rule", x)
        BY <1>7, <2>3
      <4> QED BY <1>1, <1>8, <3>1, <3>2, <4>1 DEF RuleIs
    <3>3. CASE n # x
      <4>1. \A t : Took(d + 1, t, n) <=> Took(d, t, n)
        BY <1>7, <1>10, <2>3, <3>3
      <4> QED BY <1>1, <1>8, <2>1, <3>1, <3>3, <4>1 DEF RuleIs
    <3> QED BY <3>2, <3>3
  <2> QED BY <1>9, <2>2, <2>3
<1>12. Taking(d + 1)'
  BY <1>1, <1>6, <1>11 DEF Taking
<1> QED BY <1>1, <1>2, <1>4, <1>5, <1>12 DEF DiffInv

\* The rest send no operation.
LEMMA EndsKeep ==
  ASSUME DiffInv, UpToDate \/ Replaces \/ MergeRefused \/ GatewayBreaksOff \/ UNCHANGED diffVars
  PROVE  DiffInv'
<1>1. current' = current /\ target' = target /\ ops' = ops
  BY DEF UpToDate, Replaces, MergeRefused, GatewayBreaksOff, diffVars
<1>2. MergeOps' = MergeOps /\ Unsupported' = Unsupported /\ DiffIsEmpty' = DiffIsEmpty
  BY <1>1, SameDocs
<1>3. ASSUME rules' = rules, answer' = answer \/ (answer = "none" /\ answer' \notin {"merged", "replaced"}),
             answer' = "up_to_date" => DiffIsEmpty \/ answer = "up_to_date"
      PROVE  DiffInv'
  <2>1. \A d : Taking(d) => Taking(d)'
    BY <1>1, <1>2, <1>3 DEF Taking, RuleIs, RestOf, Took
  <2>2. answer # "replaced" => \E d \in 0 .. Len(MergeOps') : Taking(d)'
    BY <1>2, <2>1 DEF DiffInv
  <2>3. answer' = "replaced" <=> answer = "replaced"
    BY <1>3
  <2> QED BY <1>1, <1>2, <1>3, <2>2, <2>3 DEF DiffInv
<1>4. CASE Replaces
  BY <1>1, <1>2, <1>4 DEF DiffInv, Replaces
<1> QED BY <1>3, <1>4 DEF UpToDate, MergeRefused, GatewayBreaksOff, diffVars

LEMMA DiffSteps == DiffInv /\ [DiffNext]_diffVars => DiffInv'
BY SendKeeps, TakeKeeps, EndsKeep DEF DiffNext

\* What an operation of the merge is about.
LEMMA TookWhat ==
  ASSUME DiffInv, NEW d \in 0 .. Len(MergeOps), NEW n
  PROVE  /\ Took(d, "add_rule", n) => n \in ToAdd \cup ToChange
         /\ Took(d, "remove_rule", n) => n \in ToRemove \cup ToChange
         /\ d = Len(MergeOps) => /\ n \in ToAdd \cup ToChange => Took(d, "add_rule", n)
                                 /\ n \in ToRemove \cup ToChange => Took(d, "remove_rule", n)
<1>1. current \in Documents /\ target \in Documents
  BY DEF DiffInv
<1>2. \A i \in 1 .. d : i \in 1 .. Len(MergeOps)
  BY <1>1, OpsLength
<1>3. \A t, u, m, k : MergeOp(t, m) = MergeOp(u, k) => t = u /\ m = k
  BY DEF MergeOp
<1>4. ASSUME NEW t, NEW i \in 1 .. Len(MergeOps), MergeOps[i] = MergeOp(t, n)
      PROVE  (t = "remove_rule" /\ n \in ToRemove \cup ToChange) \/ (t = "add_rule" /\ n \in ToAdd \cup ToChange)
  <2>1. PICK k : \/ MergeOps[i] = MergeOp("remove_rule", k) /\ k \in ToRemove \cup ToChange
                 \/ MergeOps[i] = MergeOp("add_rule", k) /\ k \in ToAdd \cup ToChange
    BY <1>1, MergeOpsAre
  <2> QED BY <1>3, <1>4, <2>1
<1>5. \A t : Took(d, t, n) =>
        (t = "remove_rule" /\ n \in ToRemove \cup ToChange) \/ (t = "add_rule" /\ n \in ToAdd \cup ToChange)
  BY <1>2, <1>4 DEF Took
<1>6. ASSUME d = Len(MergeOps)
      PROVE  /\ n \in ToAdd \cup ToChange => Took(d, "add_rule", n)
             /\ n \in ToRemove \cup ToChange => Took(d, "remove_rule", n)
  BY <1>1, <1>6, MergeOpsAre DEF Took
<1> QED BY <1>5, <1>6

\* A merge that ends leaves the rules that were applied.
LEMMA MergedRules == ASSUME DiffInv, answer = "merged" PROVE SameRules(rules, target.rules)
<1>1. PICK d \in 0 .. Len(MergeOps) : (\A n : RuleIs(d, n)) /\ RestOf(d)
  BY DEF DiffInv, Taking
<1>2. d = Len(MergeOps)
  <2>1. ops = <<>> /\ Len(MergeOps) \in Nat
    BY OpsLength DEF DiffInv
  <2> QED BY <1>1, <2>1 DEF RestOf
<1>3. \A n : /\ Took(d, "add_rule", n) <=> n \in ToAdd \cup ToChange
             /\ Took(d, "remove_rule", n) <=> n \in ToRemove \cup ToChange
  BY <1>2, TookWhat
<1>4. \A n : n \in DOMAIN rules <=> n \in DOMAIN target.rules
  BY <1>1, <1>3 DEF RuleIs, ToAdd, ToRemove, ToChange
<1>5. ASSUME NEW n \in DOMAIN rules PROVE RulesEqual(rules[n], target.rules[n])
  <2>1. CASE n \in ToAdd \cup ToChange
    BY <1>1, <1>3, <2>1, SameAsItself DEF RuleIs
  <2>2. CASE n \notin ToAdd \cup ToChange
    <3>1. rules[n] = current.rules[n]
      BY <1>1, <1>3, <2>2 DEF RuleIs
    <3>2. n \in DOMAIN target.rules /\ n \in DOMAIN current.rules /\ RulesEqual(current.rules[n], target.rules[n])
      BY <1>4, <2>2 DEF ToAdd, ToChange
    <3> QED BY <3>1, <3>2
  <2> QED BY <2>1, <2>2
<1>6. DOMAIN rules = DOMAIN target.rules
  BY <1>4
<1> QED BY <1>5, <1>6 DEF SameRules

LEMMA EqualPlaces == ASSUME NEW a, NEW b, RulesEqual(a, b) PROVE PlacesOf(a) = PlacesOf(b)
<1>1. SameItems(a.endpoints, b.endpoints)
  BY DEF RulesEqual
<1>2. PlacesIn(a.endpoints) = PlacesIn(b.endpoints)
  BY <1>1, SamePlaces
<1>3. \A r : PlacesOf(r) = PlacesIn(r.endpoints)
  BY DEF PlacesOf, PlacesIn, ToSet
<1> QED BY <1>2, <1>3

\* When one rule is the applied one and another is still the old one, the other is to stay
\* or both are changed: what is to go went first, and what is new comes last.
LEMMA OldAndNew ==
  ASSUME DiffInv, NEW d \in 0 .. Len(MergeOps), NEW m, NEW n,
         RuleIs(d, m), RuleIs(d, n), m \in DOMAIN rules, n \in DOMAIN rules,
         Took(d, "add_rule", m), ~ Took(d, "add_rule", n), ~ MovesBack(m, n)
  PROVE  /\ rules[m] = target.rules[m] /\ m \in DOMAIN target.rules /\ n \in DOMAIN target.rules
         /\ PlacesOf(rules[n]) = PlacesOf(target.rules[n])
<1>1. current \in Documents /\ target \in Documents /\ m \in ToAdd \cup ToChange
  BY TookWhat DEF DiffInv
<1>2. n \in DOMAIN current.rules /\ ~ Took(d, "remove_rule", n) /\ rules[n] = current.rules[n]
  BY DEF RuleIs
<1>3. n \notin ToRemove \cup ToChange
  <2> SUFFICES ASSUME n \in ToRemove \cup ToChange PROVE FALSE
    OBVIOUS
  <2>1. PICK j \in 1 .. Len(MergeOps) : MergeOps[j] = MergeOp("remove_rule", n)
    BY <1>1, MergeOpsAre
  <2>2. PICK i \in 1 .. d : MergeOps[i] = MergeOp("add_rule", m)
    BY DEF Took
  <2>3. j \notin 1 .. d
    BY <1>2, <2>1 DEF Took
  <2>4. i \in 1 .. Len(MergeOps) /\ i < j
    BY <1>1, <2>3, OpsLength
  <2>5. m \in ToChange /\ n \in ToChange
    BY <1>1, <2>1, <2>2, <2>4, MergeOpsAre
  <2> QED BY <2>5 DEF MovesBack
<1>4. n \in DOMAIN target.rules /\ RulesEqual(current.rules[n], target.rules[n])
  BY <1>2, <1>3 DEF ToRemove, ToChange
<1>5. m \in DOMAIN target.rules /\ rules[m] = target.rules[m]
  BY <1>1 DEF ToAdd, ToChange, RuleIs
<1> QED BY <1>2, <1>4, <1>5, EqualPlaces

\* No endpoint is in two rules but as it was or is to be.
LEMMA SharedAsMeant ==
  ASSUME DiffInv, NEW m, NEW n, ~ MovesBack(m, n)
  PROVE  Shared(rules, m, n) \subseteq Shared(current.rules, m, n) \cup Shared(target.rules, m, n)
<1>0. \A R : Shared(R, m, n) = IF m \in DOMAIN R /\ n \in DOMAIN R THEN PlacesOf(R[m]) \cap PlacesOf(R[n]) ELSE {}
  BY DEF Shared, PlacesOf
<1>1. CASE answer = "replaced"
  BY <1>1 DEF DiffInv
<1>2. CASE answer # "replaced" /\ m \in DOMAIN rules /\ n \in DOMAIN rules
  <2>1. PICK d \in 0 .. Len(MergeOps) : \A k : RuleIs(d, k)
    BY <1>2 DEF DiffInv, Taking
  <2>2. CASE Took(d, "add_rule", m) /\ Took(d, "add_rule", n)
    <3>1. m \in DOMAIN target.rules /\ n \in DOMAIN target.rules
      BY <2>2, TookWhat DEF ToAdd, ToChange
    <3> QED BY <1>0, <1>2, <2>1, <2>2, <3>1 DEF RuleIs
  <2>3. CASE ~ Took(d, "add_rule", m) /\ ~ Took(d, "add_rule", n)
    BY <1>0, <1>2, <2>1, <2>3 DEF RuleIs
  <2>4. CASE Took(d, "add_rule", m) /\ ~ Took(d, "add_rule", n)
    <3>1. /\ rules[m] = target.rules[m] /\ m \in DOMAIN target.rules /\ n \in DOMAIN target.rules
          /\ PlacesOf(rules[n]) = PlacesOf(target.rules[n])
      BY <1>2, <2>1, <2>4, OldAndNew
    <3> QED BY <1>0, <1>2, <3>1
  <2>5. CASE ~ Took(d, "add_rule", m) /\ Took(d, "add_rule", n)
    <3>1. ~ MovesBack(n, m)
      BY DEF MovesBack
    <3>2. /\ rules[n] = target.rules[n] /\ n \in DOMAIN target.rules /\ m \in DOMAIN target.rules
          /\ PlacesOf(rules[m]) = PlacesOf(target.rules[m])
      BY <1>2, <2>1, <2>5, <3>1, OldAndNew
    <3> QED BY <1>0, <1>2, <3>2
  <2> QED BY <2>2, <2>3, <2>4, <2>5
<1>3. CASE ~ (m \in DOMAIN rules /\ n \in DOMAIN rules)
  BY <1>0, <1>3
<1> QED BY <1>1, <1>2, <1>3

LEMMA MergesTell == DiffInv => MergeTells
<1> SUFFICES ASSUME DiffInv PROVE MergeTells
  OBVIOUS
<1>1. ASSUME answer # "replaced", NEW n \in (DOMAIN current.rules \cap DOMAIN target.rules) \ ToChange
      PROVE  n \in DOMAIN rules /\ rules[n] = current.rules[n]
  <2>1. PICK d \in 0 .. Len(MergeOps) : \A k : RuleIs(d, k)
    BY <1>1 DEF DiffInv, Taking
  <2>2. n \notin ToAdd /\ n \notin ToRemove /\ n \notin ToChange
    BY DEF ToAdd, ToRemove
  <2>3. ~ Took(d, "add_rule", n) /\ ~ Took(d, "remove_rule", n)
    BY <2>2, TookWhat
  <2> QED BY <2>1, <2>3 DEF RuleIs
<1>2. answer = "merged" => SameFiles /\ SameUser
  BY DEF DiffInv, Unsupported, SameFiles, SameUser, Paths, Workdir
<1>3. answer = "up_to_date" => SameFiles /\ SameUser
  BY DEF DiffInv, DiffIsEmpty
<1> QED BY <1>1, <1>2, <1>3, MergedRules, SharedAsMeant DEF MergeTells

\* A merge leaves what was applied, never alters a rule that stays, and never has an
\* endpoint in two rules that share it in neither document, but when both are changed
\* (services/policy_merge_ops.py compute_merge_operations).
THEOREM MergesAreTold == DiffSpec => []MergeTells
<1>1. DiffInv => MergeTells
  BY MergesTell
<1>2. DiffInit => DiffInv
  BY DiffInits
<1>3. DiffInv /\ [DiffNext]_diffVars => DiffInv'
  BY DiffSteps
<1> QED BY <1>1, <1>2, <1>3, PTL DEF DiffSpec

=============================================================================
