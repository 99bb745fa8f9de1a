----------------------------- MODULE ServerProofs -----------------------------
(***************************************************************************)
(* Theorems about what the server keeps for itself: the chain of the audit *)
(* log and its verification (Audit), the things that are meant to be used  *)
(* once (SignIn), users and their sessions (Accounts), roles and tenants   *)
(* (Access), the jobs of local gateways (LocalGateways) and what is told   *)
(* of the fleet (Notices), for any calls, users, groups, gateways and      *)
(* days.  None rests on a bound of the runs.                               *)
(***************************************************************************)
EXTENDS Audit, SignIn, Accounts, Access, LocalGateways, Notices, FiniteSetTheorems, WellFoundedInduction, TLAPS

\* A set of naturals has a least element.
LEMMA Least == ASSUME NEW T \in SUBSET Nat, T # {} PROVE \E m \in T : \A x \in T : m <= x
<1> DEFINE R == OpToRel(<, Nat)
<1>1. \A i, j \in Nat : <<i, j>> \in R <=> i < j
  BY DEF OpToRel
<1>2. IsWellFoundedOn(R, Nat)
  BY NatLessThanWellFounded
<1> HIDE DEF R
<1>3. PICK m \in T : \A x \in T : ~ (<<x, m>> \in R)
  BY <1>2, WFMin
<1>4. \A x \in T : ~ (x < m)
  BY <1>1, <1>3
<1> QED BY <1>4

\* A bounded set of naturals has a greatest element.
LEMMA Greatest ==
  ASSUME NEW T \in SUBSET Nat, T # {}, NEW n \in Nat, \A x \in T : x <= n
  PROVE  \E m \in T : \A x \in T : x <= m
<1> DEFINE U == {n - x : x \in T}
<1>1. U \in SUBSET Nat /\ U # {}
  <2>1. \A x \in T : n - x \in Nat
    OBVIOUS
  <2>2. U \subseteq Nat
    BY <2>1
  <2>3. U # {}
    OBVIOUS
  <2> QED BY <2>2, <2>3
<1>2. PICK y \in U : \A z \in U : y <= z
  BY <1>1, Least
<1>3. PICK m \in T : y = n - m
  OBVIOUS
<1>4. ASSUME NEW x \in T PROVE x <= m
  <2>1. n - x \in U
    OBVIOUS
  <2>2. n - m <= n - x
    BY <1>2, <1>3, <2>1
  <2> QED BY <2>2
<1> QED BY <1>4

-----------------------------------------------------------------------------
(* The audit log. *)

\* The last entry of some rows.
LastOf(e, rows) == e \in rows /\ \A f \in rows : f.id <= e.id

\* One call at a time is between its read and its write.
Locked ==
  /\ \A c \in Calls : call[c].pc = "read" <=> c \in chain
  /\ \A c, d \in chain : c = d

\* Later entries have later ids and no earlier times.
Ordered ==
  \A e, f \in entries :
    /\ e.id > 0 /\ e.time <= clock
    /\ e.id = f.id => e = f
    /\ e.id <= f.id => e.time <= f.time

\* What a clean-up has selected is a beginning of the log.
StaleFirst ==
  /\ stale \subseteq entries
  /\ \A e \in stale, f \in entries : f.id <= e.id => f \in stale

\* The call that holds the lock has read the hash of the last entry, whatever the
\* clean-up has removed since.
HashRead == \A c \in Calls : call[c].pc = "read" => \A e \in entries : LastOf(e, entries) => call[c].prev = e.hash

\* The verification has come to an entry that is there, or has not begun, or the
\* clean-up has come in between.
Verified ==
  /\ verify.pc = "idle" => verify.last = 0 /\ verify.prev = NoHash /\ ~ verify.alarm
  /\ verify.pc = "reading" => ~ verify.alarm
  /\ verify.pc = "reading" /\ ~ verify.cleaned =>
       \/ verify.prev = NoHash /\ verify.last = 0
       \/ \E e \in entries : e.id = verify.last /\ e.hash = verify.prev

Filled ==
  /\ IsFiniteSet(entries)
  /\ entries = {} \/ \E e \in entries : LastOf(e, entries)

ChainInv == AuditTypeOK /\ Filled /\ Locked /\ Ordered /\ StaleFirst /\ HashRead /\ ChainWhole

LEMMA LastKnown ==
  ASSUME AuditTypeOK, Ordered, NEW e, LastOf(e, entries)
  PROVE  LastId = e.id /\ LastHash = e.hash
<1>1. e.id \in Ids /\ \A i \in Ids : e.id >= i
  BY DEF Ids, LastOf, AuditTypeOK, Entry
<1>2. \A i \in Ids : i \in Nat
  BY DEF Ids, AuditTypeOK, Entry
<1>3. Max(Ids) = e.id
  <2>1. \A m \in Ids : (\A i \in Ids : m >= i) => m = e.id
    BY <1>1, <1>2
  <2>2. Max(Ids) \in Ids /\ \A i \in Ids : Max(Ids) >= i
    BY <1>1 DEF Max
  <2> QED BY <2>1, <2>2
<1>4. entries # {}
  BY DEF LastOf
<1>5. LastId = e.id
  BY <1>3, <1>4 DEF LastId
<1>6. (CHOOSE f \in entries : f.id = LastId) = e
  BY <1>5 DEF LastOf, Ordered
<1> QED BY <1>4, <1>5, <1>6 DEF LastHash

LEMMA ChainInit == AuditInit => ChainInv
<1> SUFFICES ASSUME AuditInit PROVE ChainInv
  OBVIOUS
<1>1. AuditTypeOK
  BY TimeAssumption DEF AuditInit, AuditTypeOK, Verify, NoHash
<1> QED BY <1>1, FS_EmptySet DEF AuditInit, ChainInv, Filled, Locked, Ordered, StaleFirst, HashRead, ChainWhole

\* Steps that touch neither the rows nor the calls.
LEMMA ChainStays ==
  ASSUME ChainInv, AuditTypeOK', UNCHANGED <<entries, call, chain, stale>>, clock' >= clock
  PROVE  ChainInv'
<1>1. Ordered'
  <2>1. \A e \in entries : e.time \in Nat /\ clock \in Nat /\ clock' \in Nat
    BY TimeAssumption DEF ChainInv, AuditTypeOK, Entry
  <2> QED BY <2>1 DEF ChainInv, Ordered
<1> QED BY <1>1 DEF ChainInv, Filled, Locked, StaleFirst, HashRead, LastOf, ChainWhole

LEMMA ChainReads == ASSUME ChainInv, NEW c \in Calls, LogRead(c) PROVE ChainInv'
<1> USE DEF ChainInv
<1>1. LastHash \in Calls \union {NoHash}
  <2>1. CASE entries = {}
    BY <2>1 DEF LastHash
  <2>2. ASSUME NEW e \in entries, LastOf(e, entries) PROVE LastHash \in Calls \union {NoHash}
    BY <2>2, LastKnown DEF AuditTypeOK, Entry
  <2> QED BY <2>1, <2>2 DEF Filled
<1>2. /\ call'[c].pc = "read" /\ call'[c].prev = LastHash
      /\ \A d \in Calls : d # c => call'[d] = call[d]
      /\ call' \in [Calls -> [pc: {"new", "read", "written", "failed"}, prev: Calls \union {NoHash}]]
  BY <1>1 DEF LogRead, AuditTypeOK
<1>3. chain = {} /\ chain' = {c} /\ UNCHANGED <<entries, stale, verify, clock, afaults>>
  BY DEF LogRead, LockFree
<1>4. AuditTypeOK'
  BY <1>2, <1>3 DEF AuditTypeOK
<1>5. Locked'
  BY <1>2, <1>3 DEF Locked
<1>6. HashRead'
  BY <1>2, <1>3, LastKnown DEF HashRead, LastOf
<1> QED BY <1>3, <1>4, <1>5, <1>6 DEF Filled, LastOf, Ordered, StaleFirst, ChainWhole

\* The call gives up the lock, without a row.
LEMMA ChainFails == ASSUME ChainInv, NEW c \in Calls, LogFails(c) PROVE ChainInv'
<1> USE DEF ChainInv
<1>1. /\ call'[c].pc = "failed" /\ \A d \in Calls : d # c => call'[d] = call[d]
      /\ call' \in [Calls -> [pc: {"new", "read", "written", "failed"}, prev: Calls \union {NoHash}]]
  BY DEF LogFails, AuditTypeOK
<1>2. chain' = chain \ {c} /\ UNCHANGED <<entries, stale, verify, clock>> /\ afaults' \in 0 .. MaxFaults
  BY TimeAssumption DEF LogFails, AuditTypeOK
<1>3. AuditTypeOK'
  BY <1>1, <1>2 DEF AuditTypeOK
<1>4. Locked' /\ HashRead'
  BY <1>1, <1>2 DEF Locked, HashRead, LastOf
<1> QED BY <1>2, <1>3, <1>4 DEF Filled, LastOf, Ordered, StaleFirst, ChainWhole

\* A row is added after the last one, and names its hash.
LEMMA ChainWrites == ASSUME ChainInv, NEW c \in Calls, LogWrite(c) PROVE ChainInv'
<1> USE DEF ChainInv
<1> DEFINE n == [id |-> LastId + 1, time |-> clock, prev |-> call[c].prev, hash |-> c]
<1>1. LastId \in Nat /\ \A e \in entries : e.id <= LastId
  <2>1. CASE entries = {}
    BY <2>1 DEF LastId
  <2>2. ASSUME NEW e \in entries, LastOf(e, entries) PROVE LastId \in Nat /\ \A f \in entries : f.id <= LastId
    BY <2>2, LastKnown DEF AuditTypeOK, Entry, LastOf
  <2> QED BY <2>1, <2>2 DEF Filled
<1>2. n \in Entry /\ n.id = LastId + 1 /\ n.time = clock /\ n.prev = call[c].prev
  BY <1>1 DEF Entry, AuditTypeOK
<1>3. /\ call'[c].pc = "written" /\ \A d \in Calls : d # c => call'[d] = call[d]
      /\ call' \in [Calls -> [pc: {"new", "read", "written", "failed"}, prev: Calls \union {NoHash}]]
  BY DEF LogWrite, AuditTypeOK
<1>4. /\ entries' = entries \union {n} /\ chain' = chain \ {c} /\ call[c].pc = "read"
      /\ UNCHANGED <<stale, verify, clock, afaults>>
  BY DEF LogWrite
<1> HIDE DEF n
<1>5. \A e \in entries : e.id < n.id /\ e.id \in Nat /\ e.time \in Nat /\ n.id \in Nat
  BY <1>1, <1>2 DEF AuditTypeOK, Entry
<1>6. AuditTypeOK'
  BY <1>2, <1>3, <1>4 DEF AuditTypeOK
<1>7. Filled'
  <2>1. IsFiniteSet(entries')
    BY <1>4, FS_AddElement DEF Filled
  <2>2. LastOf(n, entries')
    BY <1>2, <1>4, <1>5 DEF LastOf, Entry
  <2> QED BY <1>4, <2>1, <2>2 DEF Filled
<1>8. Locked'
  BY <1>3, <1>4 DEF Locked
<1>9. Ordered'
  <2>1. n.id > 0 /\ n.time <= clock' /\ clock \in Nat
    BY <1>1, <1>2, <1>4, TimeAssumption DEF AuditTypeOK
  <2>2. \A e \in entries : /\ e.id > 0 /\ e.time <= clock'
                           /\ e.id # n.id /\ ~ (n.id <= e.id) /\ e.time <= n.time
    BY <1>2, <1>4, <1>5, <2>1 DEF Ordered
  <2>3. ASSUME NEW e \in entries', NEW f \in entries'
        PROVE  /\ e.id > 0 /\ e.time <= clock'
               /\ e.id = f.id => e = f
               /\ e.id <= f.id => e.time <= f.time
    <3>1. CASE e \in entries /\ f \in entries
      BY <1>4, <3>1 DEF Ordered
    <3>2. CASE e = n \/ f = n
      BY <1>2, <1>4, <1>5, <2>1, <2>2, <2>3, <3>2
    <3> QED BY <1>4, <2>3, <3>1, <3>2
  <2> QED BY <2>3 DEF Ordered
<1>10. StaleFirst'
  <2>1. \A e \in stale : ~ (n.id <= e.id)
    BY <1>5 DEF StaleFirst
  <2> QED BY <1>4, <2>1 DEF StaleFirst
<1>11. HashRead'
  <2>1. \A d \in Calls : call'[d].pc # "read"
    BY <1>3, <1>4 DEF Locked
  <2> QED BY <2>1 DEF HashRead
<1>12. ChainWhole'
  <2> SUFFICES ASSUME NEW e \in entries', NEW f \in entries', e.id < f.id,
                      \A g \in entries' : ~ (e.id < g.id /\ g.id < f.id)
               PROVE  f.prev = e.hash
    BY DEF ChainWhole
  <2>1. e \in entries
    BY <1>4, <1>5, <1>2 DEF Entry
  <2>2. CASE f \in entries
    BY <1>4, <2>1, <2>2 DEF ChainWhole
  <2>3. CASE f = n
    <3>1. LastOf(e, entries)
      <4> SUFFICES ASSUME NEW g \in entries PROVE g.id <= e.id
        BY <2>1 DEF LastOf
      <4> QED BY <1>4, <1>5, <2>1, <2>3
    <3> QED BY <1>2, <1>4, <2>1, <2>3, <3>1 DEF HashRead
  <2> QED BY <1>4, <2>2, <2>3
<1> QED BY <1>6, <1>7, <1>8, <1>9, <1>10, <1>11, <1>12

\* The clean-up selects a beginning of the log.
LEMMA ChainSelects == ASSUME ChainInv, CleanupReads PROVE ChainInv'
<1> USE DEF ChainInv
<1>1. stale' = Expired /\ UNCHANGED <<entries, call, chain, verify, clock, afaults>>
  BY DEF CleanupReads
<1>2. StaleFirst'
  <2>1. ASSUME NEW e \in Expired, NEW f \in entries, f.id <= e.id PROVE f \in Expired
    <3>1. e \in entries /\ e.time \in Nat /\ f.time \in Nat /\ clock \in Nat /\ e.time + Retention < clock
      BY TimeAssumption DEF Expired, AuditTypeOK, Entry
    <3>2. f.time <= e.time
      BY <2>1, <3>1 DEF Ordered
    <3>3. f.time + Retention < clock
      BY <3>1, <3>2, TimeAssumption
    <3> QED BY <3>3 DEF Expired
  <2> QED BY <1>1, <2>1 DEF StaleFirst, Expired
<1>3. AuditTypeOK'
  BY <1>1 DEF AuditTypeOK, Expired
<1> QED BY <1>1, <1>2, <1>3 DEF Filled, LastOf, Locked, Ordered, HashRead, ChainWhole

\* It removes it: what remains is the end of the log, and chained as before.
LEMMA ChainDrops == ASSUME ChainInv, AuditTypeOK', CleanupDeletes PROVE ChainInv'
<1> USE DEF ChainInv
<1>1. entries' = entries \ stale /\ stale' = {} /\ UNCHANGED <<call, chain, clock, afaults>>
  BY DEF CleanupDeletes
<1>2. \A e \in entries : e.id \in Nat
  BY DEF AuditTypeOK, Entry
<1>3. \A e, f \in entries : e \in entries' /\ e.id <= f.id => f \in entries'
  BY <1>1 DEF StaleFirst
<1>4. \A e \in entries : LastOf(e, entries) /\ entries' # {} => LastOf(e, entries')
  BY <1>1, <1>3 DEF LastOf
<1>5. Filled'
  <2>1. IsFiniteSet(entries')
    BY <1>1, FS_Subset DEF Filled
  <2>2. ASSUME entries' # {} PROVE \E e \in entries' : LastOf(e, entries')
    <3>1. PICK e \in entries : LastOf(e, entries)
      BY <1>1, <2>2 DEF Filled
    <3>2. LastOf(e, entries')
      BY <1>4, <2>2, <3>1
    <3> QED BY <3>2 DEF LastOf
  <2> QED BY <2>1, <2>2 DEF Filled
<1>6. HashRead'
  <2>1. ASSUME NEW e \in entries', LastOf(e, entries') PROVE LastOf(e, entries)
    <3>1. PICK m \in entries : LastOf(m, entries)
      BY <1>1 DEF Filled
    <3>2. LastOf(m, entries')
      BY <1>4, <3>1
    <3>3. m.id = e.id
      BY <1>1, <1>2, <2>1, <3>2 DEF LastOf
    <3> QED BY <1>1, <3>1, <3>3 DEF Ordered
  <2> QED BY <1>1, <2>1 DEF HashRead
<1>7. ChainWhole'
  <2> SUFFICES ASSUME NEW e \in entries', NEW f \in entries', e.id < f.id,
                      \A g \in entries' : ~ (e.id < g.id /\ g.id < f.id)
               PROVE  f.prev = e.hash
    BY DEF ChainWhole
  <2>1. ASSUME NEW g \in entries, e.id < g.id PROVE g \in entries'
    BY <1>1, <1>2, <1>3, <2>1
  <2> QED BY <1>1, <2>1 DEF ChainWhole
<1>8. Ordered' /\ Locked' /\ StaleFirst'
  BY <1>1 DEF Ordered, Locked, StaleFirst
<1> QED BY <1>5, <1>6, <1>7, <1>8

-----------------------------------------------------------------------------
(* Its verification. *)

AlarmInv == Verified /\ AlarmsTell

\* Some rows that are not none have a last one.
LEMMA RowsEnd ==
  ASSUME ChainInv, NEW rows \in SUBSET entries, rows # {}
  PROVE  \E e \in rows : \A f \in rows : f.id <= e.id
<1> DEFINE T == {e.id : e \in rows}
<1>1. PICK m \in entries : LastOf(m, entries)
  BY DEF ChainInv, Filled
<1>2. T \in SUBSET Nat /\ m.id \in Nat /\ \A x \in T : x <= m.id
  BY <1>1 DEF ChainInv, AuditTypeOK, Entry, LastOf
<1>3. T # {}
  OBVIOUS
<1>4. \E x \in T : \A y \in T : y <= x
  <2> HIDE DEF T
  <2> QED BY <1>2, <1>3, Greatest
<1> QED BY <1>4

\* A batch has no gaps.
LEMMA BatchClosed ==
  ASSUME ChainInv, NEW e \in NextRows, NEW f \in entries, verify.last < f.id, f.id <= e.id
  PROVE  f \in NextRows
<1> DEFINE To(x) == {g \in entries : verify.last < g.id /\ g.id < x.id}
<1>1. e \in entries /\ e.id \in Nat /\ f.id \in Nat /\ verify.last \in Nat /\ \A g \in entries : g.id \in Nat
  BY DEF NextRows, ChainInv, AuditTypeOK, Entry, Verify
<1>2. IsFiniteSet(entries)
  BY DEF ChainInv, Filled
<1>3. To(f) \subseteq To(e) /\ To(e) \subseteq entries
  BY <1>1
<1>4. IsFiniteSet(To(e)) /\ IsFiniteSet(To(f)) /\ Cardinality(To(f)) <= Cardinality(To(e))
  BY <1>2, <1>3, FS_Subset
<1>5. Cardinality(To(e)) \in Nat /\ Cardinality(To(f)) \in Nat
  BY <1>4, FS_CardinalityType
<1>6. Cardinality(To(e)) < Batch
  BY DEF NextRows
<1>7. Cardinality(To(f)) < Batch
  <2> HIDE DEF To
  <2> QED BY <1>4, <1>5, <1>6, BatchAssumption
<1> QED BY <1>1, <1>7 DEF NextRows

\* In a log that nothing is removed from no batch breaks.
LEMMA BatchWhole ==
  ASSUME ChainInv, Verified, verify.pc = "reading", ~ verify.cleaned, NEW e \in NextRows
  PROVE  ~ Breaks(e, NextRows)
<1> DEFINE rows == NextRows
           earlier == {f \in rows : f.id < e.id}
<1>1. /\ rows \subseteq entries /\ e \in entries /\ verify.last \in Nat /\ verify.last < e.id
      /\ \A g \in entries : g.id \in Nat
  BY DEF NextRows, ChainInv, AuditTypeOK, Entry, Verify
<1>2. ASSUME NEW p \in entries, p.id < e.id, verify.last <= p.id, \A g \in earlier : g.id <= p.id
      PROVE  e.prev = p.hash
  <2>1. ASSUME NEW g \in entries, p.id < g.id, g.id < e.id PROVE FALSE
    <3>1. verify.last < g.id /\ g.id <= e.id
      BY <1>1, <1>2, <2>1
    <3>2. g \in earlier
      BY <2>1, <3>1, BatchClosed
    <3> QED BY <1>1, <1>2, <2>1, <3>2
  <2> QED BY <1>1, <1>2, <2>1 DEF ChainInv, ChainWhole
<1>3. CASE earlier = {}
  <2>1. Before(e, rows) = verify.prev
    BY <1>3 DEF Before
  <2>2. CASE verify.prev = NoHash
    BY <2>1, <2>2 DEF Breaks
  <2>3. ASSUME NEW x \in entries, x.id = verify.last, x.hash = verify.prev PROVE e.prev = verify.prev
    BY <1>1, <1>2, <1>3, <2>3
  <2> QED BY <2>1, <2>2, <2>3 DEF Verified, Breaks
<1>4. CASE earlier # {}
  <2> DEFINE p == CHOOSE f \in earlier : \A g \in earlier : g.id <= f.id
  <2>1. Before(e, rows) = p.hash
    BY <1>4 DEF Before
  <2>2. p \in earlier /\ \A g \in earlier : g.id <= p.id
    <3>1. earlier \in SUBSET entries
      BY <1>1
    <3>2. \E f \in earlier : \A g \in earlier : g.id <= f.id
      <4> HIDE DEF earlier
      <4> QED BY <1>4, <3>1, RowsEnd
    <3> QED BY <3>2
  <2>3. p \in entries /\ p.id < e.id /\ verify.last <= p.id
    BY <1>1, <2>2 DEF NextRows
  <2> HIDE DEF p
  <2>4. e.prev = p.hash
    BY <1>2, <2>2, <2>3
  <2> QED BY <2>1, <2>4 DEF Breaks
<1> QED BY <1>3, <1>4

LEMMA VerifyReads == ASSUME ChainInv, AlarmInv, VerifyBatch PROVE AuditTypeOK' /\ AlarmInv'
<1>1. /\ verify.pc = "reading" /\ ~ verify.alarm /\ verify \in Verify
      /\ UNCHANGED <<entries, call, chain, stale, clock, afaults>>
  BY DEF VerifyBatch, AlarmInv, Verified, ChainInv, AuditTypeOK
<1>2. CASE NextRows = {}
  <2>1. verify' = [verify EXCEPT !.pc = "done"]
    BY <1>2 DEF VerifyBatch
  <2>2. /\ verify' \in Verify /\ verify'.pc = "done" /\ verify'.alarm = verify.alarm
        /\ verify'.cleaned = verify.cleaned
    BY <1>1, <2>1 DEF Verify
  <2> QED BY <1>1, <2>2 DEF ChainInv, AuditTypeOK, AlarmInv, Verified, AlarmsTell
<1>3. CASE NextRows # {}
  <2> DEFINE rows  == NextRows
             final == CHOOSE e \in rows : \A f \in rows : f.id <= e.id
             bad   == \E e \in rows : Breaks(e, rows)
  <2>1. verify' = [verify EXCEPT !.last = final.id, !.prev = final.hash, !.alarm = bad,
                                 !.pc = IF bad THEN "done" ELSE "reading"]
    BY <1>3 DEF VerifyBatch
  <2>2. final \in entries
    <3>1. rows \in SUBSET entries
      BY DEF NextRows
    <3>2. \E e \in rows : \A f \in rows : f.id <= e.id
      <4> HIDE DEF rows
      <4> QED BY <1>3, <3>1, RowsEnd DEF rows
    <3> QED BY <3>1, <3>2
  <2>3. bad => verify.cleaned
    BY <1>1, BatchWhole DEF AlarmInv
  <2>4. bad \in BOOLEAN /\ final.id \in Nat /\ final.hash \in Calls
    BY <2>2 DEF ChainInv, AuditTypeOK, Entry
  <2> HIDE DEF final, bad, rows
  <2>5. CASE bad
    <3>1. verify' = [verify EXCEPT !.last = final.id, !.prev = final.hash, !.alarm = TRUE, !.pc = "done"]
      BY <2>1, <2>4, <2>5
    <3>2. verify' \in Verify /\ verify'.pc = "done" /\ verify'.cleaned = verify.cleaned
      BY <1>1, <2>4, <3>1 DEF Verify
    <3> QED BY <1>1, <2>3, <2>5, <3>2 DEF ChainInv, AuditTypeOK, AlarmInv, Verified, AlarmsTell
  <2>6. CASE ~ bad
    <3>1. verify' = [verify EXCEPT !.last = final.id, !.prev = final.hash, !.alarm = FALSE, !.pc = "reading"]
      BY <2>1, <2>4, <2>6
    <3>2. /\ verify' \in Verify /\ verify'.pc = "reading" /\ ~ verify'.alarm
          /\ verify'.last = final.id /\ verify'.prev = final.hash
      BY <1>1, <2>4, <3>1 DEF Verify
    <3> QED BY <1>1, <2>2, <3>2 DEF ChainInv, AuditTypeOK, AlarmInv, Verified, AlarmsTell
  <2> QED BY <2>5, <2>6
<1> QED BY <1>2, <1>3

LEMMA VerifyBegins == ASSUME ChainInv, AlarmInv, VerifyStarts PROVE AuditTypeOK' /\ AlarmInv'
<1>1. /\ verify \in Verify /\ verify' = [verify EXCEPT !.pc = "reading"] /\ verify.pc = "idle"
      /\ UNCHANGED <<entries, call, chain, stale, clock, afaults>>
  BY DEF VerifyStarts, ChainInv, AuditTypeOK
<1>2. /\ verify' \in Verify /\ verify'.pc = "reading" /\ verify'.alarm = verify.alarm
      /\ verify'.last = verify.last /\ verify'.prev = verify.prev
  BY <1>1 DEF Verify
<1> QED BY <1>1, <1>2 DEF ChainInv, AuditTypeOK, AlarmInv, Verified, AlarmsTell

\* Rows are removed: a verification that is under way is told.
LEMMA VerifyWarned == ASSUME ChainInv, AlarmInv, CleanupDeletes PROVE AuditTypeOK' /\ AlarmInv'
<1>1. /\ verify \in Verify /\ verify' = [verify EXCEPT !.cleaned = @ \/ verify.pc = "reading"]
      /\ entries' \subseteq Entry /\ stale' \subseteq Entry /\ UNCHANGED <<call, chain, clock, afaults>>
  BY DEF CleanupDeletes, ChainInv, AuditTypeOK
<1>2. CASE verify.pc = "reading"
  <2>1. verify' = [verify EXCEPT !.cleaned = TRUE]
    BY <1>1, <1>2
  <2>2. verify' \in Verify /\ verify'.cleaned /\ verify'.pc = verify.pc /\ verify'.alarm = verify.alarm
    BY <1>1, <2>1 DEF Verify
  <2> QED BY <1>1, <1>2, <2>2 DEF ChainInv, AuditTypeOK, AlarmInv, Verified, AlarmsTell
<1>3. CASE verify.pc # "reading"
  <2>1. verify' = [verify EXCEPT !.cleaned = verify.cleaned]
    <3>1. verify.cleaned \in BOOLEAN
      BY <1>1 DEF Verify
    <3> QED BY <1>1, <1>3, <3>1
  <2>2. verify' = verify
    BY <1>1, <2>1 DEF Verify
  <2> QED BY <1>1, <1>3, <2>2 DEF ChainInv, AuditTypeOK, AlarmInv, Verified, AlarmsTell
<1> QED BY <1>2, <1>3

LEMMA AlarmStays ==
  ASSUME AlarmInv, verify' = verify, entries \subseteq entries'
  PROVE  AlarmInv'
BY DEF AlarmInv, Verified, AlarmsTell

LEMMA AuditStep == ChainInv /\ AlarmInv /\ [AuditNext]_auditVars => ChainInv' /\ AlarmInv'
<1> SUFFICES ASSUME ChainInv, AlarmInv, [AuditNext]_auditVars PROVE ChainInv' /\ AlarmInv'
  OBVIOUS
<1>1. ASSUME NEW c \in Calls, LogRead(c) \/ LogWrite(c) \/ LogFails(c) PROVE ChainInv' /\ AlarmInv'
  BY <1>1, ChainReads, ChainWrites, ChainFails, AlarmStays DEF LogRead, LogWrite, LogFails
<1>2. CASE CleanupReads
  BY <1>2, ChainSelects, AlarmStays DEF CleanupReads
<1>3. CASE CleanupDeletes
  BY <1>3, VerifyWarned, ChainDrops
<1>4. clock' = clock => clock' >= clock
  BY TimeAssumption DEF ChainInv, AuditTypeOK
<1>5. CASE VerifyStarts
  BY <1>4, <1>5, VerifyBegins, ChainStays DEF VerifyStarts
<1>6. CASE VerifyBatch
  BY <1>4, <1>6, VerifyReads, ChainStays DEF VerifyBatch
<1>7. CASE AuditTick
  <2>1. AuditTypeOK' /\ clock' >= clock
    BY <1>7, TimeAssumption DEF AuditTick, ChainInv, AuditTypeOK
  <2> QED BY <1>7, <2>1, ChainStays, AlarmStays DEF AuditTick
<1>8. CASE UNCHANGED auditVars
  <2>1. AuditTypeOK'
    BY <1>8 DEF auditVars, ChainInv, AuditTypeOK
  <2> QED BY <1>4, <1>8, <2>1, ChainStays, AlarmStays DEF auditVars
<1> QED BY <1>1, <1>2, <1>3, <1>5, <1>6, <1>7, <1>8 DEF AuditNext

LEMMA AlarmInit == AuditInit => AlarmInv
BY DEF AuditInit, AlarmInv, Verified, AlarmsTell

\* Every variable of the audit log keeps its type.
THEOREM AuditTyped == AuditSpec => []AuditTypeOK
<1>1. ChainInv => AuditTypeOK
  BY DEF ChainInv
<1> QED BY <1>1, ChainInit, AlarmInit, AuditStep, PTL DEF AuditSpec

\* However writers, failures and the clean-up interleave, each row names the hash
\* of the row before it.
THEOREM ChainIsWhole == AuditSpec => []ChainWhole
<1>1. ChainInv => ChainWhole
  BY DEF ChainInv
<1> QED BY <1>1, ChainInit, AlarmInit, AuditStep, PTL DEF AuditSpec

\* A verification, whatever its batches, reports a break only when rows were
\* removed while it read.
THEOREM AlarmsAreTrue == AuditSpec => []AlarmsTell
<1>1. AlarmInv => AlarmsTell
  BY DEF AlarmInv
<1> QED BY <1>1, ChainInit, AlarmInit, AuditStep, PTL DEF AuditSpec

-----------------------------------------------------------------------------
(* The code of a device: the session is handed out by the update that      *)
(* consumes the code, so a consumed code and a session are one.            *)

LinkRec == [claimed: BOOLEAN, approved: BOOLEAN, denied: BOOLEAN, consumed: BOOLEAN, expired: BOOLEAN]

LinkInv ==
  /\ link \in LinkRec
  /\ link.approved => link.claimed
  /\ link.consumed => link.approved
  /\ handed = IF link.consumed THEN 1 ELSE 0

LEMMA LinkBegins == LinkInit => LinkInv
BY DEF LinkInit, LinkInv, LinkRec

LEMMA LinkStep == LinkInv /\ [LinkNext]_linkVars => LinkInv'
<1> SUFFICES ASSUME LinkInv, [LinkNext]_linkVars PROVE LinkInv'
  OBVIOUS
<1>1. CASE UNCHANGED <<link, handed>>
  BY <1>1 DEF LinkInv
<1>2. ASSUME NEW p \in Phones, PollClaims(p) PROVE LinkInv'
  BY <1>2 DEF PollClaims, LinkInv, LinkRec
<1>3. ASSUME NEW p \in Phones, PollConsumes(p) PROVE LinkInv'
  <2>1. CASE link' = link /\ handed' = handed
    BY <1>1, <2>1
  <2>2. CASE Consumable /\ link' = [link EXCEPT !.consumed = TRUE] /\ handed' = handed + 1
    <3>1. ~ link.consumed /\ link.approved
      BY <2>2 DEF Consumable
    <3>2. handed' = 1
      BY <2>2, <3>1 DEF LinkInv
    <3> QED BY <2>2, <3>1, <3>2 DEF LinkInv, LinkRec
  <2> QED BY <1>3, <2>1, <2>2 DEF PollConsumes
<1>4. CASE LinkApproved \/ LinkDenied \/ LinkExpires
  BY <1>4 DEF LinkApproved, LinkDenied, LinkExpires, LinkInv, LinkRec
<1>5. ASSUME NEW p \in Phones, PollReads(p) PROVE LinkInv'
  BY <1>1, <1>5 DEF PollReads
<1> QED BY <1>1, <1>2, <1>3, <1>4, <1>5 DEF LinkNext, linkVars

LEMMA LinkTells == LinkInv => LinkOnce
BY DEF LinkInv, LinkOnce

-----------------------------------------------------------------------------
(* The challenge of a passkey: it is in the store, or with one request, or *)
(* used, or none of these; never two of them.                              *)

LoginRec == {Waiting} \union [pc: {"register", "read", "write"}, challenge: Challenges]

With(l, c) == logins[l] # Waiting /\ logins[l].challenge = c

PasskeyInv ==
  /\ stored \subseteq Challenges
  /\ logins \in [Logins -> LoginRec]
  /\ uses \in [Challenges -> {0, 1}]
  /\ \A c \in stored : uses[c] = 0 /\ \A l \in Logins : ~ With(l, c)
  /\ \A c \in Challenges, l \in Logins : With(l, c) =>
       uses[c] = 0 /\ \A k \in Logins : With(k, c) => k = l

LEMMA PasskeyBegins == PasskeyInit => PasskeyInv
BY DEF PasskeyInit, PasskeyInv, LoginRec, With

\* A request ends, and its challenge was answered or not.
LEMMA PasskeyEnds ==
  ASSUME PasskeyInv, NEW l \in Logins, logins[l] # Waiting, LoginEnds(l), stored' = stored,
         Used(l) \/ uses' = uses
  PROVE  PasskeyInv'
<1> DEFINE c == logins[l].challenge
<1>1. c \in Challenges /\ With(l, c)
  BY DEF PasskeyInv, LoginRec, With
<1>2. uses' \in [Challenges -> {0, 1}] /\ \A d \in Challenges : d # c => uses'[d] = uses[d]
  BY <1>1 DEF PasskeyInv, Used
<1>3. /\ logins' \in [Logins -> LoginRec] /\ logins'[l] = Waiting
      /\ \A k \in Logins : k # l => logins'[k] = logins[k]
  BY DEF PasskeyInv, LoginEnds, LoginRec
<1>4. \A k \in Logins, d \in Challenges : With(k, d)' => With(k, d) /\ k # l
  BY <1>3 DEF With
<1>5. \A d \in stored : d \in Challenges /\ d # c
  BY <1>1 DEF PasskeyInv
<1>6. \A k \in Logins, d \in Challenges : With(k, d)' => d # c
  BY <1>1, <1>4 DEF PasskeyInv
<1> HIDE DEF c
<1>7. \A d \in stored' : uses'[d] = 0 /\ \A k \in Logins : ~ With(k, d)'
  BY <1>2, <1>4, <1>5 DEF PasskeyInv
<1>8. \A d \in Challenges, k \in Logins : With(k, d)' =>
        uses'[d] = 0 /\ \A j \in Logins : With(j, d)' => j = k
  BY <1>2, <1>4, <1>6 DEF PasskeyInv
<1> QED BY <1>2, <1>3, <1>7, <1>8 DEF PasskeyInv

LEMMA PasskeyStep == PasskeyInv /\ [PasskeyNext]_passkeyVars => PasskeyInv'
<1> SUFFICES ASSUME PasskeyInv, [PasskeyNext]_passkeyVars PROVE PasskeyInv'
  OBVIOUS
<1>1. CASE UNCHANGED <<stored, logins, uses>>
  BY <1>1 DEF PasskeyInv, With
<1>2. ASSUME NEW c \in Challenges, StoreChallenge(c) PROVE PasskeyInv'
  BY <1>2 DEF StoreChallenge, PasskeyInv, With
<1>3. ASSUME NEW l \in Logins, NEW c \in Challenges, PopChallenge(l, c) PROVE PasskeyInv'
  <2>1. PICK next \in {"register", "read", "idle"} :
          logins' = [logins EXCEPT ![l] = IF next = "idle" THEN Waiting ELSE [pc |-> next, challenge |-> c]]
    BY <1>3 DEF PopChallenge
  <2> DEFINE v == IF next = "idle" THEN Waiting ELSE [pc |-> next, challenge |-> c]
  <2>2. v \in LoginRec /\ (v # Waiting => v.challenge = c)
    BY DEF LoginRec
  <2> HIDE DEF v
  <2>3. /\ logins' \in [Logins -> LoginRec] /\ logins'[l] = v
        /\ \A k \in Logins : k # l => logins'[k] = logins[k]
    BY <2>1, <2>2 DEF PasskeyInv, v
  <2>4. stored' = stored \ {c} /\ uses' = uses /\ c \in stored /\ logins[l] = Waiting
    BY <1>3 DEF PopChallenge, Popped
  <2>5. \A k \in Logins, d \in Challenges : With(k, d)' => With(k, d) \/ (k = l /\ d = c)
    BY <2>2, <2>3 DEF With
  <2>6. \A k \in Logins : ~ With(k, c)
    BY <2>4 DEF PasskeyInv
  <2>7. \A d \in stored' : uses'[d] = 0 /\ \A k \in Logins : ~ With(k, d)'
    BY <2>4, <2>5 DEF PasskeyInv
  <2>8. \A d \in Challenges, k \in Logins : With(k, d)' =>
          uses'[d] = 0 /\ \A j \in Logins : With(j, d)' => j = k
    BY <2>4, <2>5, <2>6 DEF PasskeyInv
  <2> QED BY <2>3, <2>4, <2>7, <2>8 DEF PasskeyInv
<1>4. ASSUME NEW l \in Logins, Registers(l) \/ WritesCount(l) PROVE PasskeyInv'
  <2>1. logins[l] # Waiting
    BY <1>4 DEF Registers, WritesCount, Waiting
  <2> QED BY <1>4, <2>1, PasskeyEnds DEF Registers, WritesCount
<1>5. ASSUME NEW l \in Logins, ReadsPasskey(l) PROVE PasskeyInv'
  <2>1. logins[l] # Waiting
    BY <1>5 DEF ReadsPasskey, Waiting
  <2>2. CASE LoginEnds(l)
    BY <1>5, <2>1, <2>2, PasskeyEnds DEF ReadsPasskey
  <2>3. CASE logins' = [logins EXCEPT ![l].pc = "write"]
    <3> DEFINE v == [logins[l] EXCEPT !.pc = "write"]
    <3>1. v \in LoginRec /\ v.challenge = logins[l].challenge /\ logins' = [logins EXCEPT ![l] = v]
      BY <2>1, <2>3 DEF PasskeyInv, LoginRec
    <3> HIDE DEF v
    <3>2. /\ logins' \in [Logins -> LoginRec] /\ logins'[l] = v
          /\ \A k \in Logins : k # l => logins'[k] = logins[k]
      BY <3>1 DEF PasskeyInv
    <3>3. \A k \in Logins, d \in Challenges : With(k, d)' => With(k, d)
      BY <2>1, <3>1, <3>2 DEF With
    <3> QED BY <1>5, <3>2, <3>3 DEF ReadsPasskey, PasskeyInv
  <2> QED BY <1>5, <2>2, <2>3 DEF ReadsPasskey
<1>6. CASE DeletePasskey
  BY <1>1, <1>6 DEF DeletePasskey
<1> QED BY <1>1, <1>2, <1>3, <1>4, <1>5, <1>6 DEF PasskeyNext, passkeyVars

LEMMA PasskeyTells == PasskeyInv => ChallengeOnce
BY DEF PasskeyInv, ChallengeOnce

\* A device's code gives one session and a passkey's challenge is answered once,
\* for any number of polls, challenges and requests.
THEOREM OnceOnly == LinkSpec /\ PasskeySpec => []UsedOnce
<1>1. LinkInv /\ PasskeyInv => UsedOnce
  BY LinkTells, PasskeyTells DEF UsedOnce
<1> QED BY <1>1, LinkBegins, LinkStep, PasskeyBegins, PasskeyStep, PTL DEF LinkSpec, PasskeySpec

-----------------------------------------------------------------------------
(* The keys of the provider: of a token whose key was never withdrawn, the *)
(* key is in every answer that came since the sign-in began.               *)

CallbackRec ==
  {NoCallback} \union
  [pc: {"fetch", "store", "verified", "refused"}, key: SigningKeys, steady: BOOLEAN, tries: {1, 2},
   keys: SUBSET SigningKeys]

KeyInv ==
  /\ published \subseteq SigningKeys
  /\ callbacks \in [Callbacks -> CallbackRec]
  /\ \A b \in Callbacks : callbacks[b].pc # "idle" /\ callbacks[b].steady =>
       /\ callbacks[b].key \in published
       /\ callbacks[b].pc = "store" => callbacks[b].key \in callbacks[b].keys
       /\ callbacks[b].pc # "refused"

LEMMA KeyBegins == JwksInit => KeyInv
BY DEF JwksInit, KeyInv, CallbackRec, NoCallback

\* One sign-in goes on.
LEMMA KeyMoves ==
  ASSUME KeyInv, NEW b \in Callbacks, NEW v \in CallbackRec, callbacks' = [callbacks EXCEPT ![b] = v],
         published' = published,
         v.pc # "idle" /\ v.steady => /\ v.key \in published
                                      /\ v.pc = "store" => v.key \in v.keys
                                      /\ v.pc # "refused"
  PROVE  KeyInv'
<1>1. callbacks'[b] = v /\ \A x \in Callbacks : x # b => callbacks'[x] = callbacks[x]
  BY DEF KeyInv
<1>2. callbacks' \in [Callbacks -> CallbackRec]
  BY DEF KeyInv
<1> QED BY <1>1, <1>2 DEF KeyInv

LEMMA KeyStep == KeyInv /\ [JwksNext]_jwksVars => KeyInv'
<1> SUFFICES ASSUME KeyInv, [JwksNext]_jwksVars PROVE KeyInv'
  OBVIOUS
<1>1. CASE UNCHANGED <<published, callbacks>>
  BY <1>1 DEF KeyInv
<1>2. ASSUME NEW k \in SigningKeys, PublishKey(k) PROVE KeyInv'
  BY <1>2 DEF PublishKey, KeyInv
<1>3. ASSUME NEW k \in SigningKeys, WithdrawKey(k) PROVE KeyInv'
  <2>1. \A b \in Callbacks : callbacks[b].pc # "idle" => callbacks[b] # NoCallback
    BY DEF NoCallback
  <2>2. ASSUME NEW b \in Callbacks
        PROVE  /\ callbacks'[b] \in CallbackRec
               /\ \/ callbacks'[b] = callbacks[b] /\ (callbacks[b].pc # "idle" => callbacks[b].key # k)
                  \/ ~ callbacks'[b].steady
    BY <1>3, <2>1, ZenonT(60) DEF WithdrawKey, KeyInv, CallbackRec
  <2>3. callbacks' \in [Callbacks -> CallbackRec]
    BY <1>3, <2>2 DEF WithdrawKey
  <2> QED BY <1>3, <2>2, <2>3 DEF WithdrawKey, KeyInv
<1>4. CASE JwksExpires
  BY <1>1, <1>4 DEF JwksExpires
<1>5. ASSUME NEW b \in Callbacks, FetchAnswered(b) PROVE KeyInv'
  <2> DEFINE v == [callbacks[b] EXCEPT !.pc = "store", !.keys = published]
  <2>1. callbacks[b].pc = "fetch" /\ callbacks[b] # NoCallback /\ published \subseteq SigningKeys
    BY <1>5 DEF FetchAnswered, NoCallback, KeyInv
  <2>2. /\ v \in CallbackRec /\ v.pc = "store" /\ v.keys = published
        /\ v.key = callbacks[b].key /\ v.steady = callbacks[b].steady
    BY <2>1 DEF KeyInv, CallbackRec
  <2>3. callbacks' = [callbacks EXCEPT ![b] = v]
    BY <1>5 DEF FetchAnswered, KeyInv
  <2> HIDE DEF v
  <2>4. v.steady => v.key \in published
    BY <2>1, <2>2 DEF KeyInv
  <2> QED BY <1>5, <2>2, <2>3, <2>4, KeyMoves DEF FetchAnswered
<1>6. ASSUME NEW b \in Callbacks, FetchStored(b) PROVE KeyInv'
  <2> DEFINE found == callbacks[b].key \in callbacks[b].keys
             asksAgain == ~ found /\ callbacks[b].tries = 2
             pc == IF found THEN "verified" ELSE IF asksAgain THEN "fetch" ELSE "refused"
             v == [callbacks[b] EXCEPT !.pc = pc, !.tries = 1]
  <2>1. callbacks[b].pc = "store" /\ callbacks[b] # NoCallback
    BY <1>6 DEF FetchStored, NoCallback
  <2>2. callbacks' = [callbacks EXCEPT ![b] = v]
    BY <1>6 DEF FetchStored, KeyInv
  <2>3. pc \in {"verified", "fetch", "refused"} /\ (pc # "verified" => ~ found)
    OBVIOUS
  <2> HIDE DEF pc
  <2>4. /\ v \in CallbackRec /\ v.pc = pc /\ v.key = callbacks[b].key /\ v.steady = callbacks[b].steady
    BY <2>1, <2>3 DEF KeyInv, CallbackRec
  <2> HIDE DEF v
  <2>5. v.steady => found /\ v.key \in published
    BY <2>1, <2>4 DEF KeyInv
  <2>6. v.steady => pc = "verified"
    BY <2>3, <2>5
  <2> QED BY <1>6, <2>2, <2>3, <2>4, <2>5, <2>6, KeyMoves DEF FetchStored
<1>7. ASSUME NEW b \in Callbacks, CallbackEnds(b) PROVE KeyInv'
  <2>1. NoCallback \in CallbackRec /\ NoCallback.pc = "idle"
    BY DEF CallbackRec, NoCallback
  <2> QED BY <1>7, <2>1, KeyMoves DEF CallbackEnds
<1>8. ASSUME NEW b \in Callbacks, NEW k \in SigningKeys, CallbackVerifies(b, k) PROVE KeyInv'
  <2> DEFINE known == \E keys \in jwks : k \in keys
             pc == IF known THEN "verified" ELSE NotFound
             tries == IF jwks = {} THEN 2 ELSE 1
             v == [pc |-> pc, key |-> k, steady |-> TRUE, tries |-> tries, keys |-> {}]
  <2>1. callbacks' = [callbacks EXCEPT ![b] = v] /\ published' = published /\ k \in published
    BY <1>8 DEF CallbackVerifies
  <2>2. pc \in {"verified", "fetch"} /\ tries \in {1, 2}
    BY DEF NotFound
  <2> HIDE DEF pc, tries
  <2>3. v \in CallbackRec /\ v.pc = pc /\ v.key = k
    BY <2>2 DEF CallbackRec
  <2> HIDE DEF v
  <2> QED BY <2>1, <2>2, <2>3, KeyMoves
<1> QED BY <1>1, <1>2, <1>3, <1>4, <1>5, <1>6, <1>7, <1>8 DEF JwksNext, jwksVars

\* A sign-in is refused for its key only if the provider withdrew that.
THEOREM KeysAreFound == JwksSpec => []KeyFound
<1>1. KeyInv => KeyFound
  BY DEF KeyInv, KeyFound
<1> QED BY <1>1, KeyBegins, KeyStep, PTL DEF JwksSpec

-----------------------------------------------------------------------------
(* Users: what a call has read of a row it may rely on while it holds it.  *)

Outcomes == {"create", "accept", "oidc", "link", "read", "count", "delete"}
CallerRec == {Idle} \union [pc: Outcomes, email: Emails, row: RowRec \union {NoUser}]

\* A deletion that is about to remove an administrator it has counted against the others.
Removes(c) == callers[c].pc = "delete" /\ callers[c].row.role = "admin"

AccountTypeOK ==
  /\ users \in [Emails -> RowRec \union {NoUser}]
  /\ callers \in [Callers -> CallerRec]
  /\ admins \in {"none", "kept", "raced"}

\* The row of a call is there until it is the call's turn, with the role that was read.
RowsStay ==
  \A c \in Callers :
    /\ callers[c].pc \in {"accept", "link", "read", "count", "delete"} => users[callers[c].email] # NoUser
    /\ callers[c].pc \in {"count", "delete"} => users[callers[c].email].role = callers[c].row.role

\* Unless another deletion races it, one that removes an administrator leaves one.
OneIsLeft ==
  /\ admins = "none" => Admins = {}
  /\ admins = "kept" =>
       /\ Admins # {}
       /\ \A c \in Callers : Removes(c) =>
            \/ Admins \ {callers[c].email} # {}
            \/ \E d \in Callers \ {c} : Removes(d)

AccountInv == AccountTypeOK /\ RowsStay /\ OneIsLeft

LEMMA AccountBegins == AccountInit => AccountInv
BY DEF AccountInit, AccountInv, AccountTypeOK, RowsStay, OneIsLeft, Removes, CallerRec, Idle, NoUser, Admins

\* A call has no e-mail only when it is idle.
LEMMA CallsBusy ==
  ASSUME AccountInv, NEW c \in Callers, callers[c].pc # "idle"
  PROVE  callers[c] \in [pc: Outcomes, email: Emails, row: RowRec \union {NoUser}]
BY DEF AccountInv, AccountTypeOK, CallerRec, Idle

\* A call goes on to a step that promises nothing about the row, or keeps its promise.
LEMMA CallGoes ==
  ASSUME AccountInv, NEW c \in Callers, NEW v \in CallerRec, callers' = [callers EXCEPT ![c] = v],
         UNCHANGED <<users, admins>>,
         v.pc \in {"accept", "link", "read", "count", "delete"} => users[v.email] # NoUser,
         v.pc \in {"count", "delete"} => users[v.email].role = v.row.role,
         Removes(c) => v.pc = "delete" /\ v.row = callers[c].row,
         v.pc = "delete" /\ v.row.role = "admin" => Admins \ {v.email} # {}
  PROVE  AccountInv'
<1>1. callers'[c] = v /\ \A d \in Callers : d # c => callers'[d] = callers[d]
  BY DEF AccountInv, AccountTypeOK
<1>2. AccountTypeOK'
  BY DEF AccountInv, AccountTypeOK
<1>3. RowsStay'
  BY <1>1 DEF AccountInv, RowsStay
<1>4. Admins' = Admins /\ \A d \in Callers : Removes(d) => Removes(d)'
  BY <1>1 DEF Admins, Removes
<1>5. \A d \in Callers : Removes(d)' => d = c \/ (Removes(d) /\ callers'[d].email = callers[d].email)
  BY <1>1 DEF Removes
<1>6. Removes(c)' => Admins \ {callers'[c].email} # {}
  BY <1>1 DEF Removes
<1>7. OneIsLeft'
  BY <1>1, <1>4, <1>5, <1>6 DEF AccountInv, OneIsLeft
<1> QED BY <1>2, <1>3, <1>7 DEF AccountInv

LEMMA IdleCalls == Idle \in CallerRec /\ Idle.pc = "idle" /\ Idle.row = NoUser /\ NoUser.role = "none"
BY DEF CallerRec, Idle, NoUser

\* A call makes a step that does not need the row.
LEMMA CallBegins ==
  ASSUME AccountInv, NEW c \in Callers, NEW pc \in {"create", "accept", "oidc", "read"}, NEW e \in Emails,
         NEW row \in RowRec \union {NoUser}, Goes(c, pc, e, row), callers[c] = Idle,
         UNCHANGED <<users, admins>>,
         pc \in {"accept", "read"} => users[e] # NoUser
  PROVE  AccountInv'
<1> DEFINE v == [pc |-> pc, email |-> e, row |-> row]
<1>1. v \in CallerRec /\ v.pc = pc /\ v.email = e
  BY DEF CallerRec, Outcomes
<1>2. callers' = [callers EXCEPT ![c] = v]
  BY DEF Goes
<1>3. ~ Removes(c)
  BY IdleCalls DEF Removes
<1> HIDE DEF v
<1> QED BY <1>1, <1>2, <1>3, CallGoes

\* A row is written, and its writer is done; no row goes, and roles stay.
LEMMA RowWritten ==
  ASSUME AccountInv, NEW c \in Callers, CallEnds(c), ~ Removes(c),
         users' \in [Emails -> RowRec \union {NoUser}], admins' \in {"none", "kept", "raced"},
         \A e \in Emails : users[e] # NoUser => users'[e] # NoUser /\ users'[e].role = users[e].role,
         admins' = admins \/ (admins = "none" /\ admins' = "kept"),
         admins' = "none" => Admins' = {},
         admins' = "kept" => Admins' # {}
  PROVE  AccountInv'
<1>1. callers'[c] = Idle /\ \A d \in Callers : d # c => callers'[d] = callers[d]
  BY DEF AccountInv, AccountTypeOK, CallEnds
<1>2. callers' \in [Callers -> CallerRec]
  BY IdleCalls DEF AccountInv, AccountTypeOK, CallEnds
<1>3. \A d \in Callers \ {c} : callers[d].pc # "idle" => callers[d].email \in Emails
  BY CallsBusy
<1>4. RowsStay'
  BY <1>1, <1>3, IdleCalls DEF AccountInv, RowsStay
<1>5. \A d \in Callers : Removes(d)' <=> Removes(d)
  BY <1>1, IdleCalls DEF Removes
<1>6. \A e \in Admins : e \in Admins'
  <2>1. \A e \in Admins : e \in Emails /\ users[e] # NoUser
    BY IdleCalls DEF Admins
  <2> QED BY <2>1 DEF Admins
<1>7. admins = "none" => \A d \in Callers : ~ Removes(d)
  <2> SUFFICES ASSUME admins = "none", NEW d \in Callers, Removes(d) PROVE FALSE
    OBVIOUS
  <2>1. callers[d].email \in Emails /\ users[callers[d].email].role = "admin"
    BY CallsBusy DEF Removes, AccountInv, RowsStay
  <2> QED BY <2>1 DEF AccountInv, OneIsLeft, Admins
<1>8. OneIsLeft'
  <2> SUFFICES ASSUME admins' = "kept", NEW d \in Callers, Removes(d)'
               PROVE  Admins' \ {callers'[d].email} # {} \/ \E k \in Callers \ {d} : Removes(k)'
    BY DEF OneIsLeft
  <2>1. admins = "kept" /\ Removes(d) /\ callers'[d] = callers[d]
    BY <1>1, <1>5, <1>7
  <2>2. Admins \ {callers[d].email} # {} \/ \E k \in Callers \ {d} : Removes(k)
    BY <2>1 DEF AccountInv, OneIsLeft
  <2> QED BY <1>5, <1>6, <2>1, <2>2
<1> QED BY <1>2, <1>4, <1>8 DEF AccountInv, AccountTypeOK

\* create_user.
LEMMA CreateKeeps == ASSUME AccountInv, NEW c \in Callers, Creates(c) PROVE AccountInv'
<1> DEFINE e == callers[c].email
<1>1. e \in Emails /\ callers[c].row \in RowRec \union {NoUser} /\ callers[c].pc = "create"
  BY CallsBusy DEF Creates
<1>2. ~ Removes(c)
  BY <1>1 DEF Removes
<1> HIDE DEF e
<1>3. /\ users' = IF users[e] = NoUser THEN [users EXCEPT ![e] = callers[c].row] ELSE users
      /\ admins' = IF admins = "none" /\ users'[e].role = "admin" THEN "kept" ELSE admins
      /\ CallEnds(c)
  BY DEF Creates, e
<1>4. users' \in [Emails -> RowRec \union {NoUser}]
  BY <1>1, <1>3 DEF AccountInv, AccountTypeOK
<1>5. \A d \in Emails : (users[d] # NoUser \/ d # e) => users'[d] = users[d]
  BY <1>3 DEF AccountInv, AccountTypeOK
<1>6. \A d \in Admins : d \in Admins'
  <2>1. \A d \in Admins : d \in Emails /\ users[d] # NoUser
    BY IdleCalls DEF Admins
  <2> QED BY <1>5, <2>1 DEF Admins
<1>7. \A d \in Admins' : d \in Admins \/ (d = e /\ users'[e].role = "admin")
  BY <1>5 DEF Admins
<1>8. admins' = "none" => Admins' = {}
  BY <1>3, <1>7 DEF AccountInv, OneIsLeft
<1>9. admins' = "kept" => Admins' # {}
  BY <1>1, <1>3, <1>6 DEF AccountInv, OneIsLeft, Admins
<1>10. admins' = admins \/ (admins = "none" /\ admins' = "kept")
  BY <1>3
<1>11. admins' \in {"none", "kept", "raced"}
  BY <1>10 DEF AccountInv, AccountTypeOK
<1> QED BY <1>2, <1>3, <1>4, <1>5, <1>8, <1>9, <1>10, <1>11, RowWritten

\* accept_invite and the link of an identity change a row that is there, and not its role.
LEMMA RowEdited ==
  ASSUME AccountInv, NEW c \in Callers, CallEnds(c), callers[c].pc \in {"accept", "link"}, admins' = admins,
         NEW row \in RowRec, row.role = users[callers[c].email].role,
         users' = [users EXCEPT ![callers[c].email] = row]
  PROVE  AccountInv'
<1> DEFINE e == callers[c].email
<1>1. e \in Emails /\ users[e] # NoUser
  BY CallsBusy DEF AccountInv, RowsStay
<1> HIDE DEF e
<1>2. row # NoUser
  BY DEF RowRec, NoUser
<1>3. users' \in [Emails -> RowRec \union {NoUser}] /\ users'[e] = row /\ \A d \in Emails : d # e => users'[d] = users[d]
  BY <1>1 DEF AccountInv, AccountTypeOK, e
<1>4. \A d \in Emails : users'[d].role = users[d].role /\ (users[d] # NoUser => users'[d] # NoUser)
  BY <1>2, <1>3 DEF e
<1>5. Admins' = Admins
  BY <1>4 DEF Admins
<1>6. ~ Removes(c)
  BY DEF Removes
<1>7. admins' \in {"none", "kept", "raced"} /\ (admins' = "none" => Admins' = {}) /\ (admins' = "kept" => Admins' # {})
  BY <1>5 DEF AccountInv, AccountTypeOK, OneIsLeft
<1> QED BY <1>3, <1>4, <1>6, <1>7, RowWritten

\* delete_user commits: two that remove administrators are a race, and one alone leaves another.
LEMMA DeleteKeeps == ASSUME AccountInv, NEW c \in Callers, DeleteCommits(c) PROVE AccountInv'
<1> DEFINE e == callers[c].email
<1>1. /\ e \in Emails /\ users[e] # NoUser /\ users[e].role = callers[c].row.role /\ callers[c].pc = "delete"
  BY CallsBusy DEF DeleteCommits, AccountInv, RowsStay
<1> HIDE DEF e
<1>2. /\ users' = [users EXCEPT ![e] = NoUser]
      /\ admins' = IF callers[c].row.role = "admin" /\ CountedByOther(c) THEN "raced" ELSE admins
      /\ callers' = [d \in Callers |-> IF d = c \/ HasRead(d, e) THEN Idle ELSE callers[d]]
  BY DEF DeleteCommits, e
<1>3. /\ users' \in [Emails -> RowRec \union {NoUser}] /\ users'[e] = NoUser
      /\ \A d \in Emails : d # e => users'[d] = users[d]
  BY <1>1, <1>2 DEF AccountInv, AccountTypeOK
<1>4. AccountTypeOK'
  <2>1. callers' \in [Callers -> CallerRec]
    BY <1>2, IdleCalls DEF AccountInv, AccountTypeOK
  <2>2. admins' \in {"none", "kept", "raced"}
    BY <1>2 DEF AccountInv, AccountTypeOK
  <2> QED BY <1>3, <2>1, <2>2 DEF AccountTypeOK
<1>5. \A d \in Callers : callers'[d] = Idle \/ (callers'[d] = callers[d] /\ d # c /\ ~ HasRead(d, e))
  BY <1>2
<1>6. RowsStay'
  <2> SUFFICES ASSUME NEW d \in Callers
               PROVE  /\ callers'[d].pc \in {"accept", "link", "read", "count", "delete"} => users'[callers'[d].email] # NoUser
                      /\ callers'[d].pc \in {"count", "delete"} => users'[callers'[d].email].role = callers'[d].row.role
    BY DEF RowsStay
  <2>1. CASE callers'[d].pc \in {"accept", "link", "read", "count", "delete"}
    <3>1. callers'[d] = callers[d] /\ callers[d].email # e
      BY <1>5, <2>1, IdleCalls DEF HasRead
    <3>2. callers[d].email \in Emails
      BY <2>1, <3>1, CallsBusy
    <3> QED BY <1>3, <2>1, <3>1, <3>2 DEF AccountInv, RowsStay
  <2> QED BY <2>1
<1>7. Admins' = Admins \ {e}
  BY <1>1, <1>3, IdleCalls DEF Admins
<1>8. \A d \in Callers : Removes(d)' => Removes(d) /\ d # c /\ callers'[d] = callers[d] /\ callers[d].email # e
  BY <1>5, IdleCalls DEF Removes, HasRead
<1>9. OneIsLeft'
  <2>1. CASE callers[c].row.role = "admin" /\ CountedByOther(c)
    BY <1>2, <2>1 DEF OneIsLeft
  <2>2. CASE callers[c].row.role = "admin" /\ ~ CountedByOther(c)
    <3>1. Removes(c) /\ \A d \in Callers \ {c} : ~ Removes(d)
      BY <1>1, <2>2 DEF Removes, CountedByOther
    <3>2. \A d \in Callers : ~ Removes(d)'
      BY <1>8, <3>1
    <3>3. admins' = admins
      BY <1>2, <2>2
    <3>4. admins = "kept" => Admins \ {e} # {}
      BY <3>1 DEF AccountInv, OneIsLeft, e
    <3>5. admins = "none" => Admins = {}
      BY DEF AccountInv, OneIsLeft
    <3> QED BY <1>7, <3>2, <3>3, <3>4, <3>5 DEF OneIsLeft
  <2>3. CASE callers[c].row.role # "admin"
    <3>1. Admins' = Admins
      BY <1>1, <1>7, <2>3 DEF Admins
    <3>2. admins' = admins
      BY <1>2, <2>3
    <3>3. ASSUME NEW d \in Callers, Removes(d) PROVE Removes(d)'
      <4>1. callers[d].email \in Emails /\ users[callers[d].email].role = "admin"
        BY <3>3, CallsBusy DEF Removes, AccountInv, RowsStay
      <4>2. callers[d].email # e /\ d # c
        BY <1>1, <2>3, <3>3, <4>1 DEF Removes
      <4>3. callers'[d] = callers[d]
        BY <1>2, <4>2 DEF HasRead
      <4> QED BY <3>3, <4>3 DEF Removes
    <3>4. \A d \in Callers : Removes(d)' => callers'[d].email = callers[d].email
      BY <1>8
    <3>5. \A d \in Callers : Removes(d)' <=> Removes(d)
      BY <1>8, <3>3
    <3> QED BY <3>1, <3>2, <3>4, <3>5 DEF AccountInv, OneIsLeft
  <2> QED BY <2>1, <2>2, <2>3
<1> QED BY <1>4, <1>6, <1>9 DEF AccountInv

LEMMA AccountStep == AccountInv /\ [AccountNext]_accountVars => AccountInv'
<1> SUFFICES ASSUME AccountInv, [AccountNext]_accountVars PROVE AccountInv'
  OBVIOUS
<1>1. CASE UNCHANGED accountVars
  BY <1>1 DEF accountVars, AccountInv, AccountTypeOK, RowsStay, OneIsLeft, Admins, Removes
<1>2. ASSUME NEW c \in Callers, SetupChecks(c) \/ InviteChecks(c) \/ RegisterChecks(c) \/ OidcLooks(c) PROVE AccountInv'
  <2>1. PICK e \in Emails, pc \in {"create", "oidc"}, row \in RowRec : Goes(c, pc, e, row)
    BY <1>2 DEF SetupChecks, InviteChecks, RegisterChecks, OidcLooks, RowRec
  <2>2. callers[c] = Idle /\ UNCHANGED <<users, admins>>
    BY <1>2 DEF SetupChecks, InviteChecks, RegisterChecks, OidcLooks, Stay
  <2> QED BY <2>1, <2>2, CallBegins
<1>3. ASSUME NEW c \in Callers, AcceptReads(c) PROVE AccountInv'
  <2>1. PICK e \in Here : Goes(c, "accept", e, users[e]) /\ callers[c] = Idle /\ UNCHANGED <<users, admins>>
    BY <1>3 DEF AcceptReads, Stay
  <2>2. e \in Emails /\ users[e] # NoUser /\ users[e] \in RowRec \union {NoUser}
    BY DEF Here, AccountInv, AccountTypeOK
  <2> QED BY <2>1, <2>2, CallBegins
<1>4. ASSUME NEW c \in Callers, DeleteLists(c) PROVE AccountInv'
  <2>1. PICK e \in Here : Goes(c, "read", e, NoUser) /\ callers[c] = Idle /\ UNCHANGED <<users, admins>>
    BY <1>4 DEF DeleteLists, Stay
  <2>2. e \in Emails /\ users[e] # NoUser
    BY DEF Here
  <2> QED BY <2>1, <2>2, CallBegins
<1>5. ASSUME NEW c \in Callers, Creates(c) PROVE AccountInv'
  BY <1>5, CreateKeeps
<1>6. ASSUME NEW c \in Callers, AcceptCommits(c) \/ OidcLinks(c) PROVE AccountInv'
  <2> DEFINE e == callers[c].email
             row == IF callers[c].pc = "accept" THEN [users[e] EXCEPT !.invited = FALSE]
                    ELSE [users[e] EXCEPT !.sub = callers[c].row.sub]
  <2>1. callers[c].pc \in {"accept", "link"} /\ CallEnds(c) /\ admins' = admins
    BY <1>6 DEF AcceptCommits, OidcLinks
  <2>2. e \in Emails /\ users[e] \in RowRec /\ callers[c].row \in RowRec \union {NoUser}
    BY <2>1, CallsBusy DEF AccountInv, AccountTypeOK, RowsStay
  <2>3. callers[c].row.sub \subseteq Subjects
    BY <2>2 DEF RowRec, NoUser
  <2>4. row \in RowRec /\ row.role = users[e].role
    BY <2>2, <2>3 DEF RowRec
  <2>5. users' = [users EXCEPT ![e] = row]
    <3>1. CASE AcceptCommits(c)
      BY <3>1, <2>2 DEF AcceptCommits, AccountInv, AccountTypeOK
    <3>2. CASE OidcLinks(c)
      BY <3>2, <2>2 DEF OidcLinks, AccountInv, AccountTypeOK
    <3> QED BY <1>6, <3>1, <3>2
  <2> HIDE DEF row
  <2> QED BY <2>1, <2>4, <2>5, RowEdited
<1>7. ASSUME NEW c \in Callers, OidcReads(c) PROVE AccountInv'
  <2> DEFINE pc == IF users[callers[c].email] = NoUser THEN "create" ELSE "link"
             v == [callers[c] EXCEPT !.pc = pc]
  <2>1. callers[c] \in [pc: Outcomes, email: Emails, row: RowRec \union {NoUser}] /\ callers[c].pc = "oidc"
    BY <1>7, CallsBusy DEF OidcReads
  <2>2. callers' = [callers EXCEPT ![c] = v] /\ UNCHANGED <<users, admins>>
    BY <1>7 DEF OidcReads, Stay, AccountInv, AccountTypeOK
  <2>3. pc \in {"create", "link"} /\ (pc = "link" => users[callers[c].email] # NoUser)
    OBVIOUS
  <2> HIDE DEF pc
  <2>4. v \in CallerRec /\ v.pc = pc /\ v.email = callers[c].email
    BY <2>1, <2>3 DEF CallerRec, Outcomes
  <2>5. ~ Removes(c)
    BY <2>1 DEF Removes
  <2> HIDE DEF v
  <2> QED BY <2>2, <2>3, <2>4, <2>5, CallGoes
<1>8. ASSUME NEW c \in Callers, DeleteReads(c) PROVE AccountInv'
  <2> DEFINE e == callers[c].email
             pc == IF e \in Admins THEN "count" ELSE "delete"
             v == [pc |-> pc, email |-> e, row |-> users[e]]
  <2>1. callers[c].pc = "read" /\ e \in Emails /\ users[e] # NoUser /\ users[e] \in RowRec \union {NoUser}
    BY <1>8, CallsBusy DEF DeleteReads, AccountInv, AccountTypeOK, RowsStay
  <2>2. callers' = [callers EXCEPT ![c] = v] /\ UNCHANGED <<users, admins>>
    BY <1>8 DEF DeleteReads, Stay, Goes
  <2>3. pc \in {"count", "delete"} /\ (pc = "delete" => users[e].role # "admin")
    BY <2>1 DEF Admins
  <2> HIDE DEF pc
  <2>4. v \in CallerRec /\ v.pc = pc /\ v.email = e /\ v.row = users[e]
    BY <2>1, <2>3 DEF CallerRec, Outcomes
  <2>5. ~ Removes(c)
    BY <2>1 DEF Removes
  <2> HIDE DEF v
  <2> QED BY <2>1, <2>2, <2>3, <2>4, <2>5, CallGoes
<1>9. ASSUME NEW c \in Callers, DeleteCounts(c) PROVE AccountInv'
  <2>1. callers[c] \in [pc: Outcomes, email: Emails, row: RowRec \union {NoUser}] /\ callers[c].pc = "count"
    BY <1>9, CallsBusy DEF DeleteCounts
  <2>2. ~ Removes(c) /\ UNCHANGED <<users, admins>>
    BY <1>9, <2>1 DEF Removes, DeleteCounts, Stay
  <2>3. CASE CallEnds(c)
    BY <2>2, <2>3, IdleCalls, CallGoes DEF CallEnds
  <2>4. CASE OtherAdmins(callers[c].email) # {} /\ callers' = [callers EXCEPT ![c].pc = "delete"]
    <3> DEFINE v == [callers[c] EXCEPT !.pc = "delete"]
    <3>1. callers' = [callers EXCEPT ![c] = v]
      BY <2>4 DEF AccountInv, AccountTypeOK
    <3>2. v \in CallerRec /\ v.pc = "delete" /\ v.email = callers[c].email /\ v.row = callers[c].row
      BY <2>1 DEF CallerRec, Outcomes
    <3>3. users[v.email] # NoUser /\ users[v.email].role = v.row.role /\ Admins \ {v.email} # {}
      BY <2>1, <2>4, <3>2 DEF AccountInv, RowsStay, OtherAdmins
    <3> HIDE DEF v
    <3> QED BY <2>2, <3>1, <3>2, <3>3, CallGoes
  <2> QED BY <1>9, <2>3, <2>4 DEF DeleteCounts
<1>10. ASSUME NEW c \in Callers, DeleteCommits(c) PROVE AccountInv'
  BY <1>10, DeleteKeeps
<1> QED BY <1>1, <1>2, <1>3, <1>4, <1>5, <1>6, <1>7, <1>8, <1>9, <1>10 DEF AccountNext

\* Once there is an administrator one stays, for any users and calls, with row
\* locks or without, unless two deletions of administrators race.
THEOREM AnAdminStays == AccountSpec => []AdminStays
<1>1. AccountInv => AdminStays
  BY DEF AccountInv, OneIsLeft, AdminStays
<1> QED BY <1>1, AccountBegins, AccountStep, PTL DEF AccountSpec

-----------------------------------------------------------------------------
(* Sessions and keys: what was already bad when a request began is still   *)
(* bad when the request reads it, except where the history excuses it or   *)
(* the id of a cookie was given to another.                                *)

PersonRec == 0 .. born

RequestRec ==
  [pc: {"idle", "user", "ledger", "used", "refused", "accepted"}, by: {"none", "http", "ws", "key"},
   token: SUBSET Tokens, who: Nat, as: Nat, good: BOOLEAN, struck: BOOLEAN]

SessionTypeOK ==
  /\ MaxUsers \in Nat /\ born \in 0 .. MaxUsers /\ idsReused \in BOOLEAN
  /\ people \in [UserIds -> PersonRec]
  /\ sessions \in [Tokens -> SessionRec \union {NoSession}]
  /\ principal \subseteq issued /\ retired \subseteq issued /\ rotations \subseteq issued
  /\ requests \in [Requests -> RequestRec]

\* A session is of a person who was given a row, and of the one with its id where ids are not reused.
Owned(t) == sessions[t] # NoSession =>
  /\ sessions[t].who \in 1 .. born
  /\ ~ idsReused => sessions[t].who = sessions[t].id

\* Where ids are not reused a person has the one of their own number.
OwnIds == ~ idsReused => \A i \in UserIds : people[i] \in {0, i}

\* A key that is good is the only one, and no retired one; a coming one is neither.
KeysApart ==
  /\ principal \intersect (retired \union rotations) = {}
  /\ retired \intersect rotations = {}

\* The person the cookie was made for does not have the id.
Lost(t) == people[sessions[t].id] # sessions[t].who

\* What a request with the cookie t may come to.
CookieFits(q, t) ==
  /\ q.token = {t} /\ sessions[t] # NoSession /\ q.who = sessions[t].who
  /\ q.pc = "user" => (q.good \/ Lost(t)) /\ (q.struck => sessions[t].ledger = "revoked" \/ Lost(t))
  /\ q.pc = "ledger" => /\ q.as # q.who => idsReused
                        /\ q.as = q.who => q.good /\ (q.struck => sessions[t].ledger = "revoked")

Fits(q) ==
  /\ q.pc \in {"user", "ledger"} => \E t \in Tokens : CookieFits(q, t)
  /\ q.pc = "used" => q.good /\ ~ q.struck
  /\ q.pc = "accepted" => TakenForAnother(q) \/ (q.good /\ ~ (q.by = "http" /\ q.struck))

BadStaysBad == \A r \in Requests : Fits(requests[r])

SessionInv == SessionTypeOK /\ (\A t \in Tokens : Owned(t)) /\ OwnIds /\ KeysApart /\ BadStaysBad

LEMMA SessionBegins == SessionInit => SessionInv
<1> SUFFICES ASSUME SessionInit PROVE SessionInv
  OBVIOUS
<1>1. SessionTypeOK
  <2>1. MaxUsers \in Nat /\ born \in 0 .. MaxUsers /\ Quiet \in RequestRec
    BY UsersAssumption DEF SessionInit, UserIds, Quiet, RequestRec
  <2>2. people \in [UserIds -> PersonRec]
    BY <2>1 DEF SessionInit, UserIds, PersonRec
  <2> QED BY <2>1, <2>2 DEF SessionInit, SessionTypeOK
<1>2. (\A t \in Tokens : Owned(t)) /\ KeysApart
  BY DEF SessionInit, Owned, KeysApart
<1>3. OwnIds
  BY DEF SessionInit, OwnIds
<1>4. BadStaysBad
  BY DEF SessionInit, BadStaysBad, Fits, Quiet
<1> QED BY <1>1, <1>2, <1>3, <1>4 DEF SessionInv

LEMMA RequestMoves ==
  ASSUME SessionInv, NEW r \in Requests, NEW v \in RequestRec, Fits(v), requests' = [requests EXCEPT ![r] = v],
         UNCHANGED <<userVars, sessions, keyVars>>
  PROVE  SessionInv'
<1>1. requests' \in [Requests -> RequestRec]
  BY DEF SessionInv, SessionTypeOK
<1>2. SessionTypeOK' /\ (\A t \in Tokens : Owned(t)') /\ OwnIds' /\ KeysApart'
  BY <1>1 DEF SessionInv, SessionTypeOK, Owned, OwnIds, KeysApart, userVars, keyVars, PersonRec, RequestRec
<1>3. requests'[r] = v /\ \A s \in Requests : s # r => requests'[s] = requests[s]
  BY DEF SessionInv, SessionTypeOK
<1>4. ASSUME NEW q, Fits(q) PROVE Fits(q)'
  BY <1>4 DEF Fits, CookieFits, Lost, TakenForAnother, userVars
<1>5. BadStaysBad'
  BY <1>3, <1>4 DEF SessionInv, BadStaysBad
<1> QED BY <1>2, <1>5 DEF SessionInv

\* A session is nobody else's afterwards, and stays struck out.
Stays(t) == sessions[t] # NoSession =>
  /\ sessions'[t] # NoSession /\ sessions'[t].who = sessions[t].who /\ sessions'[t].id = sessions[t].id
  /\ sessions[t].ledger = "revoked" => sessions'[t].ledger = "revoked"
  /\ Lost(t) => Lost(t)'

LEMMA FitsStays == ASSUME NEW q, Fits(q), \A t \in Tokens : Stays(t), idsReused' = idsReused PROVE Fits(q)'
<1>1. ASSUME q.pc \in {"user", "ledger"} PROVE (\E t \in Tokens : CookieFits(q, t))'
  <2>1. PICK t \in Tokens : CookieFits(q, t)
    BY <1>1 DEF Fits
  <2>2. sessions[t] # NoSession /\ Stays(t)
    BY <2>1 DEF CookieFits
  <2>3. CookieFits(q, t)'
    BY <2>1, <2>2 DEF CookieFits, Stays
  <2> QED BY <2>3
<1> QED BY <1>1 DEF Fits, TakenForAnother

\* The sessions change, but none is given to another or taken off the list of the revoked.
LEMMA SessionsChange ==
  ASSUME SessionInv, UNCHANGED <<userVars, keyVars, requests>>,
         sessions' \in [Tokens -> SessionRec \union {NoSession}],
         \A t \in Tokens : Owned(t)',
         \A t \in Tokens : sessions[t] # NoSession =>
            /\ sessions'[t] # NoSession /\ sessions'[t].who = sessions[t].who /\ sessions'[t].id = sessions[t].id
            /\ sessions[t].ledger = "revoked" => sessions'[t].ledger = "revoked"
  PROVE  SessionInv'
<1>1. SessionTypeOK' /\ OwnIds' /\ KeysApart'
  BY DEF SessionInv, SessionTypeOK, OwnIds, KeysApart, userVars, keyVars, PersonRec, RequestRec
<1>2. \A t \in Tokens : Stays(t)
  BY DEF Stays, Lost, userVars
<1>3. BadStaysBad'
  BY <1>2, FitsStays DEF SessionInv, BadStaysBad, userVars
<1> QED BY <1>1, <1>3 DEF SessionInv

\* An UPDATE of the ledger strikes out sessions.
LEMMA StruckKeeps == ASSUME SessionInv, NEW T, sessions' = Struck(T), UNCHANGED <<userVars, keyVars, requests>> PROVE SessionInv'
<1>1. ASSUME NEW t \in Tokens
      PROVE  /\ sessions'[t] \in SessionRec \union {NoSession} /\ Owned(t)'
             /\ sessions[t] # NoSession =>
                  /\ sessions'[t] # NoSession /\ sessions'[t].who = sessions[t].who /\ sessions'[t].id = sessions[t].id
                  /\ sessions[t].ledger = "revoked" => sessions'[t].ledger = "revoked"
  <2>1. sessions[t] \in SessionRec \union {NoSession} /\ Owned(t) /\ 0 \notin UserIds
    BY DEF SessionInv, SessionTypeOK, UserIds
  <2>2. CASE sessions'[t] = sessions[t]
    BY <2>1, <2>2 DEF Owned, userVars
  <2>3. CASE sessions[t].ledger = "active" /\ sessions'[t] = [sessions[t] EXCEPT !.ledger = "revoked"]
    <3>1. sessions[t] \in SessionRec /\ sessions[t] # NoSession
      BY <2>1, <2>3 DEF NoSession
    <3>2. /\ sessions'[t] \in SessionRec /\ sessions'[t].who = sessions[t].who /\ sessions'[t].id = sessions[t].id
          /\ sessions'[t].ledger = "revoked"
      BY <2>3, <3>1 DEF SessionRec
    <3>3. sessions'[t] # NoSession
      BY <3>2 DEF NoSession
    <3> QED BY <2>1, <3>1, <3>2, <3>3 DEF Owned, userVars
  <2> QED BY <2>2, <2>3 DEF Struck
<1>2. sessions' \in [Tokens -> SessionRec \union {NoSession}]
  BY <1>1 DEF Struck
<1> QED BY <1>1, <1>2, SessionsChange

\* A person who is new: whatever id they are given, no cookie was made for them.
LEMMA UserComes == ASSUME SessionInv, CreatesUser PROVE SessionInv'
<1>1. /\ people' = [people EXCEPT ![NextId] = born + 1] /\ born' = born + 1
      /\ UNCHANGED <<idsReused, sessions, keyVars, requests>>
      /\ born \in Nat /\ people \in [UserIds -> PersonRec] /\ 0 .. born \subseteq 0 .. (born + 1)
  BY DEF CreatesUser, SessionInv, SessionTypeOK
<1>2. people' \in [UserIds -> PersonRec']
  <2>1. PersonRec \subseteq PersonRec' /\ born + 1 \in PersonRec'
    BY <1>1 DEF PersonRec
  <2> QED BY <1>1, <2>1
<1>3. SessionTypeOK' /\ KeysApart'
  <2>1. MaxUsers \in Nat /\ born' \in 0 .. MaxUsers
    BY <1>1 DEF CreatesUser, SessionInv, SessionTypeOK
  <2> QED BY <1>1, <1>2, <2>1 DEF SessionInv, SessionTypeOK, KeysApart, keyVars, RequestRec
<1>4. \A t \in Tokens : Owned(t)'
  <2> SUFFICES ASSUME NEW t \in Tokens, sessions[t] # NoSession
               PROVE  sessions[t].who \in 1 .. born' /\ (~ idsReused => sessions[t].who = sessions[t].id)
    BY <1>1 DEF Owned
  <2> QED BY <1>1 DEF SessionInv, Owned
<1>5. OwnIds'
  <2> SUFFICES ASSUME ~ idsReused, NEW i \in UserIds PROVE people'[i] \in {0, i}
    BY <1>1 DEF OwnIds
  <2>1. NextId = born + 1 /\ people[i] \in {0, i}
    BY DEF NextId, SessionInv, OwnIds
  <2> QED BY <1>1, <2>1
<1>6. \A t \in Tokens : Stays(t)
  <2> SUFFICES ASSUME NEW t \in Tokens, sessions[t] # NoSession, Lost(t) PROVE people'[sessions[t].id] # sessions[t].who
    BY <1>1 DEF Stays, Lost
  <2>1. sessions[t].who \in 1 .. born /\ people[sessions[t].id] # sessions[t].who /\ sessions[t].id \in UserIds
    BY DEF SessionInv, SessionTypeOK, Owned, Lost, SessionRec
  <2>2. people'[sessions[t].id] \in {born + 1, people[sessions[t].id]}
    BY <1>1, <2>1
  <2> QED BY <1>1, <2>1, <2>2
<1>7. BadStaysBad'
  BY <1>1, <1>6, FitsStays DEF SessionInv, BadStaysBad
<1> QED BY <1>3, <1>4, <1>5, <1>7 DEF SessionInv

\* Deleting a user: a request that has read the user already is excused.
LEMMA UserGoes == ASSUME SessionInv, NEW i \in UserIds, DeletesUser(i) PROVE SessionInv'
<1>1. /\ people' = [people EXCEPT ![i] = 0] /\ UNCHANGED <<born, idsReused, keyVars>>
      /\ sessions' = [t \in Tokens |-> IF sessions[t].id = i THEN [sessions[t] EXCEPT !.ledger = "none"] ELSE sessions[t]]
      /\ requests' = [r \in Requests |-> IF Overtaken(r, i) THEN [requests[r] EXCEPT !.struck = FALSE] ELSE requests[r]]
      /\ born \in Nat /\ people \in [UserIds -> PersonRec] /\ i \in UserIds /\ 0 \notin UserIds
  BY DEF DeletesUser, SessionInv, SessionTypeOK, UserIds
<1>2. ASSUME NEW t \in Tokens
      PROVE  /\ sessions'[t] \in SessionRec \union {NoSession}
             /\ sessions[t] # NoSession =>
                  /\ sessions'[t] # NoSession /\ sessions'[t].who = sessions[t].who /\ sessions'[t].id = sessions[t].id
                  /\ sessions[t].id = i => Lost(t)'
                  /\ sessions[t].id # i => sessions'[t] = sessions[t] /\ (Lost(t) => Lost(t)')
             /\ sessions[t] = NoSession => sessions'[t] = NoSession
  <2>1. sessions[t] \in SessionRec \union {NoSession} /\ Owned(t)
    BY DEF SessionInv, SessionTypeOK
  <2>2. CASE sessions[t] = NoSession
    BY <1>1, <2>2 DEF NoSession
  <2>3. CASE sessions[t] # NoSession /\ sessions[t].id # i
    <3>1. sessions'[t] = sessions[t] /\ sessions[t].id \in UserIds
      BY <1>1, <2>1, <2>3 DEF SessionRec
    <3>2. people'[sessions[t].id] = people[sessions[t].id]
      BY <1>1, <2>3, <3>1
    <3> QED BY <2>1, <2>3, <3>1, <3>2 DEF Lost
  <2>4. CASE sessions[t] # NoSession /\ sessions[t].id = i
    <3>1. sessions'[t] = [sessions[t] EXCEPT !.ledger = "none"] /\ sessions[t] \in SessionRec /\ sessions[t].who \in 1 .. born
      BY <1>1, <2>1, <2>4 DEF Owned
    <3>2. sessions'[t] \in SessionRec /\ sessions'[t].who = sessions[t].who /\ sessions'[t].id = i
      BY <2>4, <3>1 DEF SessionRec
    <3>3. people'[i] = 0 /\ sessions'[t] # NoSession /\ sessions[t].who # 0
      BY <1>1, <3>1, <3>2 DEF NoSession
    <3> QED BY <2>4, <3>2, <3>3 DEF Lost
  <2> QED BY <2>2, <2>3, <2>4
<1>3. ASSUME NEW r \in Requests PROVE requests'[r] \in RequestRec
  <2>1. requests[r] \in RequestRec
    BY DEF SessionInv, SessionTypeOK
  <2> QED BY <1>1, <2>1 DEF RequestRec
<1>4. sessions' \in [Tokens -> SessionRec \union {NoSession}] /\ requests' \in [Requests -> RequestRec]
  BY <1>1, <1>2, <1>3
<1>5. people' \in [UserIds -> PersonRec]
  BY <1>1 DEF PersonRec
<1>6. SessionTypeOK' /\ KeysApart'
  BY <1>1, <1>4, <1>5 DEF SessionInv, SessionTypeOK, KeysApart, keyVars, PersonRec, RequestRec
<1>7. \A t \in Tokens : Owned(t)'
  BY <1>1, <1>2 DEF SessionInv, Owned
<1>8. OwnIds'
  BY <1>1 DEF SessionInv, OwnIds
<1>9. BadStaysBad'
  <2> SUFFICES ASSUME NEW r \in Requests PROVE Fits(requests[r])'
    BY DEF BadStaysBad
  <2> DEFINE q == requests[r]
  <2>1. q \in RequestRec /\ Fits(q)
    BY DEF SessionInv, SessionTypeOK, BadStaysBad
  <2>2. CASE q.pc \notin {"user", "ledger"}
    <3>1. requests'[r] = q /\ idsReused' = idsReused
      BY <1>1, <2>2 DEF Overtaken
    <3> QED BY <2>1, <2>2, <3>1 DEF Fits, TakenForAnother
  <2>3. CASE q.pc = "user"
    <3>1. requests'[r] = q
      BY <1>1, <2>3 DEF Overtaken
    <3>2. PICK t \in Tokens : CookieFits(q, t)
      BY <2>1, <2>3 DEF Fits
    <3>3. sessions[t] # NoSession
      BY <3>2 DEF CookieFits
    <3>4. CookieFits(requests[r], t)'
      BY <1>2, <2>3, <3>1, <3>2, <3>3 DEF CookieFits
    <3> QED BY <2>3, <3>1, <3>4 DEF Fits
  <2>4. CASE q.pc = "ledger"
    <3>1. PICK t \in Tokens : CookieFits(q, t)
      BY <2>1, <2>4 DEF Fits
    <3>2. sessions[t] # NoSession /\ q.token = {t} /\ idsReused' = idsReused
      BY <1>1, <3>1 DEF CookieFits
    <3>3. CASE sessions[t].id = i
      <4>1. requests'[r] = [q EXCEPT !.struck = FALSE]
        BY <1>1, <2>4, <3>2, <3>3 DEF Overtaken
      <4>2. /\ requests'[r].pc = "ledger" /\ requests'[r].token = q.token /\ requests'[r].who = q.who
            /\ requests'[r].as = q.as /\ requests'[r].good = q.good /\ ~ requests'[r].struck
        BY <2>1, <2>4, <4>1 DEF RequestRec
      <4>3. CookieFits(requests[r], t)'
        BY <1>2, <2>4, <3>1, <3>2, <4>2 DEF CookieFits
      <4> QED BY <4>2, <4>3 DEF Fits
    <3>4. CASE sessions[t].id # i
      <4>1. requests'[r] = q
        BY <1>1, <3>2, <3>4 DEF Overtaken
      <4>2. CookieFits(requests[r], t)'
        BY <1>2, <2>4, <3>1, <3>2, <3>4, <4>1 DEF CookieFits
      <4> QED BY <2>4, <4>1, <4>2 DEF Fits
    <3> QED BY <3>3, <3>4
  <2> QED BY <2>2, <2>3, <2>4
<1> QED BY <1>6, <1>7, <1>8, <1>9 DEF SessionInv

\* The keys change, and nothing else.
LEMMA KeysChange ==
  ASSUME SessionInv, UNCHANGED <<userVars, sessions, requests>>, KeysApart',
         principal' \subseteq issued', retired' \subseteq issued', rotations' \subseteq issued'
  PROVE  SessionInv'
<1>1. SessionTypeOK' /\ (\A t \in Tokens : Owned(t)') /\ OwnIds'
  BY DEF SessionInv, SessionTypeOK, Owned, OwnIds, userVars, PersonRec, RequestRec
<1>2. \A t \in Tokens : Stays(t)
  BY DEF Stays, Lost, userVars
<1>3. BadStaysBad'
  BY <1>2, FitsStays DEF SessionInv, BadStaysBad, userVars
<1> QED BY <1>1, <1>3 DEF SessionInv

LEMMA SessionStep == SessionInv /\ [SessionNext]_sessionVars => SessionInv'
<1> SUFFICES ASSUME SessionInv, [SessionNext]_sessionVars PROVE SessionInv'
  OBVIOUS
<1>1. CASE UNCHANGED sessionVars
  BY <1>1, KeysChange DEF sessionVars, userVars, SessionInv, SessionTypeOK, KeysApart
<1>2. ASSUME NEW t \in Tokens, SignsIn(t) PROVE SessionInv'
  <2>1. PICK i \in UserIds, l \in {"none", "active"} :
          people[i] # 0 /\ sessions' = [sessions EXCEPT ![t] = [id |-> i, who |-> people[i], ledger |-> l, expired |-> FALSE]]
    BY <1>2 DEF SignsIn
  <2> DEFINE v == [id |-> i, who |-> people[i], ledger |-> l, expired |-> FALSE]
  <2>2. people[i] \in 1 .. born /\ born \in Nat /\ (~ idsReused => people[i] = i)
    BY <2>1 DEF SessionInv, SessionTypeOK, PersonRec, OwnIds
  <2>3. sessions[t] = NoSession /\ sessions' \in [Tokens -> SessionRec \union {NoSession}]
        /\ sessions'[t] = v /\ \A u \in Tokens : u # t => sessions'[u] = sessions[u]
    <3>1. people[i] \in UserIds
      BY <2>2 DEF SessionInv, SessionTypeOK, UserIds
    <3>2. v \in SessionRec
      BY <3>1 DEF SessionRec
    <3> HIDE DEF v
    <3> QED BY <1>2, <2>1, <3>2 DEF SignsIn, SessionInv, SessionTypeOK, v
  <2>4. \A u \in Tokens : Owned(u)'
    <3> SUFFICES ASSUME NEW u \in Tokens PROVE Owned(u)'
      OBVIOUS
    <3>1. CASE u = t
      BY <1>2, <2>2, <2>3, <3>1 DEF Owned, SignsIn, userVars
    <3>2. CASE u # t
      BY <1>2, <2>3, <3>2 DEF Owned, SignsIn, userVars, SessionInv
    <3> QED BY <3>1, <3>2
  <2> QED BY <1>2, <2>3, <2>4, SessionsChange DEF SignsIn
<1>3. ASSUME NEW t \in Tokens, SignsOut(t) \/ RevokeOthers(t) PROVE SessionInv'
  BY <1>3, StruckKeeps DEF SignsOut, RevokeOthers
<1>4. ASSUME NEW t \in Tokens, NEW u \in Tokens, Revoke(t, u) PROVE SessionInv'
  BY <1>4, StruckKeeps DEF Revoke
<1>5. ASSUME NEW t \in Tokens, Expires(t) PROVE SessionInv'
  <2> DEFINE v == [sessions[t] EXCEPT !.expired = TRUE]
  <2>1. sessions' = [sessions EXCEPT ![t] = v] /\ sessions[t] \in SessionRec /\ 0 \notin UserIds
    BY <1>5 DEF Expires, Valid, SessionInv, SessionTypeOK, UserIds
  <2>2. v \in SessionRec /\ v.who = sessions[t].who /\ v.id = sessions[t].id /\ v.ledger = sessions[t].ledger /\ v # NoSession
    BY <2>1 DEF SessionRec, NoSession
  <2> HIDE DEF v
  <2>3. /\ sessions' \in [Tokens -> SessionRec \union {NoSession}] /\ sessions'[t] = v
        /\ \A u \in Tokens : u # t => sessions'[u] = sessions[u]
    BY <2>1, <2>2 DEF SessionInv, SessionTypeOK
  <2>4. sessions[t] # NoSession /\ UNCHANGED <<userVars, keyVars, requests>>
    BY <1>5 DEF Expires, Valid
  <2>5. ASSUME NEW u \in Tokens PROVE Owned(u)'
    <3>1. CASE u = t
      BY <2>2, <2>3, <2>4, <3>1 DEF Owned, userVars, SessionInv
    <3>2. CASE u # t
      BY <2>3, <2>4, <3>2 DEF Owned, userVars, SessionInv
    <3> QED BY <3>1, <3>2
  <2> QED BY <2>2, <2>3, <2>4, <2>5, SessionsChange
<1>6. ASSUME NEW i \in UserIds, DeletesUser(i) PROVE SessionInv'
  BY <1>6, UserGoes
<1>7. ASSUME NEW k \in ApiKeys, CreatesPrincipal(k) \/ RotateReads(k) \/ RotateCommits(k) PROVE SessionInv'
  <2>1. UNCHANGED <<userVars, sessions, requests>>
    BY <1>7 DEF CreatesPrincipal, RotateReads, RotateCommits
  <2>2. CASE CreatesPrincipal(k)
    BY <2>1, <2>2, KeysChange DEF CreatesPrincipal, SessionInv, SessionTypeOK, KeysApart
  <2>3. CASE RotateReads(k)
    BY <2>1, <2>3, KeysChange DEF RotateReads, SessionInv, SessionTypeOK, KeysApart
  <2>4. CASE RotateCommits(k)
    BY <2>1, <2>4, KeysChange DEF RotateCommits, SessionInv, SessionTypeOK, KeysApart
  <2> QED BY <1>7, <2>2, <2>3, <2>4
<1>8. CASE DeletesPrincipal
  BY <1>8, KeysChange DEF DeletesPrincipal, SessionInv, SessionTypeOK, KeysApart
<1>9. ASSUME NEW r \in Requests, NEW t \in Tokens, NEW by \in {"http", "ws"}, CookieVerifies(r, t, by) PROVE SessionInv'
  <2> DEFINE s == sessions[t]
             v == [pc |-> "user", by |-> by, token |-> {t}, who |-> s.who, as |-> 0,
                   good |-> people[s.id] = s.who, struck |-> s.ledger = "revoked"]
  <2>1. sessions[t] # NoSession /\ s.who \in Nat
    BY <1>9 DEF CookieVerifies, Valid, SessionInv, SessionTypeOK, Owned
  <2>2. v \in RequestRec
    BY <2>1 DEF RequestRec
  <2>3. CookieFits(v, t)
    BY <2>1 DEF CookieFits, Lost
  <2>4. Fits(v)
    BY <2>3 DEF Fits
  <2>5. requests' = [requests EXCEPT ![r] = v] /\ UNCHANGED <<userVars, sessions, keyVars>>
    BY <1>9 DEF CookieVerifies
  <2> HIDE DEF v
  <2> QED BY <2>2, <2>4, <2>5, RequestMoves
<1>10. ASSUME NEW r \in Requests, UserReads(r) PROVE SessionInv'
  <2> DEFINE q == requests[r]
  <2>1. PICK t \in q.token :
          requests' = [requests EXCEPT ![r].as = people[sessions[t].id], ![r].pc =
            IF people[sessions[t].id] = 0 THEN "refused" ELSE IF ReadsLedger(r) THEN "ledger" ELSE "accepted"]
    BY <1>10 DEF UserReads
  <2> DEFINE p == people[sessions[t].id]
             pc == IF p = 0 THEN "refused" ELSE IF q.by = "http" THEN "ledger" ELSE "accepted"
             v == [q EXCEPT !.as = p, !.pc = pc]
  <2>2. q \in RequestRec /\ q.pc = "user" /\ Fits(q)
    BY <1>10 DEF UserReads, SessionInv, SessionTypeOK, BadStaysBad
  <2>3. CookieFits(q, t) /\ t \in Tokens
    BY <2>1, <2>2 DEF Fits, CookieFits
  <2>4. /\ sessions[t] # NoSession /\ sessions[t].id \in UserIds /\ p \in 0 .. born /\ born \in Nat
        /\ ~ idsReused => p \in {0, sessions[t].id} /\ sessions[t].id = q.who
    BY <2>3 DEF CookieFits, SessionInv, SessionTypeOK, SessionRec, PersonRec, Owned, OwnIds
  <2>5. requests' = [requests EXCEPT ![r] = v]
    BY <2>1 DEF ReadsLedger, SessionInv, SessionTypeOK
  <2>6. /\ v \in RequestRec /\ v.pc = pc /\ v.token = q.token /\ v.who = q.who /\ v.by = q.by
        /\ v.as = p /\ v.good = q.good /\ v.struck = q.struck
    <3>1. p \in Nat /\ pc \in {"refused", "ledger", "accepted"}
      BY <2>4
    <3> HIDE DEF p, pc
    <3> QED BY <2>2, <3>1 DEF RequestRec
  <2> HIDE DEF v
  <2>7. ASSUME p # 0 PROVE /\ p # q.who => idsReused
                           /\ p = q.who => q.good /\ (q.struck => sessions[t].ledger = "revoked")
    BY <2>2, <2>3, <2>4, <2>7 DEF CookieFits, Lost
  <2>8. Fits(v)
    <3>1. CASE p = 0
      BY <2>6, <3>1 DEF Fits
    <3>2. CASE p # 0 /\ q.by = "http"
      <4>1. v.pc = "ledger"
        BY <2>6, <3>2
      <4>2. CookieFits(v, t)
        BY <2>3, <2>6, <2>7, <3>2, <4>1 DEF CookieFits
      <4> QED BY <2>3, <4>1, <4>2 DEF Fits
    <3>3. CASE p # 0 /\ q.by # "http"
      <4>1. v.pc = "accepted"
        BY <2>6, <3>3
      <4>2. v.by # "http" /\ (v.as # v.who => idsReused) /\ (v.as = v.who => v.good)
        BY <2>6, <2>7, <3>3
      <4> QED BY <4>1, <4>2 DEF Fits, TakenForAnother
    <3> QED BY <3>1, <3>2, <3>3
  <2> QED BY <1>10, <2>5, <2>6, <2>8, RequestMoves DEF UserReads
<1>11. ASSUME NEW r \in Requests, LedgerReads(r) PROVE SessionInv'
  <2> DEFINE q == requests[r]
  <2>1. PICK t \in q.token : requests' = [requests EXCEPT ![r].pc = IF Revoked(t) THEN "refused" ELSE "accepted"]
    BY <1>11 DEF LedgerReads
  <2> DEFINE pc == IF Revoked(t) THEN "refused" ELSE "accepted"
             v == [q EXCEPT !.pc = pc]
  <2>2. q \in RequestRec /\ q.pc = "ledger" /\ Fits(q)
    BY <1>11 DEF LedgerReads, SessionInv, SessionTypeOK, BadStaysBad
  <2>3. CookieFits(q, t)
    BY <2>1, <2>2 DEF Fits, CookieFits
  <2>4. requests' = [requests EXCEPT ![r] = v]
    BY <2>1 DEF SessionInv, SessionTypeOK
  <2>5. pc \in {"accepted", "refused"} /\ (pc = "accepted" => sessions[t].ledger # "revoked")
    BY DEF Revoked
  <2> HIDE DEF pc
  <2>6. v \in RequestRec /\ v.pc = pc /\ v.who = q.who /\ v.as = q.as /\ v.good = q.good /\ v.struck = q.struck
    BY <2>2, <2>5 DEF RequestRec
  <2> HIDE DEF v
  <2>7. Fits(v)
    BY <2>2, <2>3, <2>5, <2>6 DEF Fits, CookieFits, TakenForAnother
  <2> QED BY <1>11, <2>4, <2>6, <2>7, RequestMoves DEF LedgerReads
<1>12. ASSUME NEW r \in Requests, NEW k \in ApiKeys, KeyReads(r, k) PROVE SessionInv'
  <2> DEFINE pc == IF k \in principal THEN "used" ELSE "refused"
             v == [Quiet EXCEPT !.pc = pc, !.by = "key", !.good = k \notin retired]
  <2>1. /\ v \in RequestRec /\ v.pc \in {"used", "refused"} /\ (v.pc = "used" => k \in principal)
        /\ v.good = (k \notin retired) /\ ~ v.struck
    BY DEF RequestRec, Quiet
  <2>2. requests' = [requests EXCEPT ![r] = v] /\ UNCHANGED <<userVars, sessions, keyVars>>
    BY <1>12 DEF KeyReads
  <2> HIDE DEF v
  <2>3. Fits(v)
    BY <2>1 DEF Fits, SessionInv, KeysApart
  <2> QED BY <2>1, <2>2, <2>3, RequestMoves
<1>13. ASSUME NEW r \in Requests, KeyUsed(r) PROVE SessionInv'
  <2> DEFINE pc == IF principal = {} THEN "refused" ELSE "accepted"
             v == [requests[r] EXCEPT !.pc = pc]
  <2>1. requests[r] \in RequestRec /\ requests[r].good /\ ~ requests[r].struck
    BY <1>13 DEF KeyUsed, SessionInv, SessionTypeOK, BadStaysBad, Fits
  <2>2. requests' = [requests EXCEPT ![r] = v]
    BY <1>13 DEF KeyUsed, SessionInv, SessionTypeOK
  <2>3. pc \in {"accepted", "refused"}
    OBVIOUS
  <2> HIDE DEF pc
  <2>4. v \in RequestRec /\ v.pc = pc /\ v.good /\ ~ v.struck
    BY <2>1, <2>3 DEF RequestRec
  <2> HIDE DEF v
  <2>5. Fits(v)
    BY <2>3, <2>4 DEF Fits
  <2> QED BY <1>13, <2>2, <2>4, <2>5, RequestMoves DEF KeyUsed
<1>14. ASSUME NEW r \in Requests, Answered(r) PROVE SessionInv'
  <2>1. Fits(Quiet) /\ Quiet \in RequestRec
    BY DEF Fits, Quiet, RequestRec
  <2> QED BY <1>14, <2>1, RequestMoves DEF Answered
<1>15. CASE CreatesUser
  BY <1>15, UserComes
<1> QED BY <1>1, <1>2, <1>3, <1>4, <1>5, <1>6, <1>7, <1>8, <1>9, <1>10, <1>11, <1>12, <1>13, <1>14, <1>15 DEF SessionNext

\* A request is accepted only on what was good when it began (a person who is
\* still there, an HTTP session that was not struck out, a key in use), for any
\* users, sessions, keys and requests, where ids are reused and where they are
\* not; but on a cookie whose id is another's by now, which only reuse allows.
THEOREM BadStaysOut == SessionSpec => []StaysOut
<1>1. SessionInv => StaysOut
  BY DEF SessionInv, BadStaysBad, Fits, StaysOut
<1> QED BY <1>1, SessionBegins, SessionStep, PTL DEF SessionSpec

-----------------------------------------------------------------------------
(* Roles: the role a check has come to was given to the user in some way   *)
(* since the check began, whatever was edited between its reads.           *)

RoleTypeOK ==
  /\ own \in Ranks /\ override \in Ranks
  /\ groupRole \in [Groups -> Ranks] /\ groupGate \in [Groups -> Ranks]
  /\ members \subseteq Groups
  /\ check \in [pc: {"idle", "override", "groups", "global", "done"}, role: Ranks]

RoleInv ==
  /\ RoleTypeOK
  /\ check.pc # "idle" => check.role \in given

\* The highest of some ranks is one of them, or there is none.
LEMMA HighestRank == ASSUME NEW S \in SUBSET Ranks PROVE Highest(S) \in S \union {0} /\ \A x \in S : x <= Highest(S)
<1> DEFINE T == S \union {0}
<1>1. T \in SUBSET Nat /\ T # {} /\ Top \in Nat /\ \A x \in T : x <= Top
  BY TopAssumption DEF Ranks
<1>2. \E m \in T : \A x \in T : x <= m
  BY <1>1, Greatest
<1>3. \E m \in T : \A x \in T : m >= x
  BY <1>1, <1>2
<1>4. Highest(S) = CHOOSE m \in T : \A x \in T : m >= x
  BY DEF Highest, Max
<1>5. Highest(S) \in T /\ \A x \in T : Highest(S) >= x
  BY <1>3, <1>4
<1> QED BY <1>1, <1>5

LEMMA RoleBegins == RoleInit => RoleInv
BY TopAssumption DEF RoleInit, RoleInv, RoleTypeOK, Ranks, NoCheck

\* The edits keep the ranks of the rows.
LEMMA EditsTyped == ASSUME RoleInv, Edits PROVE RoleTypeOK'
<1> USE DEF RoleInv, RoleTypeOK
<1>1. check' = check
  BY DEF Edits
<1>2. 0 \in Ranks
  BY TopAssumption DEF Ranks
<1>3. ASSUME NEW r \in Ranks, SetUserRole(r) PROVE RoleTypeOK'
  BY <1>1, <1>3 DEF SetUserRole
<1>4. ASSUME NEW g \in Groups, DeleteGroup(g) PROVE RoleTypeOK'
  BY <1>1, <1>2, <1>4 DEF DeleteGroup
<1>5. ASSUME NEW g \in Groups, AddMember(g) \/ RemoveMember(g) PROVE RoleTypeOK'
  BY <1>1, <1>5 DEF AddMember, RemoveMember
<1>6. ASSUME NEW g \in Groups, NEW r \in Ranks, SetGroup(g, r) \/ SetGroupGateway(g, r) PROVE RoleTypeOK'
  BY <1>1, <1>6 DEF SetGroup, SetGroupGateway
<1>7. CASE DeleteGateway
  BY <1>1, <1>2, <1>7 DEF DeleteGateway
<1> QED BY <1>3, <1>4, <1>5, <1>6, <1>7 DEF Edits

\* A check goes on with a role that the user is given now, or with the one it had.
LEMMA CheckGoes ==
  ASSUME RoleInv, NEW pc \in {"override", "groups", "global", "done"}, NEW role \in Ranks, Continues(pc, role),
         given' = given \union GivenNow \union GivenNow',
         role \in GivenNow \/ (check.pc # "idle" /\ role = check.role)
  PROVE  RoleInv'
<1>1. check' = [pc |-> pc, role |-> role] /\ UNCHANGED <<own, override, groupRole, groupGate, members>>
  BY DEF Continues, sources
<1>2. RoleTypeOK'
  BY <1>1 DEF RoleInv, RoleTypeOK
<1>3. role \in given'
  BY DEF RoleInv
<1> QED BY <1>1, <1>2, <1>3 DEF RoleInv

LEMMA JoinedRanks ==
  ASSUME RoleInv
  PROVE  /\ Joined(groupRole) \subseteq Ranks \intersect GivenNow
         /\ Joined(groupGate) \subseteq Ranks \intersect GivenNow
BY DEF RoleInv, RoleTypeOK, Joined, GivenNow

LEMMA RoleStep == RoleInv /\ [RoleNext]_roleVars => RoleInv'
<1> SUFFICES ASSUME RoleInv, [RoleNext]_roleVars PROVE RoleInv'
  OBVIOUS
<1>1. CASE UNCHANGED roleVars
  BY <1>1 DEF roleVars, RoleInv, RoleTypeOK
<1>2. CASE RoleNext
  <2>1. given' = IF check'.pc = "idle" THEN {} ELSE given \union GivenNow \union GivenNow'
    BY <1>2 DEF RoleNext
  <2>2. CASE Edits
    <3>1. check' = check
      BY <2>2 DEF Edits
    <3> QED BY <2>1, <2>2, <3>1, EditsTyped DEF RoleInv
  <2>3. CASE ReadsUser
    <3>1. Continues("override", own) /\ check'.pc = "override"
      BY <2>3 DEF ReadsUser, Continues
    <3>2. own \in Ranks \intersect GivenNow
      BY DEF RoleInv, RoleTypeOK, GivenNow
    <3> QED BY <2>1, <3>1, <3>2, CheckGoes
  <2>4. CASE ReadsOverride
    <3>1. PICK pc \in {"global", "groups"}, role \in {override, check.role} : Continues(pc, role)
      BY <2>4 DEF ReadsOverride
    <3>2. check.pc # "idle" /\ check'.pc # "idle"
      BY <2>4, <3>1 DEF ReadsOverride, Continues
    <3>3. role \in Ranks /\ (role \in GivenNow \/ role = check.role)
      BY <3>1 DEF RoleInv, RoleTypeOK, GivenNow
    <3> QED BY <2>1, <3>1, <3>2, <3>3, CheckGoes
  <2>5. CASE ReadsGroups
    <3> DEFINE role == IF GroupOverride # 0 THEN GroupOverride ELSE check.role
    <3>1. Continues("global", role) /\ check.pc # "idle" /\ check'.pc = "global"
      BY <2>5 DEF ReadsGroups, Continues
    <3>2. GroupOverride = 0 \/ GroupOverride \in Ranks \intersect GivenNow
      BY JoinedRanks, HighestRank DEF GroupOverride
    <3>3. role \in Ranks /\ (role \in GivenNow \/ role = check.role)
      BY <3>2 DEF RoleInv, RoleTypeOK
    <3> QED BY <2>1, <3>1, <3>3, CheckGoes
  <2>6. CASE ReadsGlobal
    <3> DEFINE S == {check.role} \union Joined(groupRole)
               role == Highest(S)
    <3>1. Continues("done", role) /\ check.pc # "idle" /\ check'.pc = "done"
      BY <2>6 DEF ReadsGlobal, Continues
    <3>2. S \in SUBSET Ranks /\ check.role \in Nat
      BY JoinedRanks, TopAssumption DEF RoleInv, RoleTypeOK, Ranks
    <3> HIDE DEF S
    <3>3. role \in S \union {0} /\ \A x \in S : x <= role
      BY <3>2, HighestRank
    <3> HIDE DEF role
    <3>4. role = 0 => check.role = 0
      BY <3>2, <3>3 DEF S
    <3>5. role \in S
      BY <3>3, <3>4 DEF S
    <3>6. role \in Ranks /\ (role \in GivenNow \/ role = check.role)
      BY <3>2, <3>5, JoinedRanks DEF S
    <3> QED BY <2>1, <3>1, <3>6, CheckGoes
  <2>7. CASE Decides
    <3>1. check' = [pc |-> "idle", role |-> 0] /\ UNCHANGED <<own, override, groupRole, groupGate, members>> /\ 0 \in Ranks
      BY <2>7, TopAssumption DEF Decides, Continues, sources, Ranks
    <3> QED BY <3>1 DEF RoleInv, RoleTypeOK
  <2> QED BY <1>2, <2>2, <2>3, <2>4, <2>5, <2>6, <2>7 DEF RoleNext
<1> QED BY <1>1, <1>2

\* A check never makes up a role, for any groups and ranks.
THEOREM RolesAreGiven == RoleSpec => []RoleWasGiven
<1>1. RoleInv => RoleWasGiven
  BY DEF RoleInv, RoleWasGiven
<1> QED BY <1>1, RoleBegins, RoleStep, PTL DEF RoleSpec

-----------------------------------------------------------------------------
(* Tenants: what a view has read so far is borne out by what was so since  *)
(* the view began, and what was so all along is in it.                     *)

RowsTyped ==
  /\ tenants \subseteq TenantIds /\ nodes \subseteq Nodes
  /\ holds \subseteq tenants \X nodes
  /\ belongs \subseteq tenants
  /\ assign.pc = "gateway" => assign.row \in TenantIds \X Nodes

\* What the history says now is so now.
Up ==
  /\ belongs \subseteq since.mine /\ holds \subseteq since.held
  /\ belongs = {} => since.free
  /\ \A t \in TenantIds, n \in Nodes : <<t, n>> \in since.always => <<t, n>> \in holds /\ t \in belongs
  /\ since.always \subseteq TenantIds \X Nodes

\* Gateways that were the user's at some time, or the user saw all.
Fair(N, s) == s.free \/ \A n \in N : \E t \in s.mine : <<t, n>> \in s.held

\* Those that were the user's all along.
Whole(N, s) == \A t \in TenantIds, n \in Nodes : <<t, n>> \in s.always => n \in N

ViewRec ==
  [pc: {"idle", "scope", "names", "overview", "members", "again", "gateways", "done"},
   kind: {"list", "fleet", "rollup"}, of: SUBSET TenantIds, read: SUBSET Nodes, shown: SUBSET Nodes]

\* What a view has read fits the history.
Borne(v, s) ==
  CASE v.pc = "idle" -> v = NoView
    [] v.pc = "scope" -> v.kind = "fleet" \/ (v.kind = "list" /\ Whole(v.read, s))
    [] v.pc = "names" ->
         /\ v.kind = "fleet" \/ (v.kind = "list" /\ Whole(v.read, s))
         /\ v.of \subseteq s.mine
         /\ \A t \in TenantIds, n \in Nodes : <<t, n>> \in s.always => t \in v.of
    [] v.pc = "overview" -> v.kind = "fleet" /\ Fair(v.read, s) /\ Whole(v.read, s)
    [] v.pc = "members" -> v.kind = "rollup" /\ v.shown = {}
    [] v.pc \in {"again", "gateways"} -> v.kind = "rollup" /\ v.shown = {} /\ v.of \subseteq s.mine
    [] v.pc = "done" -> IF v.kind = "rollup"
                        THEN v.of \subseteq s.mine /\ \A n \in v.shown : \E t \in v.of : <<t, n>> \in s.held
                        ELSE Fair(v.shown, s) /\ Whole(v.shown, s)
    [] OTHER -> FALSE

ViewFits(v, s) == v \in ViewRec /\ Borne(v, s)

TenantInv == RowsTyped /\ Up /\ ViewFits(view, since)

\* The history only grows while a view goes on.
Later(s, u) ==
  /\ s.mine \subseteq u.mine /\ s.held \subseteq u.held /\ (s.free => u.free)
  /\ u.always \subseteq s.always

LEMMA FitsLater == ASSUME NEW v, NEW s, NEW u, ViewFits(v, s), Later(s, u) PROVE ViewFits(v, u)
<1>1. \A N : (Fair(N, s) => Fair(N, u)) /\ (Whole(N, s) => Whole(N, u))
  BY DEF Fair, Whole, Later
<1>2. v.of \subseteq s.mine => v.of \subseteq u.mine
  BY DEF Later
<1>3. (\A t \in TenantIds, n \in Nodes : <<t, n>> \in s.always => t \in v.of) =>
       \A t \in TenantIds, n \in Nodes : <<t, n>> \in u.always => t \in v.of
  BY DEF Later
<1>4. (\A n \in v.shown : \E t \in v.of : <<t, n>> \in s.held) =>
       \A n \in v.shown : \E t \in v.of : <<t, n>> \in u.held
  BY DEF Later
<1> HIDE DEF Later
<1> QED BY <1>1, <1>2, <1>3, <1>4 DEF ViewFits, Borne

LEMMA TenantBegins == TenantInit => TenantInv
<1> SUFFICES ASSUME TenantInit PROVE TenantInv
  OBVIOUS
<1>1. RowsTyped /\ view = NoView /\ since = Now
  BY DEF TenantInit, RowsTyped, NoAssign
<1>2. Up
  BY <1>1 DEF Up, Now, RowsTyped
<1>3. ViewFits(view, since)
  BY <1>1 DEF ViewFits, Borne, ViewRec, NoView
<1> QED BY <1>1, <1>2, <1>3 DEF TenantInv

\* The history of the new state, whatever the step.
LEMMA HistoryUp ==
  ASSUME TenantInv, RowsTyped',
         since' = IF view'.pc = "idle" THEN Now'
                  ELSE [mine |-> since.mine \cup belongs', held |-> since.held \cup holds',
                        free |-> since.free \/ belongs' = {}, always |-> since.always \cap Now.always']
  PROVE  Up' /\ (view'.pc # "idle" => Later(since, since'))
<1>1. CASE view'.pc = "idle"
  <2>1. /\ since'.mine = belongs' /\ since'.held = holds' /\ since'.free = (belongs' = {})
        /\ since'.always = {r \in holds' : r[1] \in belongs'}
    BY <1>1 DEF Now
  <2>2. \A t \in TenantIds, n \in Nodes : <<t, n>> \in since'.always => <<t, n>> \in holds' /\ t \in belongs'
    BY <2>1
  <2>3. since'.always \subseteq TenantIds \X Nodes
    BY <2>1 DEF RowsTyped
  <2> QED BY <1>1, <2>1, <2>2, <2>3 DEF Up
<1>2. CASE view'.pc # "idle"
  <2>1. /\ since'.mine = since.mine \cup belongs' /\ since'.held = since.held \cup holds'
        /\ since'.free = (since.free \/ belongs' = {})
        /\ since'.always = since.always \cap Now.always'
    BY <1>2
  <2>2. Now.always' = {r \in holds' : r[1] \in belongs'}
    BY DEF Now
  <2>3. \A t \in TenantIds, n \in Nodes : <<t, n>> \in since'.always => <<t, n>> \in holds' /\ t \in belongs'
    BY <2>1, <2>2
  <2>4. since'.always \subseteq TenantIds \X Nodes
    BY <2>1 DEF TenantInv, Up
  <2>5. Later(since, since')
    BY <2>1 DEF Later
  <2> QED BY <1>2, <2>1, <2>3, <2>4, <2>5 DEF Up
<1> QED BY <1>1, <1>2

\* Edits and assignments keep the rows typed and the view as it is.
LEMMA EditsKeep == ASSUME RowsTyped, Edit \/ Assigns PROVE RowsTyped' /\ view' = view
<1>1. CASE Assigns
  <2>1. view' = view /\ UNCHANGED <<tenants, nodes, holds, belongs>>
    BY <1>1 DEF Assigns, tenantRows
  <2>2. \/ \E t \in TenantIds : assign' = [pc |-> "user", row |-> <<t>>]
        \/ \E t \in TenantIds, n \in Nodes : assign' = [pc |-> "gateway", row |-> <<t, n>>]
    BY <1>1 DEF Assigns, AddUserLooks, AddGatewayLooks
  <2>3. assign'.pc = "gateway" => assign'.row \in TenantIds \X Nodes
    BY <2>2
  <2> QED BY <2>1, <2>3 DEF RowsTyped
<1>2. CASE Edit
  <2>1. view' = view
    BY <1>2 DEF Edit
  <2>0. NoAssign.pc = "idle"
    BY DEF NoAssign
  <2>2. ASSUME NEW T, NEW N, Drops(T, N), UNCHANGED assign PROVE RowsTyped'
    <3>1. /\ tenants' = tenants \ T /\ nodes' = nodes \ N /\ belongs' = belongs \ T
          /\ holds' = {r \in holds : r[1] \notin T /\ r[2] \notin N}
      BY <2>2 DEF Drops
    <3>2. \A r \in holds' : r \in tenants' \X nodes'
      BY <3>1 DEF RowsTyped
    <3> QED BY <2>2, <3>1, <3>2 DEF RowsTyped
  <2>3. ASSUME NEW t \in TenantIds, UNCHANGED assign, CreateTenant(t) \/ DeleteTenant(t) \/ RemoveUser(t) PROVE RowsTyped'
    BY <2>2, <2>3 DEF CreateTenant, DeleteTenant, RemoveUser, RowsTyped
  <2>4. ASSUME NEW n \in Nodes, UNCHANGED assign, Enrolls(n) \/ Strikes(n) PROVE RowsTyped'
    BY <2>2, <2>4 DEF Enrolls, Strikes, RowsTyped
  <2>5. ASSUME NEW t \in TenantIds, NEW n \in Nodes, UNCHANGED assign, RemoveGateway(t, n) PROVE RowsTyped'
    BY <2>5 DEF RemoveGateway, RowsTyped
  <2>6. CASE AddGatewayCommits
    <3>1. UNCHANGED <<tenants, nodes, belongs>> /\ assign' = NoAssign
      BY <2>6 DEF AddGatewayCommits
    <3>2. holds' \subseteq tenants \X nodes
      BY <2>6 DEF AddGatewayCommits, RowsTyped
    <3> QED BY <2>0, <2>1, <3>1, <3>2 DEF RowsTyped
  <2>7. CASE AddUserCommits
    BY <2>0, <2>1, <2>7 DEF AddUserCommits, RowsTyped
  <2> QED BY <1>2, <2>1, <2>3, <2>4, <2>5, <2>6, <2>7 DEF Edit
<1> QED BY <1>1, <1>2

\* The gateways a scope names, by the rows as they are.
LEMMA HeldNow ==
  ASSUME RowsTyped, NEW T \in SUBSET TenantIds
  PROVE  /\ HeldBy(T) \in SUBSET Nodes
         /\ \A n \in HeldBy(T) : \E t \in T : <<t, n>> \in holds
         /\ \A t \in T, n \in Nodes : <<t, n>> \in holds => n \in HeldBy(T)
BY DEF RowsTyped, HeldBy

LEMMA ViewKeeps ==
  ASSUME TenantInv, ViewStep,
         since' = IF view'.pc = "idle" THEN Now'
                  ELSE [mine |-> since.mine \cup belongs', held |-> since.held \cup holds',
                        free |-> since.free \/ belongs' = {}, always |-> since.always \cap Now.always']
  PROVE  TenantInv'
<1>1. RowsTyped /\ Up /\ view \in ViewRec /\ Borne(view, since)
  BY DEF TenantInv, ViewFits
<1>2. UNCHANGED <<tenants, nodes, holds, belongs, assign>>
  BY DEF ViewStep, ListReads, FleetBegins, ReadsTenants, ReadsNames, ReadsFleet, ScopeFails, RollupReadsTenant,
         RollupReadsMembers, RollupReadsAgain, RollupReadsGateways, Answers, Turns, tenantRows
<1>3. RowsTyped'
  BY <1>1, <1>2 DEF RowsTyped
<1>4. Up' /\ (view'.pc # "idle" => Later(since, since'))
  BY <1>3, HistoryUp
<1>5. /\ belongs \subseteq since'.mine /\ holds \subseteq since'.held /\ (belongs = {} => since'.free)
      /\ \A t \in TenantIds, n \in Nodes : <<t, n>> \in since'.always => <<t, n>> \in holds /\ t \in belongs
  BY <1>2, <1>4 DEF Up
<1>6. view'.pc # "idle" => Borne(view, since')
  BY <1>1, <1>4, FitsLater DEF ViewFits
<1>7. NoView \in ViewRec /\ NoView.pc = "idle" /\ Borne(NoView, since')
  BY DEF NoView, ViewRec, Borne
<1>8. nodes \subseteq Nodes /\ belongs \subseteq TenantIds
  BY <1>1 DEF RowsTyped
<1>9. \A t \in TenantIds, n \in Nodes : <<t, n>> \in holds => n \in nodes
  BY <1>1 DEF RowsTyped
<1> SUFFICES ViewFits(view', since')
  BY <1>3, <1>4 DEF TenantInv
<1>10. CASE ListReads
  <2>1. view.pc = "idle" /\ view' = [view EXCEPT !.kind = "list", !.read = nodes, !.pc = "scope"]
    BY <1>1, <1>10 DEF ListReads, Turns, ViewRec
  <2>2. view' \in ViewRec /\ view'.pc = "scope" /\ view'.kind = "list" /\ view'.read = nodes
    BY <1>1, <1>8, <2>1 DEF ViewRec
  <2>3. Whole(nodes, since')
    BY <1>5, <1>9 DEF Whole
  <2> QED BY <2>2, <2>3 DEF ViewFits, Borne
<1>11. CASE FleetBegins
  <2>1. view' = [view EXCEPT !.kind = "fleet", !.pc = "scope"]
    BY <1>1, <1>11 DEF FleetBegins, Turns, ViewRec
  <2>2. view' \in ViewRec /\ view'.pc = "scope" /\ view'.kind = "fleet"
    BY <1>1, <2>1 DEF ViewRec
  <2> QED BY <2>2 DEF ViewFits, Borne
<1>12. CASE ReadsTenants
  <2>1. view.pc = "scope"
    BY <1>12 DEF ReadsTenants
  <2>2. view.kind = "fleet" \/ (view.kind = "list" /\ (view'.pc # "idle" => Whole(view.read, since')))
    BY <1>1, <1>6, <2>1 DEF Borne
  <2>3. CASE belongs = {} /\ view.kind = "list"
    <3>1. view' = [view EXCEPT !.shown = view.read, !.pc = "done"]
      BY <1>1, <1>12, <2>3 DEF ReadsTenants, Unscoped, Turns, ViewRec
    <3>2. view' \in ViewRec /\ view'.pc = "done" /\ view'.kind = "list" /\ view'.shown = view.read
      BY <1>1, <2>3, <3>1 DEF ViewRec
    <3>3. Fair(view'.shown, since') /\ Whole(view'.shown, since')
      BY <1>5, <2>2, <2>3, <3>2 DEF Fair
    <3> QED BY <3>2, <3>3 DEF ViewFits, Borne
  <2>4. CASE belongs = {} /\ view.kind # "list"
    <3>1. view' = [view EXCEPT !.read = Nodes, !.pc = "overview"]
      BY <1>1, <1>12, <2>4 DEF ReadsTenants, Unscoped, Turns, ViewRec
    <3>2. view' \in ViewRec /\ view'.pc = "overview" /\ view'.kind = "fleet" /\ view'.read = Nodes
      BY <1>1, <2>2, <2>4, <3>1 DEF ViewRec
    <3>3. Fair(Nodes, since') /\ Whole(Nodes, since')
      BY <1>5, <2>4 DEF Fair, Whole
    <3> QED BY <3>2, <3>3 DEF ViewFits, Borne
  <2>5. CASE belongs # {}
    <3>1. view' = [view EXCEPT !.of = belongs, !.pc = "names"]
      BY <1>1, <1>12, <2>5 DEF ReadsTenants, Unscoped, Turns, ViewRec
    <3>2. /\ view' \in ViewRec /\ view'.pc = "names" /\ view'.kind = view.kind /\ view'.read = view.read
          /\ view'.of = belongs
      BY <1>1, <1>8, <3>1 DEF ViewRec
    <3> QED BY <1>5, <2>2, <3>2 DEF ViewFits, Borne
  <2> QED BY <2>3, <2>4, <2>5
<1>13. CASE ReadsNames
  <2>1. view.pc = "names" /\ view.of \in SUBSET TenantIds /\ view.read \in SUBSET Nodes
    BY <1>1, <1>13 DEF ReadsNames, ViewRec
  <2> DEFINE H == HeldBy(view.of)
  <2>2. /\ H \in SUBSET Nodes
        /\ \A n \in H : \E t \in view.of : <<t, n>> \in holds
        /\ \A t \in view.of, n \in Nodes : <<t, n>> \in holds => n \in H
    BY <1>1, <2>1, HeldNow
  <2>3. CASE view.kind = "list"
    <3>1. view' = [view EXCEPT !.shown = view.read \cap H, !.pc = "done"]
      BY <1>1, <1>13, <2>3 DEF ReadsNames, Turns, ViewRec
    <3> HIDE DEF H
    <3>2. view' \in ViewRec /\ view'.pc = "done" /\ view'.kind = "list" /\ view'.shown = view.read \cap H
      BY <1>1, <2>1, <2>3, <3>1 DEF ViewRec
    <3>3. /\ Whole(view.read, since') /\ view.of \subseteq since'.mine
          /\ \A t \in TenantIds, n \in Nodes : <<t, n>> \in since'.always => t \in view.of
      BY <1>6, <2>1, <2>3, <3>2 DEF Borne
    <3>4. Fair(view.read \cap H, since')
      BY <1>5, <2>2, <3>3 DEF Fair
    <3>5. Whole(view.read \cap H, since')
      BY <1>5, <2>2, <3>3 DEF Whole
    <3> QED BY <3>2, <3>4, <3>5 DEF ViewFits, Borne
  <2>4. CASE view.kind # "list"
    <3>1. view' = [view EXCEPT !.read = H, !.pc = "overview"]
      BY <1>1, <1>13, <2>4 DEF ReadsNames, Turns, ViewRec
    <3> HIDE DEF H
    <3>2. view' \in ViewRec /\ view'.pc = "overview" /\ view'.kind = view.kind /\ view'.read = H
      BY <1>1, <2>2, <3>1 DEF ViewRec
    <3>3. /\ view.kind = "fleet" /\ view.of \subseteq since'.mine
          /\ \A t \in TenantIds, n \in Nodes : <<t, n>> \in since'.always => t \in view.of
      BY <1>6, <2>1, <2>4, <3>2 DEF Borne
    <3>4. Fair(H, since')
      BY <1>5, <2>2, <3>3 DEF Fair
    <3>5. Whole(H, since')
      BY <1>5, <2>2, <3>3 DEF Whole
    <3> QED BY <3>2, <3>3, <3>4, <3>5 DEF ViewFits, Borne
  <2> QED BY <2>3, <2>4
<1>14. CASE ReadsFleet
  <2>1. view.pc = "overview" /\ view' = [view EXCEPT !.shown = nodes \cap view.read, !.pc = "done"]
    BY <1>1, <1>14 DEF ReadsFleet, Turns, ViewRec
  <2>2. view' \in ViewRec /\ view'.pc = "done" /\ view'.kind = view.kind /\ view'.shown = nodes \cap view.read
    BY <1>1, <1>8, <2>1 DEF ViewRec
  <2>3. view.kind = "fleet" /\ Fair(view.read, since') /\ Whole(view.read, since')
    BY <1>6, <2>1, <2>2 DEF Borne
  <2>4. Fair(nodes \cap view.read, since') /\ Whole(nodes \cap view.read, since')
    BY <1>5, <1>9, <2>3 DEF Fair, Whole
  <2> QED BY <2>2, <2>3, <2>4 DEF ViewFits, Borne
<1>15. CASE ScopeFails \/ Answers
  <2>1. view' = [NoView EXCEPT !.pc = "idle"]
    BY <1>15 DEF ScopeFails, Answers, Turns
  <2>2. view' = NoView
    BY <2>1 DEF NoView
  <2> QED BY <1>7, <2>2 DEF ViewFits
<1>16. ASSUME NEW t \in TenantIds, RollupReadsTenant(t) PROVE ViewFits(view', since')
  <2>1. view.pc = "idle" /\ view' = [view EXCEPT !.kind = "rollup", !.of = {t}, !.pc = "members"]
    BY <1>1, <1>16 DEF RollupReadsTenant, Turns, ViewRec
  <2>2. view.shown = {}
    BY <1>1, <2>1 DEF Borne, NoView
  <2>3. view' \in ViewRec /\ view'.pc = "members" /\ view'.kind = "rollup" /\ view'.shown = {}
    BY <1>1, <2>1, <2>2 DEF ViewRec
  <2> QED BY <2>3 DEF ViewFits, Borne
<1>17. CASE RollupReadsMembers
  <2>1. view.pc = "members" /\ view.kind = "rollup" /\ view.shown = {}
    BY <1>1, <1>17 DEF RollupReadsMembers, Borne
  <2>2. CASE view.of \subseteq belongs
    <3>1. view' = [view EXCEPT !.pc = "again"]
      BY <1>17, <2>2 DEF RollupReadsMembers, Turns
    <3>2. /\ view' \in ViewRec /\ view'.pc = "again" /\ view'.kind = view.kind /\ view'.shown = view.shown
          /\ view'.of = view.of
      BY <1>1, <3>1 DEF ViewRec
    <3> QED BY <1>5, <2>1, <2>2, <3>2 DEF ViewFits, Borne
  <2>3. CASE ~ (view.of \subseteq belongs)
    <3>1. view' = NoView
      BY <1>17, <2>3 DEF RollupReadsMembers, Turns, NoView
    <3> QED BY <1>7, <3>1 DEF ViewFits
  <2> QED BY <2>2, <2>3
<1>18. CASE RollupReadsAgain
  <2>1. PICK pc \in {"gateways", "done"} : view' = [view EXCEPT !.pc = pc]
    BY <1>18 DEF RollupReadsAgain, Turns
  <2>2. /\ view' \in ViewRec /\ view'.pc = pc /\ view'.kind = view.kind /\ view'.shown = view.shown
        /\ view'.of = view.of
    BY <1>1, <2>1 DEF ViewRec
  <2>3. view.kind = "rollup" /\ view.shown = {} /\ view.of \subseteq since'.mine
    BY <1>6, <1>18, <2>2 DEF RollupReadsAgain, Borne
  <2> QED BY <2>2, <2>3 DEF ViewFits, Borne
<1>19. CASE RollupReadsGateways
  <2> DEFINE H == HeldBy(view.of)
  <2>1. view.pc = "gateways" /\ view' = [view EXCEPT !.shown = H, !.pc = "done"] /\ view.of \in SUBSET TenantIds
    BY <1>1, <1>19 DEF RollupReadsGateways, Turns, ViewRec
  <2>2. H \in SUBSET Nodes /\ \A n \in H : \E t \in view.of : <<t, n>> \in holds
    BY <1>1, <2>1, HeldNow
  <2> HIDE DEF H
  <2>3. /\ view' \in ViewRec /\ view'.pc = "done" /\ view'.kind = view.kind /\ view'.shown = H
        /\ view'.of = view.of
    BY <1>1, <2>1, <2>2 DEF ViewRec
  <2>4. view.kind = "rollup" /\ view.of \subseteq since'.mine
    BY <1>6, <2>1, <2>3 DEF Borne
  <2> QED BY <1>5, <2>2, <2>3, <2>4 DEF ViewFits, Borne
<1> QED BY <1>10, <1>11, <1>12, <1>13, <1>14, <1>15, <1>16, <1>17, <1>18, <1>19 DEF ViewStep

LEMMA TenantStep == TenantInv /\ [TenantNext]_tenantVars => TenantInv'
<1> SUFFICES ASSUME TenantInv, [TenantNext]_tenantVars PROVE TenantInv'
  OBVIOUS
<1>1. CASE UNCHANGED tenantVars
  BY <1>1 DEF tenantVars, tenantRows, TenantInv, RowsTyped, Up
<1>2. CASE TenantNext
  <2>1. since' = IF view'.pc = "idle" THEN Now'
                 ELSE [mine |-> since.mine \cup belongs', held |-> since.held \cup holds',
                       free |-> since.free \/ belongs' = {}, always |-> since.always \cap Now.always']
    BY <1>2 DEF TenantNext
  <2>2. CASE Edit \/ Assigns
    <3>1. RowsTyped' /\ view' = view
      BY <2>2, EditsKeep DEF TenantInv
    <3>2. Up' /\ (view'.pc # "idle" => Later(since, since'))
      BY <2>1, <3>1, HistoryUp
    <3>3. ViewFits(view, since')
      <4>1. CASE view.pc = "idle"
        BY <4>1 DEF TenantInv, ViewFits, Borne
      <4>2. CASE view.pc # "idle"
        BY <3>1, <3>2, <4>2, FitsLater DEF TenantInv
      <4> QED BY <4>1, <4>2
    <3> QED BY <3>1, <3>2, <3>3 DEF TenantInv
  <2>3. CASE ViewStep
    BY <2>1, <2>3, ViewKeeps
  <2> QED BY <1>2, <2>2, <2>3 DEF TenantNext
<1> QED BY <1>1, <1>2

\* Whatever is edited while a view reads, what it shows was the user's, and what
\* was the user's all along is shown; for any tenants, gateways and edits.
THEOREM ScopesHold == TenantSpec => []ScopeHolds
<1>1. ASSUME TenantInv PROVE ScopeHolds
  <2> SUFFICES ASSUME view.pc = "done" PROVE ScopeHolds
    BY DEF ScopeHolds
  <2>1. Borne(view, since) /\ Up
    BY <1>1 DEF TenantInv, ViewFits
  <2>2. Whole(view.shown, since) => {r[2] : r \in since.always} \subseteq view.shown
    BY <2>1 DEF Up, Whole
  <2> QED BY <2>1, <2>2 DEF ScopeHolds, Borne, Fair
<1> QED BY <1>1, TenantBegins, TenantStep, PTL DEF TenantSpec

-----------------------------------------------------------------------------
(* Local gateways: what a job has found still holds when it acts, or the   *)
(* history says what came in between.                                      *)

JobRec ==
  [pc: {"new", "asked", "empty", "run", "done", "failed", "refused"}, op: {"none", "create", "start", "stop", "destroy"},
   n: LocalNames \union {Call0.n}, port: 0 .. MaxPort, auto: BOOLEAN, force: BOOLEAN,
   raced: BOOLEAN, clash: BOOLEAN, lost: BOOLEAN, late: BOOLEAN, blind: BOOLEAN]

\* The port that was chosen is still no other's; the gateway that was empty still is.
JobFits(j, ports, fulls) ==
  /\ j \in JobRec
  /\ j.auto => j.op = "create"
  /\ j.clash \/ j.lost => j.pc = "done"
  /\ j.auto /\ j.clash => j.raced
  /\ j.auto /\ j.pc = "run" /\ ~ j.raced => \A m \in OtherNames(j.n) : ports[m] # j.port
  /\ j.lost /\ ~ j.force => j.late \/ j.blind
  /\ j.op = "destroy" /\ j.pc = "empty" => j.force
  /\ j.op = "destroy" /\ j.pc = "run" /\ ~ j.force /\ ~ j.late /\ ~ j.blind => j.n \notin fulls

LocalInv ==
  /\ port \in [LocalNames -> 0 .. MaxPort]
  /\ DOMAIN job = LocalCalls
  /\ \A c \in LocalCalls : JobFits(job[c], port, full)

LEMMA FirstCall == ASSUME NEW ports, NEW fulls PROVE JobFits(Call0, ports, fulls)
<1>1. Call0 \in JobRec
  <2>1. Call0.n = CHOOSE n \in LocalNames : TRUE
    BY DEF Call0
  <2> QED BY <2>1, PortAssumption DEF Call0, JobRec
<1> QED BY <1>1 DEF JobFits, Call0

LEMMA LocalBegins == LocalInit => LocalInv
BY FirstCall DEF LocalInit, LocalInv

\* One job steps, and nothing else changes.
LEMMA JobSteps == ASSUME LocalInv, NEW c \in LocalCalls, NEW r, Steps(c, r), JobFits(r, port, full) PROVE LocalInv'
BY DEF LocalInv, Steps

\* The file of a gateway is written: the others have been told.
LEMMA FileWritten ==
  ASSUME LocalInv, NEW c \in LocalCalls, NEW r, NEW n, NEW p \in 0 .. MaxPort,
         port' = [port EXCEPT ![n] = p], job' = Races(c, r, n), full' \subseteq full, JobFits(r, port', full')
  PROVE  LocalInv'
<1>1. port' \in [LocalNames -> 0 .. MaxPort] /\ \A m \in LocalNames : m # n => port'[m] = port[m]
  BY DEF LocalInv
<1>2. DOMAIN job' = LocalCalls /\ job'[c] = r
  BY DEF Races
<1>3. ASSUME NEW d \in LocalCalls, d # c PROVE JobFits(job'[d], port', full')
  <2>1. JobFits(job[d], port, full)
    BY DEF LocalInv
  <2>2. CASE job[d].n = n
    <3>1. job'[d] = job[d]
      BY <1>3, <2>2 DEF Races
    <3> QED BY <1>1, <2>1, <2>2, <3>1 DEF JobFits, OtherNames
  <2>3. CASE job[d].n # n
    <3>1. job'[d] = [job[d] EXCEPT !.raced = TRUE]
      BY <1>3, <2>3 DEF Races
    <3>2. /\ job'[d] \in JobRec /\ job'[d].raced
          /\ job'[d].auto = job[d].auto /\ job'[d].op = job[d].op /\ job'[d].lost = job[d].lost
          /\ job'[d].force = job[d].force /\ job'[d].late = job[d].late /\ job'[d].blind = job[d].blind
          /\ job'[d].pc = job[d].pc /\ job'[d].n = job[d].n
      BY <2>1, <3>1 DEF JobFits, JobRec
    <3>3. job'[d].lost /\ ~ job'[d].force => job'[d].late \/ job'[d].blind
      BY <2>1, <3>2 DEF JobFits
    <3>4. job'[d].op = "destroy" /\ job'[d].pc = "run" /\ ~ job'[d].force /\ ~ job'[d].late /\ ~ job'[d].blind =>
            job'[d].n \notin full'
      BY <2>1, <3>2 DEF JobFits
    <3>5. job'[d].clash = job[d].clash
      BY <2>1, <3>1 DEF JobFits, JobRec
    <3> QED BY <2>1, <3>2, <3>3, <3>4, <3>5 DEF JobFits
  <2> QED BY <2>2, <2>3
<1> QED BY <1>1, <1>2, <1>3 DEF LocalInv

\* The tool runs for a new gateway or for one without a container.
LEMMA ToolRuns ==
  ASSUME LocalInv, NEW c \in LocalCalls, job[c].pc = "run", job[c].op \in {"create", "start"}, NEW p \in 0 .. MaxPort,
         job[c].auto => p = job[c].port, Runs(c, job[c].n, p)
  PROVE  LocalInv'
<1> DEFINE n == job[c].n
           clash == \E m \in OtherNames(n) : port[m] = p
           r == [job[c] EXCEPT !.pc = "done", !.clash = clash]
<1>1. port' = [port EXCEPT ![n] = p] /\ job' = Races(c, r, n) /\ full' = full
  BY DEF Runs
<1>2. JobFits(job[c], port, full)
  BY DEF LocalInv
<1>3. job[c].auto /\ ~ job[c].raced => ~ clash
  BY <1>2 DEF JobFits
<1>4. clash \in BOOLEAN
  OBVIOUS
<1> HIDE DEF clash
<1>5. /\ r \in JobRec /\ r.pc = "done" /\ r.clash = clash /\ r.auto = job[c].auto /\ r.op = job[c].op
      /\ r.raced = job[c].raced /\ r.lost = job[c].lost /\ r.force = job[c].force /\ r.late = job[c].late
      /\ r.blind = job[c].blind
  BY <1>2, <1>4 DEF JobFits, JobRec
<1> HIDE DEF r
<1>6. JobFits(r, port', full')
  BY <1>2, <1>3, <1>5 DEF JobFits
<1> QED BY <1>1, <1>6, FileWritten

\* A job goes on to a step at which it promises nothing.
LEMMA JobGoes ==
  ASSUME LocalInv, NEW c \in LocalCalls, job[c].pc # "done", NEW pc \in {"done", "failed", "refused"}
  PROVE  JobFits([job[c] EXCEPT !.pc = pc], port, full)
<1> DEFINE r == [job[c] EXCEPT !.pc = pc]
<1>1. JobFits(job[c], port, full)
  BY DEF LocalInv
<1>2. /\ r \in JobRec /\ r.pc = pc /\ r.clash = job[c].clash /\ r.auto = job[c].auto /\ r.op = job[c].op
      /\ r.raced = job[c].raced /\ r.lost = job[c].lost /\ r.force = job[c].force /\ r.late = job[c].late
      /\ r.blind = job[c].blind
  BY <1>1 DEF JobFits, JobRec
<1> QED BY <1>1, <1>2 DEF JobFits

\* A job that is no automatic create, and no deletion without force, is about to run.
LEMMA JobRuns ==
  ASSUME LocalInv, NEW c \in LocalCalls, job[c].pc # "done", ~ job[c].auto, job[c].op = "destroy" => job[c].force
  PROVE  JobFits([job[c] EXCEPT !.pc = "run"], port, full)
<1> DEFINE r == [job[c] EXCEPT !.pc = "run"]
<1>1. JobFits(job[c], port, full)
  BY DEF LocalInv
<1>2. /\ r \in JobRec /\ r.pc = "run" /\ r.clash = job[c].clash /\ r.auto = job[c].auto /\ r.op = job[c].op
      /\ r.raced = job[c].raced /\ r.lost = job[c].lost /\ r.force = job[c].force /\ r.late = job[c].late
      /\ r.blind = job[c].blind
  BY <1>1 DEF JobFits, JobRec
<1> QED BY <1>1, <1>2 DEF JobFits

LEMMA NotAuto == ASSUME LocalInv, NEW c \in LocalCalls, job[c].op # "create" PROVE ~ job[c].auto
BY DEF LocalInv, JobFits

LEMMA LocalStep == LocalInv /\ [LocalNext]_localVars => LocalInv'
<1> SUFFICES ASSUME LocalInv, [LocalNext]_localVars PROVE LocalInv'
  OBVIOUS
<1>1. CASE UNCHANGED localVars
  BY <1>1 DEF localVars, LocalInv
<1>2. ASSUME NEW c \in LocalCalls, Begins(c) PROVE LocalInv'
  <2>1. PICK op \in {"create", "start", "stop", "destroy"}, n \in LocalNames, f \in BOOLEAN, p \in 0 .. MaxPort :
          /\ (op = "create" => ~ f) /\ (op = "destroy" => p = 0) /\ (op \in {"start", "stop"} => ~ f /\ p = 0)
          /\ Steps(c, [Call0 EXCEPT !.pc = "asked", !.op = op, !.n = n, !.force = f, !.port = p,
                                    !.auto = op = "create" /\ p = 0])
    BY <1>2, Zenon DEF Begins
  <2> DEFINE auto == op = "create" /\ p = 0
             r == [Call0 EXCEPT !.pc = "asked", !.op = op, !.n = n, !.force = f, !.port = p, !.auto = auto]
  <2>2. auto \in BOOLEAN /\ (auto => op = "create")
    OBVIOUS
  <2> HIDE DEF auto
  <2>3. Call0 \in JobRec /\ ~ Call0.clash /\ ~ Call0.lost
    BY FirstCall DEF JobFits, Call0
  <2>4. r \in JobRec /\ r.pc = "asked" /\ r.op = op /\ r.auto = auto /\ ~ r.clash /\ ~ r.lost
    BY <2>2, <2>3 DEF JobRec
  <2>5. JobFits(r, port, full)
    BY <2>2, <2>4 DEF JobFits
  <2> QED BY <2>1, <2>5, JobSteps DEF auto
<1>3. ASSUME NEW c \in LocalCalls, GivesUp(c) PROVE LocalInv'
  BY <1>3, JobGoes, JobSteps DEF GivesUp
<1>4. ASSUME NEW c \in LocalCalls, CreateChecks(c) PROVE LocalInv'
  <2>1. ~ job[c].auto /\ job[c].op = "create" /\ job[c].pc = "asked"
    BY <1>4 DEF CreateChecks, At
  <2>2. Steps(c, [job[c] EXCEPT !.pc = "run"]) \/ Steps(c, [job[c] EXCEPT !.pc = "refused"])
    BY <1>4 DEF CreateChecks
  <2> QED BY <2>1, <2>2, JobGoes, JobRuns, JobSteps
<1>5. ASSUME NEW c \in LocalCalls, CreateChooses(c) PROVE LocalInv'
  <2>1. CASE FreePorts = {}
    BY <1>5, <2>1, JobGoes, JobSteps DEF CreateChooses, At
  <2>2. CASE FreePorts # {}
    <3> DEFINE p == Min(FreePorts)
               r == [job[c] EXCEPT !.pc = "run", !.port = p, !.raced = FALSE]
    <3>1. FreePorts \in SUBSET Nat
      BY DEF FreePorts, Ports
    <3>2. p \in FreePorts
      <4>1. \E m \in FreePorts : \A x \in FreePorts : m <= x
        BY <2>2, <3>1, Least
      <4> QED BY <4>1 DEF Min
    <3>3. p \in 0 .. MaxPort /\ \A m \in LocalNames : port[m] # p
      BY <3>2, PortAssumption DEF FreePorts, Ports, UsedPorts
    <3>4. Steps(c, r) /\ job[c].op = "create"
      BY <1>5, <2>2 DEF CreateChooses, At
    <3>5. JobFits(job[c], port, full)
      BY DEF LocalInv
    <3> HIDE DEF p
    <3>6. /\ r \in JobRec /\ r.pc = "run" /\ r.port = p /\ ~ r.raced /\ r.clash = job[c].clash /\ r.auto = job[c].auto
          /\ r.op = job[c].op /\ r.lost = job[c].lost /\ r.force = job[c].force /\ r.late = job[c].late
          /\ r.blind = job[c].blind /\ r.n = job[c].n
      BY <3>3, <3>5 DEF JobFits, JobRec
    <3> HIDE DEF r
    <3>7. ~ job[c].clash /\ ~ job[c].lost
      BY <1>5, <3>5 DEF CreateChooses, At, JobFits
    <3>8. JobFits(r, port, full)
      BY <3>3, <3>4, <3>5, <3>6, <3>7 DEF JobFits, OtherNames
    <3> QED BY <3>4, <3>8, JobSteps
  <2> QED BY <2>1, <2>2
<1>6. ASSUME NEW c \in LocalCalls, CreateRuns(c) PROVE LocalInv'
  <2>1. job[c].pc = "run" /\ job[c].op = "create" /\ job[c].port \in 0 .. MaxPort
    BY <1>6 DEF CreateRuns, At, LocalInv, JobFits, JobRec
  <2>2. CASE Runs(c, job[c].n, job[c].port)
    BY <2>1, <2>2, ToolRuns
  <2>3. CASE Steps(c, [job[c] EXCEPT !.pc = "done"])
    BY <2>1, <2>3, JobGoes, JobSteps
  <2> QED BY <1>6, <2>2, <2>3 DEF CreateRuns
<1>7. ASSUME NEW c \in LocalCalls, StartLooks(c) PROVE LocalInv'
  <2>1. job[c].pc = "asked" /\ job[c].op = "start"
    BY <1>7 DEF StartLooks, At
  <2>2. PICK pc \in {"done", "refused", "run"} : Steps(c, [job[c] EXCEPT !.pc = pc])
    BY <1>7 DEF StartLooks
  <2> QED BY <2>1, <2>2, NotAuto, JobRuns, JobGoes, JobSteps
<1>8. ASSUME NEW c \in LocalCalls, StartRuns(c) PROVE LocalInv'
  <2>1. job[c].pc = "run" /\ job[c].op = "start" /\ ~ job[c].auto
    BY <1>8, NotAuto DEF StartRuns, At
  <2>2. ASSUME NEW p \in Ports, Runs(c, job[c].n, p) PROVE LocalInv'
    BY <2>1, <2>2, ToolRuns, PortAssumption DEF Ports
  <2>3. CASE job' = [job EXCEPT ![c].pc = "done"] /\ UNCHANGED <<port, full>>
    <3>1. job' = [job EXCEPT ![c] = [job[c] EXCEPT !.pc = "done"]]
      BY <2>3
    <3> QED BY <2>1, <2>3, <3>1, JobGoes DEF LocalInv
  <2> QED BY <1>8, <2>2, <2>3 DEF StartRuns
<1>9. ASSUME NEW c \in LocalCalls, StopLooks(c) PROVE LocalInv'
  <2>1. job[c].pc = "asked" /\ job[c].op = "stop"
    BY <1>9 DEF StopLooks, At
  <2>2. PICK pc \in {"done", "run"} : Steps(c, [job[c] EXCEPT !.pc = pc])
    BY <1>9 DEF StopLooks
  <2> QED BY <2>1, <2>2, NotAuto, JobRuns, JobGoes, JobSteps
<1>10. ASSUME NEW c \in LocalCalls, StopRuns(c) PROVE LocalInv'
  <2>1. job[c].pc = "run" /\ job' = [job EXCEPT ![c].pc = "done"] /\ UNCHANGED <<port, full>>
    BY <1>10 DEF StopRuns, At
  <2>2. job' = [job EXCEPT ![c] = [job[c] EXCEPT !.pc = "done"]]
    BY <2>1
  <2> QED BY <2>1, <2>2, JobGoes DEF LocalInv
<1>11. ASSUME NEW c \in LocalCalls, DestroyBlind(c) PROVE LocalInv'
  <2> DEFINE r == [job[c] EXCEPT !.pc = "run", !.blind = TRUE]
  <2>1. JobFits(job[c], port, full) /\ job[c].pc = "asked" /\ job[c].op = "destroy" /\ Steps(c, r)
    BY <1>11 DEF DestroyBlind, At, LocalInv
  <2>2. /\ r \in JobRec /\ r.pc = "run" /\ r.blind /\ r.clash = job[c].clash /\ r.auto = job[c].auto
        /\ r.op = job[c].op /\ r.lost = job[c].lost
    BY <2>1 DEF JobFits, JobRec
  <2> HIDE DEF r
  <2>3. JobFits(r, port, full)
    BY <2>1, <2>2 DEF JobFits
  <2> QED BY <2>1, <2>3, JobSteps
<1>12. ASSUME NEW c \in LocalCalls, DestroyListFails(c) PROVE LocalInv'
  <2>1. job[c].pc = "asked" /\ job[c].op = "destroy" /\ ~ job[c].auto
    BY <1>12, NotAuto DEF DestroyListFails, At
  <2>2. \/ job[c].force /\ Steps(c, [job[c] EXCEPT !.pc = "run"])
        \/ Steps(c, [job[c] EXCEPT !.pc = "refused"])
    BY <1>12 DEF DestroyListFails
  <2> QED BY <2>1, <2>2, JobRuns, JobGoes, JobSteps
<1>13. ASSUME NEW c \in LocalCalls, DestroyLists(c) PROVE LocalInv'
  <2>1. job[c].pc = "asked" /\ job[c].op = "destroy" /\ ~ job[c].auto /\ JobFits(job[c], port, full)
    BY <1>13, NotAuto DEF DestroyLists, At, LocalInv
  <2>2. PICK pc \in {"empty", "refused", "run"} :
          /\ Steps(c, [job[c] EXCEPT !.pc = pc])
          /\ (pc = "empty" => job[c].force) /\ (pc = "run" => job[c].n \notin full)
    BY <1>13 DEF DestroyLists
  <2> DEFINE r == [job[c] EXCEPT !.pc = pc]
  <2>3. /\ r \in JobRec /\ r.pc = pc /\ r.clash = job[c].clash /\ r.auto = job[c].auto /\ r.n = job[c].n
        /\ r.op = job[c].op /\ r.lost = job[c].lost /\ r.force = job[c].force
    BY <2>1 DEF JobFits, JobRec
  <2>4. Steps(c, r)
    BY <2>2
  <2> HIDE DEF r
  <2>5. JobFits(r, port, full)
    BY <2>1, <2>2, <2>3 DEF JobFits
  <2> QED BY <2>4, <2>5, JobSteps
<1>14. ASSUME NEW c \in LocalCalls, DestroyEmpties(c) PROVE LocalInv'
  <2>1. job[c].pc = "empty" /\ job[c].op = "destroy" /\ ~ job[c].auto /\ job[c].force
    BY <1>14, NotAuto DEF DestroyEmpties, At, LocalInv, JobFits
  <2>2. /\ job' = [job EXCEPT ![c] = [job[c] EXCEPT !.pc = "run"]]
        /\ port' = port /\ full' \subseteq full
    BY <1>14 DEF DestroyEmpties
  <2>3. JobFits([job[c] EXCEPT !.pc = "run"], port, full)
    BY <2>1, JobRuns
  <2>4. \A j : JobFits(j, port, full) => JobFits(j, port, full')
    BY <2>2 DEF JobFits
  <2> QED BY <2>2, <2>3, <2>4 DEF LocalInv
<1>15. ASSUME NEW c \in LocalCalls, DestroyRuns(c) PROVE LocalInv'
  <2> DEFINE n == job[c].n
             lost == n \in full
             r == [job[c] EXCEPT !.pc = "done", !.lost = lost]
  <2>1. /\ port' = [port EXCEPT ![n] = 0] /\ full' = full \ {n} /\ job' = Races(c, r, n)
        /\ job[c].pc = "run" /\ job[c].op = "destroy" /\ 0 \in 0 .. MaxPort
    BY <1>15, PortAssumption DEF DestroyRuns, At
  <2>2. JobFits(job[c], port, full) /\ lost \in BOOLEAN
    BY DEF LocalInv
  <2>3. lost /\ ~ job[c].force => job[c].late \/ job[c].blind
    BY <2>1, <2>2 DEF JobFits
  <2> HIDE DEF lost
  <2>4. /\ r \in JobRec /\ r.pc = "done" /\ r.clash = job[c].clash /\ r.auto = job[c].auto /\ r.lost = lost
        /\ r.op = job[c].op /\ r.force = job[c].force /\ r.late = job[c].late /\ r.blind = job[c].blind
    BY <2>2 DEF JobFits, JobRec
  <2> HIDE DEF r
  <2>5. JobFits(r, port', full')
    BY <2>1, <2>2, <2>3, <2>4 DEF JobFits
  <2> QED BY <2>1, <2>5, FileWritten
<1>16. ASSUME NEW n \in LocalNames, Fills(n) PROVE LocalInv'
  <2>1. /\ port' = port /\ full' = full \union {n}
        /\ job' = [c \in LocalCalls |-> IF job[c].n = n THEN [job[c] EXCEPT !.late = @ \/ job[c].pc = "run"] ELSE job[c]]
    BY <1>16 DEF Fills
  <2>2. ASSUME NEW c \in LocalCalls PROVE JobFits(job'[c], port', full')
    <3>1. JobFits(job[c], port, full)
      BY DEF LocalInv
    <3>2. CASE job[c].n # n
      <4>1. job'[c] = job[c]
        BY <2>1, <3>2
      <4> QED BY <2>1, <3>1, <3>2, <4>1 DEF JobFits
    <3>3. CASE job[c].n = n
      <4> DEFINE nowLate == job[c].late \/ job[c].pc = "run"
      <4>1. job'[c] = [job[c] EXCEPT !.late = nowLate]
        BY <2>1, <3>3
      <4>2. nowLate \in BOOLEAN
        BY <3>1 DEF JobFits, JobRec
      <4>3. (job[c].pc = "run" => nowLate) /\ (job[c].late => nowLate)
        OBVIOUS
      <4> HIDE DEF nowLate
      <4>4. /\ job'[c] \in JobRec /\ job'[c].pc = job[c].pc /\ job'[c].clash = job[c].clash
            /\ job'[c].auto = job[c].auto /\ job'[c].lost = job[c].lost /\ job'[c].op = job[c].op
            /\ job'[c].force = job[c].force /\ job'[c].late = nowLate /\ job'[c].blind = job[c].blind
            /\ job'[c].raced = job[c].raced /\ job'[c].n = job[c].n /\ job'[c].port = job[c].port
        BY <3>1, <4>1, <4>2 DEF JobFits, JobRec
      <4> QED BY <2>1, <3>1, <4>3, <4>4 DEF JobFits
    <3> QED BY <3>2, <3>3
  <2> QED BY <2>1, <2>2 DEF LocalInv
<1> QED BY <1>1, <1>2, <1>3, <1>4, <1>5, <1>6, <1>7, <1>8, <1>9, <1>10, <1>11, <1>12, <1>13, <1>14, <1>15, <1>16
        DEF LocalNext

\* What a job has found holds when it acts, but for what the history tells of, for
\* any gateways, jobs and ports.
THEOREM JobsKeepTheirWord == LocalSpec => []LocalHolds
<1>1. LocalInv => LocalHolds
  BY DEF LocalInv, JobFits, LocalHolds, PortsApart, RemovedEmpty
<1> QED BY <1>1, LocalBegins, LocalStep, PTL DEF LocalSpec

-----------------------------------------------------------------------------
(* The digest: a day that is not over and not marked was fired no more     *)
(* often than its marker was lost, so that it may be fired once more.      *)

DigestTypeOK ==
  /\ day \in Days /\ hour \in Nat /\ dueDay \in Days /\ sent \subseteq Days
  /\ digestPc \in {"idle", "build", "mark"}
  /\ fired \in [Days -> Nat] /\ again \in [Days -> Nat]

DigestInv ==
  /\ DigestTypeOK
  /\ DigestOncePerDay
  /\ dueDay <= day
  /\ \A d \in Days : d >= day /\ d \notin sent /\ ~ (digestPc = "mark" /\ d = dueDay) => fired[d] <= again[d]
  /\ digestPc = "build" => fired[dueDay] <= again[dueDay]
  /\ digestPc = "mark" => fired[dueDay] > 0

LEMMA DigestBegins == NoticeInit => DigestInv
BY NoticesAssumption DEF NoticeInit, DigestInv, DigestTypeOK, DigestOncePerDay, Days

\* The counter of the day that is due goes up by one.
LEMMA Counted ==
  ASSUME NEW f \in [Days -> Nat], NEW d \in Days, NEW g, g = [f EXCEPT ![d] = @ + 1]
  PROVE  g \in [Days -> Nat] /\ g[d] = f[d] + 1 /\ \A x \in Days : x # d => g[x] = f[x]
OBVIOUS

LEMMA DigestStep == DigestInv /\ [NoticeNext]_noticeVars => DigestInv'
<1> SUFFICES ASSUME DigestInv, [NoticeNext]_noticeVars PROVE DigestInv'
  OBVIOUS
<1> USE DEF DigestInv, DigestTypeOK, DigestOncePerDay
<1>1. CASE UNCHANGED digestVars
  BY <1>1 DEF digestVars
<1>2. CASE FindsDue
  BY <1>2 DEF FindsDue, Due, Days
<1>3. CASE Fires
  <2>1. fired' \in [Days -> Nat] /\ fired'[dueDay] = fired[dueDay] + 1 /\ \A x \in Days : x # dueDay => fired'[x] = fired[x]
    BY <1>3, Counted DEF Fires
  <2>2. digestPc = "build" /\ digestPc' = "mark" /\ UNCHANGED <<day, hour, sent, dueDay, again, late>>
    BY <1>3 DEF Fires
  <2>3. \A d \in Days : fired'[d] <= 1 + again[d]
    BY <2>1, <2>2
  <2>4. \A d \in Days : d \in sent => fired'[d] > 0 \/ d \in late
    BY <2>1, <2>2
  <2> QED BY <2>1, <2>2, <2>3, <2>4
<1>4. CASE BuildFails
  BY <1>4 DEF BuildFails
<1>5. CASE Marks
  <2>1. /\ digestPc = "mark" /\ digestPc' = "idle" /\ sent' = sent \cup {day}
        /\ late' = IF day = dueDay THEN late ELSE late \cup {day}
        /\ UNCHANGED <<day, hour, dueDay, fired, again>>
    BY <1>5 DEF Marks
  <2>2. \A d \in Days : d \in sent' => fired[d] > 0 \/ d \in late'
    BY <2>1
  <2>3. \A d \in Days : d >= day /\ d \notin sent' => fired[d] <= again[d]
    BY <2>1 DEF Days
  <2> QED BY <2>1, <2>2, <2>3
<1>6. ASSUME digestPc = "mark", digestPc' = "idle", again' = [again EXCEPT ![dueDay] = @ + 1],
             UNCHANGED <<day, hour, sent, dueDay, fired, late>>
      PROVE  DigestInv'
  <2>1. again' \in [Days -> Nat] /\ again'[dueDay] = again[dueDay] + 1 /\ \A x \in Days : x # dueDay => again'[x] = again[x]
    BY <1>6, Counted
  <2>2. \A d \in Days : fired[d] <= 1 + again'[d]
    BY <2>1
  <2>3. \A d \in Days : d >= day /\ d \notin sent => fired[d] <= again'[d]
    BY <1>6, <2>1
  <2> QED BY <1>6, <2>1, <2>2, <2>3
<1>7. CASE MarkLost
  BY <1>6, <1>7 DEF MarkLost
<1>8. CASE HourPasses
  <2>1. /\ UNCHANGED <<sent, digestPc, dueDay, fired, again, late>>
        /\ hour' \in Nat /\ day' \in Days /\ day' >= day
    <3>1. UNCHANGED <<sent, digestPc, dueDay, fired, again, late>>
      BY <1>8 DEF HourPasses
    <3>2. CASE hour + 1 < Hours
      BY <1>8, <3>1, <3>2, NoticesAssumption DEF HourPasses, Days
    <3>3. CASE ~ (hour + 1 < Hours)
      <4>1. day < MaxDay /\ hour' = 0 /\ day' = day + 1
        BY <1>8, <3>3 DEF HourPasses
      <4> QED BY <3>1, <4>1, NoticesAssumption DEF Days
    <3> QED BY <3>2, <3>3
  <2>2. \A d \in Days : d >= day' => d >= day
    BY <2>1 DEF Days
  <2>3. dueDay <= day'
    BY <2>1 DEF Days
  <2> QED BY <2>1, <2>2, <2>3
<1>9. CASE NoticeCrash
  <2>1. CASE digestPc = "mark"
    BY <1>6, <1>9, <2>1 DEF NoticeCrash
  <2>2. CASE digestPc # "mark"
    BY <1>9, <2>2 DEF NoticeCrash
  <2> QED BY <2>1, <2>2
<1>10. CASE WatchNext
  BY <1>1, <1>10 DEF WatchNext, Look, LookEventLost
<1> QED BY <1>1, <1>2, <1>3, <1>4, <1>5, <1>7, <1>8, <1>9, <1>10 DEF NoticeNext, DigestNext, noticeVars, digestVars

-----------------------------------------------------------------------------
(* The watches: what is remembered is what was seen last.                  *)

WatchInv ==
  /\ remembered \in [Watches -> Nat] /\ told \in [Watches -> Nat] /\ observed \in [Watches -> Nat]
  /\ \A w \in Watches : observed[w] = remembered[w]
  /\ \A w \in Watches \ lostEvent : told[w] = observed[w] \/ (w = "drift" /\ told[w] = 0)

LEMMA WatchBegins == NoticeInit => WatchInv
BY DEF NoticeInit, WatchInv

\* A watch remembers what it saw, and has told of it or lost the event.
LEMMA Looked ==
  ASSUME WatchInv, NEW w \in Watches, NEW n \in Nat, NEW m \in Nat,
         remembered' = [remembered EXCEPT ![w] = n], observed' = [observed EXCEPT ![w] = n],
         told' = [told EXCEPT ![w] = m],
         \/ lostEvent' = lostEvent /\ (w \notin lostEvent => m = n \/ (w = "drift" /\ m = 0))
         \/ lostEvent' = lostEvent \union {w}
  PROVE  WatchInv'
<1>1. /\ remembered' \in [Watches -> Nat] /\ told' \in [Watches -> Nat] /\ observed' \in [Watches -> Nat]
      /\ remembered'[w] = n /\ observed'[w] = n /\ told'[w] = m
      /\ \A v \in Watches : v # w => remembered'[v] = remembered[v] /\ observed'[v] = observed[v] /\ told'[v] = told[v]
  BY DEF WatchInv
<1> QED BY <1>1 DEF WatchInv

LEMMA WatchStep == WatchInv /\ [NoticeNext]_noticeVars => WatchInv'
<1> SUFFICES ASSUME WatchInv, [NoticeNext]_noticeVars PROVE WatchInv'
  OBVIOUS
<1>1. CASE UNCHANGED watchVars
  BY <1>1 DEF watchVars, WatchInv
<1>2. CASE DigestNext
  BY <1>1, <1>2 DEF DigestNext, FindsDue, Fires, BuildFails, Marks, MarkLost, HourPasses
<1>3. CASE NoticeCrash
  BY <1>3 DEF NoticeCrash, WatchInv
<1>4. ASSUME NEW w \in Watches, Look(w) PROVE WatchInv'
  <2>1. PICK sample \in Values(w) \cup {NoValue} :
          /\ remembered' = [remembered EXCEPT ![w] = Remembers(w, Seen(w, sample))]
          /\ observed' = IF sample = NoValue \/ (w = "update" /\ sample = 0) THEN observed
                         ELSE [observed EXCEPT ![w] = sample]
          /\ told' = IF Tells(w, Seen(w, sample)) THEN [told EXCEPT ![w] = Seen(w, sample)] ELSE told
          /\ lostEvent' = lostEvent
    BY <1>4 DEF Look
  <2>2. /\ remembered[w] \in Nat /\ told[w] \in Nat /\ observed[w] = remembered[w]
        /\ remembered = [remembered EXCEPT ![w] = remembered[w]] /\ observed = [observed EXCEPT ![w] = remembered[w]]
        /\ told = [told EXCEPT ![w] = told[w]]
    BY DEF WatchInv
  <2>3. CASE sample = NoValue \/ (w = "update" /\ sample = 0)
    <3>1. Remembers(w, Seen(w, sample)) = remembered[w] /\ ~ Tells(w, Seen(w, sample))
      BY <2>3 DEF Remembers, Seen, Tells, NoValue
    <3>2. observed' = observed /\ told' = told /\ remembered' = remembered
      BY <2>1, <2>2, <2>3, <3>1
    <3> QED BY <2>1, <3>2 DEF WatchInv
  <2>4. CASE sample # NoValue /\ ~ (w = "update" /\ sample = 0)
    <3>1. Seen(w, sample) = sample /\ Remembers(w, sample) = sample /\ sample \in Nat
      BY <2>1, <2>4 DEF Seen, Remembers, Values
    <3>2. CASE Tells(w, sample)
      BY <2>1, <2>4, <3>1, <3>2, Looked
    <3>3. CASE ~ Tells(w, sample)
      <4>1. told' = [told EXCEPT ![w] = told[w]]
        BY <2>1, <2>2, <3>1, <3>3
      <4>2. sample = remembered[w] \/ (w = "drift" /\ remembered[w] = 0)
        BY <2>4, <3>3 DEF Tells
      <4>3. w \notin lostEvent => told[w] = sample \/ (w = "drift" /\ told[w] = 0)
        BY <2>2, <4>2 DEF WatchInv
      <4> QED BY <2>1, <2>2, <2>4, <3>1, <4>1, <4>3, Looked
    <3> QED BY <3>2, <3>3
  <2> QED BY <2>3, <2>4
<1>5. ASSUME NEW w \in Watches, LookEventLost(w) PROVE WatchInv'
  <2>1. PICK sample \in Values(w) :
          /\ Tells(w, sample)
          /\ remembered' = [remembered EXCEPT ![w] = Remembers(w, sample)]
          /\ observed' = [observed EXCEPT ![w] = sample]
          /\ lostEvent' = lostEvent \cup {w} /\ told' = told
    BY <1>5 DEF LookEventLost
  <2>2. Remembers(w, sample) = sample /\ sample \in Nat
    BY <2>1 DEF Remembers, Tells, Values
  <2>3. told[w] \in Nat /\ told' = [told EXCEPT ![w] = told[w]]
    BY <2>1 DEF WatchInv
  <2> QED BY <2>1, <2>2, <2>3, Looked
<1> QED BY <1>1, <1>2, <1>3, <1>4, <1>5 DEF NoticeNext, WatchNext, noticeVars

\* The digest goes out once a day and a watch tells what it saw last, for any
\* hours, faults and samples.
THEOREM NoticesAreTrue == NoticeSpec => []NoticesTell
<1>1. DigestInv /\ WatchInv => NoticesTell
  BY DEF DigestInv, WatchInv, NoticesTell, WatchTells
<1> QED BY <1>1, DigestBegins, DigestStep, WatchBegins, WatchStep, PTL DEF NoticeSpec

-----------------------------------------------------------------------------
(* Push: an id that a send knows is that of the row it read, unless it was *)
(* given away since.                                                       *)

PushInv ==
  /\ PushTypeOK
  /\ \A r \in subs : r.id \in used
  /\ \A r, q \in subs : r.id = q.id => r = q
  /\ \A s \in Sends :
       /\ \A w \in send[s].todo : w.id \in used
       /\ \A i \in send[s].prune : i \in used
       /\ \A w \in send[s].todo, r \in subs : w.id = r.id /\ ~ r.again => w = r
       /\ \A r \in subs : r.id \in send[s].prune /\ ~ r.again => r.device \in expired

LEMMA PushBegins == PushInit => PushInv
BY RowAssumption DEF PushInit, PushInv, PushTypeOK

SendRec == [pc: {"new", "sending", "done"}, todo: SUBSET Sub, prune: SUBSET (1 .. MaxRows)]

\* A send goes on to v.
LEMMA SendGoes ==
  ASSUME PushInv, NEW s \in Sends, NEW v \in SendRec, send' = [send EXCEPT ![s] = v],
         subs' \subseteq subs, UNCHANGED <<expired, used, inserts>>,
         \A w \in v.todo : w.id \in used,
         \A i \in v.prune : i \in used,
         \A w \in v.todo, r \in subs' : w.id = r.id /\ ~ r.again => w = r,
         \A r \in subs' : r.id \in v.prune /\ ~ r.again => r.device \in expired
  PROVE  PushInv'
<1>1. send' \in [Sends -> SendRec] /\ send'[s] = v /\ \A k \in Sends : k # s => send'[k] = send[k]
  BY DEF PushInv, PushTypeOK, SendRec
<1>2. PushTypeOK'
  BY <1>1 DEF PushInv, PushTypeOK, SendRec
<1> QED BY <1>1, <1>2 DEF PushInv

LEMMA PushStep == PushInv /\ [PushNext]_pushVars => PushInv'
<1> SUFFICES ASSUME PushInv, [PushNext]_pushVars PROVE PushInv'
  OBVIOUS
<1>1. CASE UNCHANGED pushVars
  BY <1>1 DEF pushVars, PushInv, PushTypeOK
<1>2. ASSUME NEW d \in Devices, Subscribe(d) PROVE PushInv'
  <2>1. PICK i \in FreshIds :
          subs' = subs \union {[id |-> i, device |-> d, again |-> i \in used]} /\ used' = used \union {i}
    BY <1>2 DEF Subscribe
  <2> DEFINE fresh == i \in used
             row == [id |-> i, device |-> d, again |-> fresh]
  <2>2. i \in 1 .. MaxRows /\ \A r \in subs : r.id < i
    BY DEF FreshIds
  <2>3. UNCHANGED <<expired, send>> /\ inserts' \in 0 .. MaxRows /\ fresh \in BOOLEAN
    BY <1>2, RowAssumption DEF Subscribe, PushInv, PushTypeOK
  <2>4. row.again <=> i \in used
    OBVIOUS
  <2> HIDE DEF fresh
  <2>5. row \in Sub /\ row.id = i
    BY <2>2, <2>3 DEF Sub
  <2>6. subs' = subs \union {row} /\ used' = used \union {i}
    BY <2>1 DEF fresh
  <2> HIDE DEF row
  <2>7. PushTypeOK'
    BY <2>2, <2>3, <2>5, <2>6 DEF PushInv, PushTypeOK
  <2>8. \A r \in subs : r.id \in Nat /\ r.id # i
    BY <2>2 DEF PushInv, PushTypeOK, Sub
  <2>9. \A r, q \in subs' : r.id = q.id => r = q
    BY <2>5, <2>6, <2>8 DEF PushInv
  <2> QED BY <2>3, <2>4, <2>5, <2>6, <2>7, <2>9 DEF PushInv
<1>3. ASSUME NEW d \in Devices, Unsubscribe(d) \/ Expire(d) PROVE PushInv'
  <2>1. subs' \subseteq subs /\ expired \subseteq expired' /\ expired' \subseteq Devices /\ UNCHANGED <<send, used, inserts>>
    BY <1>3 DEF Unsubscribe, Expire, PushInv, PushTypeOK
  <2>2. PushTypeOK'
    BY <2>1 DEF PushInv, PushTypeOK
  <2> QED BY <2>1, <2>2 DEF PushInv
<1>4. ASSUME NEW s \in Sends, SendReads(s) PROVE PushInv'
  <2> DEFINE v == [send[s] EXCEPT !.pc = "sending", !.todo = subs]
  <2>1. send' = [send EXCEPT ![s] = v] /\ send[s] \in SendRec /\ UNCHANGED <<subs, expired, used, inserts>>
    BY <1>4 DEF SendReads, PushInv, PushTypeOK, SendRec
  <2>2. v \in SendRec /\ v.todo = subs /\ v.prune = send[s].prune
    BY <2>1 DEF SendRec, PushInv, PushTypeOK
  <2> HIDE DEF v
  <2> QED BY <2>1, <2>2, SendGoes DEF PushInv
<1>5. ASSUME NEW s \in Sends, NEW w \in send[s].todo, SendOne(s, w) PROVE PushInv'
  <2> DEFINE prune == IF Unknown(w) THEN send[s].prune \union {w.id} ELSE send[s].prune
             v == [send[s] EXCEPT !.todo = send[s].todo \ {w}, !.prune = prune]
  <2>1. send[s] \in SendRec /\ UNCHANGED <<subs, expired, used, inserts>>
    BY <1>5 DEF SendOne, PushInv, PushTypeOK, SendRec
  <2>2. send' = [send EXCEPT ![s] = v]
    BY <1>5, <2>1 DEF SendOne, PushInv, PushTypeOK, SendRec
  <2>3. w \in Sub /\ prune \in SUBSET (1 .. MaxRows)
    BY <2>1 DEF SendRec, Sub
  <2>4. \A i \in prune : i \in send[s].prune \/ (i = w.id /\ w.device \in expired)
    BY DEF Unknown
  <2> HIDE DEF prune
  <2>5. v \in SendRec /\ v.todo = send[s].todo \ {w} /\ v.prune = prune
    BY <2>1, <2>3 DEF SendRec
  <2> HIDE DEF v
  <2>6. \A r \in subs : r.id \in prune /\ ~ r.again => r.device \in expired
    BY <2>4 DEF PushInv
  <2>7. \A i \in prune : i \in used
    BY <2>4 DEF PushInv
  <2> QED BY <2>1, <2>2, <2>5, <2>6, <2>7, SendGoes DEF PushInv
<1>6. ASSUME NEW s \in Sends, Prune(s) PROVE PushInv'
  <2> DEFINE v == [send[s] EXCEPT !.pc = "done", !.prune = {}]
  <2>1. /\ send' = [send EXCEPT ![s] = v] /\ send[s] \in SendRec /\ send[s].todo = {}
        /\ subs' \subseteq subs /\ UNCHANGED <<expired, used, inserts>>
    BY <1>6 DEF Prune, PushInv, PushTypeOK, SendRec
  <2>2. v \in SendRec /\ v.todo = {} /\ v.prune = {}
    BY <2>1 DEF SendRec
  <2> HIDE DEF v
  <2> QED BY <2>1, <2>2, SendGoes
<1> QED BY <1>1, <1>2, <1>3, <1>4, <1>5, <1>6 DEF PushNext

\* A send prunes a device that is known only by an id that was another row's, for
\* any devices and sends.
THEOREM LiveAreSpared == PushSpec => PruneSparesLive
<1>1. PushInv /\ [PushNext]_pushVars =>
        [\A s \in Sends, r \in subs : Prune(s) /\ r \notin subs' => r.device \in expired \/ r.again]_pushVars
  <2> SUFFICES ASSUME PushInv, NEW s \in Sends, NEW r \in subs, Prune(s), r \notin subs'
               PROVE  r.device \in expired \/ r.again
    OBVIOUS
  <2> QED BY DEF Prune, PushInv
<1> QED BY <1>1, PushBegins, PushStep, PTL DEF PushSpec, PruneSparesLive

=============================================================================
