-------------------------------- MODULE Audit --------------------------------
(***************************************************************************)
(* The audit log (services/audit.py): entries chained by hashes, written   *)
(* by concurrent requests of one process under a lock, removed by age      *)
(* without it, and verified in batches while both go on.                   *)
(*                                                                         *)
(* The hash of an entry covers its contents and the hash before it, so it  *)
(* is as unique as the call that wrote it, and stands for it here.  An     *)
(* empty hash is the call "nobody".                                        *)
(***************************************************************************)
EXTENDS Naturals, FiniteSets, FiniteSetsExt

CONSTANTS
  Calls,     \* calls of log, each made once
  Batch,     \* rows the verification reads at a time
  Retention, \* age at which an entry may go
  MaxTime,   \* bound on the clock
  MaxFaults  \* bound on database failures

ASSUME BatchAssumption == Batch \in Nat \ {0}
ASSUME TimeAssumption  == Retention \in Nat \ {0} /\ MaxTime \in Nat /\ MaxFaults \in Nat

NoHash == "nobody"

VARIABLES
  entries,  \* the audit_log rows
  call,     \* where each call is, and the hash it read
  chain,    \* the call that holds the chain lock, if any
  stale,    \* the rows a running clean-up has selected
  verify,   \* the verification: what it has read
  clock,    \* the time
  afaults   \* bound counter

auditVars == <<entries, call, chain, stale, verify, clock, afaults>>

Entry == [id: Nat, time: 0 .. MaxTime, prev: Calls \union {NoHash}, hash: Calls]

(***************************************************************************)
(* prev:    the hash of the last row it looked at                          *)
(* alarm:   it has found a break                                           *)
(* cleaned: history, rows were removed since it began                      *)
(***************************************************************************)
Verify == [pc: {"idle", "reading", "done"}, last: Nat, prev: Calls \union {NoHash},
           alarm: BOOLEAN, cleaned: BOOLEAN]

AuditInit ==
  /\ entries = {}
  /\ call = [c \in Calls |-> [pc |-> "new", prev |-> NoHash]]
  /\ chain = {}
  /\ stale = {}
  /\ verify = [pc |-> "idle", last |-> 0, prev |-> NoHash, alarm |-> FALSE, cleaned |-> FALSE]
  /\ clock = 0
  /\ afaults = 0

Ids == {e.id : e \in entries}
LastId == IF entries = {} THEN 0 ELSE Max(Ids)
LastHash == IF entries = {} THEN NoHash ELSE (CHOOSE e \in entries : e.id = LastId).hash

\* Mutant of LockFree: every call has a lock of its own.
LockIgnored == TRUE

LockFree == chain = {}

LogRead(c) ==
  /\ call[c].pc = "new"
  /\ LockFree
  /\ chain' = chain \union {c}
  /\ call' = [call EXCEPT ![c] = [pc |-> "read", prev |-> LastHash]]
  /\ UNCHANGED <<entries, stale, verify, clock, afaults>>

\* The time is taken after the last hash was read; the row is committed.
LogWrite(c) ==
  /\ call[c].pc = "read"
  /\ entries' = entries \union
       {[id |-> LastId + 1, time |-> clock, prev |-> call[c].prev, hash |-> c]}
  /\ chain' = chain \ {c}
  /\ call' = [call EXCEPT ![c].pc = "written"]
  /\ UNCHANGED <<stale, verify, clock, afaults>>

\* An entry that cannot be written is lost: the failure is swallowed.
LogFails(c) ==
  /\ call[c].pc = "read"
  /\ afaults < MaxFaults
  /\ afaults' = afaults + 1
  /\ chain' = chain \ {c}
  /\ call' = [call EXCEPT ![c].pc = "failed"]
  /\ UNCHANGED <<entries, stale, verify, clock>>

(***************************************************************************)
(* cleanup selects the entries before its cutoff, and deletes them row by  *)
(* row in one transaction.                                                 *)
(***************************************************************************)
Expired == {e \in entries : e.time + Retention < clock}

CleanupReads ==
  /\ stale = {} /\ Expired # {}
  /\ stale' = Expired
  /\ UNCHANGED <<entries, call, chain, verify, clock, afaults>>

CleanupDeletes ==
  /\ stale # {}
  /\ entries' = entries \ stale
  /\ stale' = {}
  /\ verify' = [verify EXCEPT !.cleaned = @ \/ verify.pc = "reading"]
  /\ UNCHANGED <<call, chain, clock, afaults>>

(***************************************************************************)
(* verify_chain: the rows after the last one, a batch at a time, each read *)
(* by a query of its own.                                                  *)
(***************************************************************************)
VerifyStarts ==
  /\ verify.pc = "idle"
  /\ verify' = [verify EXCEPT !.pc = "reading"]
  /\ UNCHANGED <<entries, call, chain, stale, clock, afaults>>

NextRows ==
  {e \in entries : /\ e.id > verify.last
                   /\ Cardinality({f \in entries : verify.last < f.id /\ f.id < e.id}) < Batch}

\* The hash each row of the batch is compared with: that of the row before.
Before(e, rows) ==
  LET earlier == {f \in rows : f.id < e.id} IN
    IF earlier = {} THEN verify.prev
    ELSE (CHOOSE f \in earlier : \A g \in earlier : g.id <= f.id).hash

\* Mutant of Breaks: of the first row, too, its predecessor is expected.
BreaksAtFirst(e, rows) == e.prev # Before(e, rows)

Breaks(e, rows) == Before(e, rows) # NoHash /\ e.prev # Before(e, rows)

VerifyBatch ==
  /\ verify.pc = "reading"
  /\ LET rows == NextRows IN
       IF rows = {} THEN verify' = [verify EXCEPT !.pc = "done"]
       ELSE LET final == CHOOSE e \in rows : \A f \in rows : f.id <= e.id
                bad   == \E e \in rows : Breaks(e, rows) IN
            verify' = [verify EXCEPT !.last = final.id, !.prev = final.hash, !.alarm = bad,
                                     !.pc = IF bad THEN "done" ELSE "reading"]
  /\ UNCHANGED <<entries, call, chain, stale, clock, afaults>>

AuditTick ==
  /\ clock < MaxTime
  /\ clock' = clock + 1
  /\ UNCHANGED <<entries, call, chain, stale, verify, afaults>>

AuditNext ==
  \/ \E c \in Calls : LogRead(c) \/ LogWrite(c) \/ LogFails(c)
  \/ CleanupReads
  \/ CleanupDeletes
  \/ VerifyStarts
  \/ VerifyBatch
  \/ AuditTick

AuditSpec == AuditInit /\ [][AuditNext]_auditVars

-----------------------------------------------------------------------------
AuditTypeOK ==
  /\ entries \subseteq Entry
  /\ call \in [Calls -> [pc: {"new", "read", "written", "failed"}, prev: Calls \union {NoHash}]]
  /\ chain \subseteq Calls
  /\ stale \subseteq Entry
  /\ verify \in Verify
  /\ clock \in 0 .. MaxTime
  /\ afaults \in 0 .. MaxFaults

(***************************************************************************)
(* The chain is whole: each row names the hash of the row before it.  Of   *)
(* the first one nothing is asked, as what it names may have expired.      *)
(***************************************************************************)
ChainWhole ==
  \A e, f \in entries :
    e.id < f.id /\ (\A g \in entries : ~ (e.id < g.id /\ g.id < f.id)) => f.prev = e.hash

(***************************************************************************)
(* The verification reports a break only if the clean-up removed rows      *)
(* while it was between two batches: in a chain that is whole, it finds    *)
(* one where the rows it would have read next are gone.                    *)
(***************************************************************************)
AlarmsTell == verify.alarm => verify.cleaned

=============================================================================
