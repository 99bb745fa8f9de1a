------------------------------ MODULE Denials ------------------------------
(***************************************************************************)
(* What analyzers report of denied requests (POST .../policy/analysis).    *)
(* The summaries are cached in memory for the page of the approvals        *)
(* (services/denial_context.py), sent on to the gateway, audited, and then *)
(* upserted into a table for the policy simulator                          *)
(* (services/denial_store.py), from which a daily task removes old rows.   *)
(*                                                                         *)
(* One sandbox; a key is the binary, host and port of a denial.  The       *)
(* number of the submission stands for a summary's content.                *)
(***************************************************************************)
EXTENDS FiniteSets, Naturals, SequencesExt

CONSTANTS Keys, Submissions,
          MaxEntries,      \* summaries cached per sandbox
          MaxSummaries,    \* bound: summaries of one submission
          MaxDenialFaults  \* bound: restarts and submissions the gateway refuses

ASSUME MaxEntriesAssumption == MaxEntries \in Nat \ {0} /\ MaxSummaries \in Nat

VARIABLES
  cached,   \* the cache: [key, by], the oldest first
  corpus,   \* the rows: [key, by, born, old]; born: the submission that inserted it
  submit,   \* each submission: where it is, what it reports, what it found, the answer
  ingested, \* history: every summary cached since the process started, in order
  accepted, \* history: the submissions the gateway took
  pruned,   \* history: the rows that were removed
  denialFaults

denialVars == <<cached, corpus, submit, ingested, accepted, pruned, denialFaults>>

Submits(i, pc) == submit' = [submit EXCEPT ![i].pc = pc]
DenialFault == denialFaults < MaxDenialFaults /\ denialFaults' = denialFaults + 1

DenialInit ==
  /\ cached = <<>> /\ corpus = {} /\ ingested = <<>> /\ accepted = {} /\ pruned = {}
  /\ submit \in [Submissions -> {[pc |-> "new", keys |-> k, found |-> {}] : k \in BoundedSeq(Keys, MaxSummaries) \ {<<>>}}]
  /\ denialFaults = 0

-----------------------------------------------------------------------------
(* The cache. *)

\* A key has one entry, if any.
Without(c, k) ==
  IF \E i \in DOMAIN c : c[i].key = k THEN RemoveAt(c, CHOOSE i \in DOMAIN c : c[i].key = k) ELSE c

\* Mutant of Stored: a summary of a known key stays where it is.
StoredInPlace(c, e) ==
  IF \E i \in 1 .. Len(c) : c[i].key = e.key
  THEN [i \in 1 .. Len(c) |-> IF c[i].key = e.key THEN e ELSE c[i]]
  ELSE Append(c, e)

Stored(c, e) == Append(Without(c, e.key), e)

\* One summary: the newest goes last, the oldest is evicted.
Put1(c, e) == LET d == Stored(c, e) IN IF Len(d) > MaxEntries THEN Tail(d) ELSE d

\* The summaries of one call, in their order.
PutAll(c, s) ==
  LET after[n \in 0 .. Len(s)] == IF n = 0 THEN c ELSE Put1(after[n - 1], s[n])
  IN  after[Len(s)]

Summaries(i) == [n \in 1 .. Len(submit[i].keys) |-> [key |-> submit[i].keys[n], by |-> i]]

\* submit_analysis caches what it is given, under a lock, before it asks the gateway.
Ingests(i) ==
  /\ submit[i].pc = "new"
  /\ cached' = PutAll(cached, Summaries(i))
  /\ ingested' = ingested \o Summaries(i)
  /\ Submits(i, "send")
  /\ UNCHANGED <<corpus, accepted, pruned, denialFaults>>

Accepts(i) ==
  /\ submit[i].pc = "send"
  /\ accepted' = accepted \cup {i}
  /\ Submits(i, "persist")
  /\ UNCHANGED <<cached, corpus, ingested, pruned, denialFaults>>

\* The gateway refuses, or its answer is lost: nothing is audited or persisted.
Refuses(i) ==
  /\ submit[i].pc = "send" /\ DenialFault
  /\ Submits(i, "failed")
  /\ UNCHANGED <<cached, corpus, ingested, accepted, pruned>>

-----------------------------------------------------------------------------
(* The table. *)

RowOf(k) == {r \in corpus : r.key = k}
Reports(i) == ToSet(submit[i].keys)
Found(i) == {r \in corpus : r.key \in Reports(i)}

\* persist_summaries looks for the row of each key.  The summaries of one call
\* are flushed as it goes, so the second of a key finds the first.
LooksForRows(i) ==
  /\ submit[i].pc = "persist"
  /\ submit' = [submit EXCEPT ![i].pc = "commit", ![i].found = {<<r.key, r.born>> : r \in Found(i)}]
  /\ UNCHANGED <<cached, corpus, ingested, accepted, pruned, denialFaults>>

\* A key that was not there and is by now breaks uq_denial_sample; the update
\* of a row that is gone matches none.  Either fails the whole commit.
Writable(i) == {p[1] : p \in submit[i].found} = {r.key : r \in Found(i)}

\* A row that was removed and came back has another id, or, on SQLite, the same.
SameRows(i) == submit[i].found = {<<r.key, r.born>> : r \in Found(i)}

Born(i, k) == IF RowOf(k) = {} THEN i ELSE (CHOOSE r \in RowOf(k) : TRUE).born

Commits(i) ==
  /\ submit[i].pc = "commit" /\ Writable(i)
  /\ corpus' = (corpus \ Found(i)) \cup {[key |-> k, by |-> i, born |-> Born(i, k), old |-> FALSE] : k \in Reports(i)}
  /\ Submits(i, "answered")
  /\ UNCHANGED <<cached, ingested, accepted, pruned, denialFaults>>

\* The error is the request's: 500, though the gateway took the submission.
CommitFails(i) ==
  /\ submit[i].pc = "commit" /\ ~ (Writable(i) /\ SameRows(i))
  /\ Submits(i, "error")
  /\ UNCHANGED <<cached, corpus, ingested, accepted, pruned, denialFaults>>

\* A row passes the retention.
Ages(r) ==
  /\ ~ r.old
  /\ corpus' = (corpus \ {r}) \cup {[r EXCEPT !.old = TRUE]}
  /\ UNCHANGED <<cached, submit, ingested, accepted, pruned, denialFaults>>

PruneSamples ==
  /\ \E r \in corpus : r.old
  /\ corpus' = {r \in corpus : ~ r.old}
  /\ pruned' = pruned \cup {<<r.key, r.by>> : r \in {x \in corpus : x.old}}
  /\ UNCHANGED <<cached, submit, ingested, accepted, denialFaults>>

\* The cache is gone with the process, and so are the requests.
Restarts ==
  /\ DenialFault
  /\ cached' = <<>> /\ ingested' = <<>>
  /\ submit' = [i \in Submissions |-> IF submit[i].pc \in {"new", "answered", "error", "failed"} THEN submit[i]
                                      ELSE [submit[i] EXCEPT !.pc = "failed"]]
  /\ UNCHANGED <<corpus, accepted, pruned>>

CacheNext == (\E i \in Submissions : Ingests(i)) \/ Restarts

DenialNext ==
  \/ \E i \in Submissions : Ingests(i) \/ Accepts(i) \/ Refuses(i) \/ LooksForRows(i) \/ Commits(i) \/ CommitFails(i)
  \/ (\E r \in corpus : Ages(r)) \/ PruneSamples \/ Restarts

DenialSpec == DenialInit /\ [][DenialNext]_denialVars

-----------------------------------------------------------------------------
\* The place of the last summary of a key in the history, 0 if there is none.
LastOf(k) == LET at == {n \in 1 .. Len(ingested) : ingested[n].key = k} IN IF at = {} THEN 0 ELSE CHOOSE n \in at : \A m \in at : m <= n

\* The keys reported after the last report of a key.
Newer(k) == {j \in Keys : LastOf(j) > LastOf(k)}

\* The cache holds the keys reported last, as many as it may, each with its last summary.
CacheKeepsNewest ==
  \A k \in Keys :
    LET held == {e \in ToSet(cached) : e.key = k}
    IN  IF LastOf(k) > 0 /\ Cardinality(Newer(k)) < MaxEntries THEN held = {ingested[LastOf(k)]} ELSE held = {}

\* A key has one row; a row is of a submission the gateway took, and a
\* submission that was answered is in the table, but for what another one
\* wrote over and for what was removed with age.
CorpusTells ==
  /\ \A r, s \in corpus : r.key = s.key => r = s
  /\ \A r \in corpus : r.by \in accepted
  /\ \A i \in Submissions : submit[i].pc = "answered" =>
       \A k \in Reports(i) :
         \/ RowOf(k) # {} \/ \E j \in Submissions : <<k, j>> \in pruned

(***************************************************************************)
(* The page of the approvals explains a chunk by the last report of its    *)
(* denial, and the simulator replays what was reported and taken           *)
(* (denial_context.py ingest_summaries, denial_store.py                    *)
(* persist_summaries).                                                     *)
(***************************************************************************)
DenialsTell == CacheKeepsNewest /\ CorpusTells

=============================================================================
