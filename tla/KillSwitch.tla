------------------------------ MODULE KillSwitch ------------------------------
(***************************************************************************)
(* The reversible gateway kill switch (services/kill_switch.py).           *)
(*                                                                         *)
(* One gateway.  A link is the attachment of a provider to a sandbox.      *)
(* Engaging detaches every link of every sandbox, one RPC at a time, and   *)
(* only then commits one kill_switch_entries row per sandbox; resuming     *)
(* re-attaches what the rows list, one RPC at a time, and only then        *)
(* commits the rows' new contents.  Everything between two awaits is one   *)
(* action, and the state a coroutine carries across its awaits is its job. *)
(***************************************************************************)
EXTENDS Integers, FiniteSets, Functions

CONSTANTS
  Sandbox,       \* sandboxes of the gateway
  Provider,      \* provider records an operator can attach to a sandbox
  Proc,          \* coroutines: request handlers and background tasks
  Operators,     \* the coroutines that are operator request handlers
  ManualEdits,   \* whether operators also edit links by hand
  ReusesRowIds,  \* TRUE on SQLite (rowid = max + 1), FALSE on PostgreSQL
  MaxStarts,     \* bound on the enforcement actions and manual edits begun
  MaxFaults      \* bound on failed RPCs and crashes

ASSUME SandboxAssumption  == IsFiniteSet(Sandbox)
ASSUME ProcAssumption     == Operators \subseteq Proc
ASSUME FlagsAssumption    == ReusesRowIds \in BOOLEAN /\ ManualEdits \in BOOLEAN
ASSUME BoundsAssumption   == MaxStarts \in Nat /\ MaxFaults \in Nat

VARIABLES
  attached,  \* links the gateway has: set of <<sandbox, provider>>
  want,      \* links the operators asked for: never changed by enforcement
  stranded,  \* links a lost reply, a lost race or a crash may have forgotten
  doubled,   \* links a lost reply or a crash may leave both attached and recorded
  ks,        \* rows of kill_switch_entries
  lastId,    \* highest row id handed out
  job,       \* what each coroutine is doing and holds in memory
  starts,    \* bound counter
  faults     \* bound counter

ksVars == <<attached, want, stranded, doubled, ks, lastId, job, starts, faults>>

Link  == Sandbox \X Provider
Actor == {"operator", "budget", "curfew"}
Row   == [id: Nat, sandbox: Sandbox, links: SUBSET Link, by: Actor]
Try   == Nat \X Link     \* a re-attach: the row it serves (0: a pause) and the link

Pc == {"idle", "engage", "resume", "release", "budgetList", "budgetCut",
       "pauseList", "pauseCut", "unpause"}

(***************************************************************************)
(* todo:   sandboxes still to be listed (or, in "unpause", to be finished)  *)
(* listed: sandboxes whose links were listed and will get a row (or, in     *)
(*         "unpause", the sandbox whose links are being re-attached)        *)
(* left:   listed links not yet detached;  cut: links detached              *)
(* snap:   rows as read at the start of a resume                            *)
(* tries:  re-attaches still to do;  fails: re-attaches that raised         *)
(***************************************************************************)
Job == [pc: Pc, by: Actor, todo: SUBSET Sandbox, listed: SUBSET Sandbox,
        left: SUBSET Link, cut: SUBSET Link,
        snap: SUBSET Row, tries: SUBSET Try, fails: SUBSET Try]

Idle == [pc |-> "idle", by |-> "operator", todo |-> {}, listed |-> {},
         left |-> {}, cut |-> {}, snap |-> {}, tries |-> {}, fails |-> {}]

LinksOf(s)  == {l \in attached : l[1] = s}
CanStart    == starts < MaxStarts
CanFail     == faults < MaxFaults
Begin       == CanStart /\ starts' = starts + 1
Fault       == CanFail /\ faults' = faults + 1

(***************************************************************************)
(* status(): engaged while the gateway has any row; engaged_by is the      *)
(* first row's.                                                            *)
(***************************************************************************)
Engaged   == ks # {}
EngagedBy == IF Engaged THEN (CHOOSE r \in ks : \A q \in ks : r.id <= q.id).by
             ELSE "nobody"

KSInit ==
  /\ attached \in SUBSET Link
  /\ want = attached
  /\ stranded = {}
  /\ doubled = {}
  /\ ks = {}
  /\ lastId = 0
  /\ job = [p \in Proc |-> Idle]
  /\ starts = 0
  /\ faults = 0

(***************************************************************************)
(* engage(): refused (no change) when a row exists; otherwise the sandbox  *)
(* list is fetched and the loop over it begins.  A failure before the loop *)
(* changes nothing and is not an action.                                   *)
(***************************************************************************)
EngageStart(p, actor) ==
  /\ job[p].pc = "idle"
  /\ ~Engaged
  /\ Begin
  /\ job' = [job EXCEPT ![p] = [Idle EXCEPT !.pc = "engage", !.by = actor,
                                            !.todo = Sandbox]]
  /\ UNCHANGED <<attached, want, stranded, doubled, ks, lastId, faults>>

\* list_providers of the next sandbox answers; the sandbox will get a row.
EngageList(p, s) ==
  /\ job[p].pc = "engage"
  /\ job[p].left = {}
  /\ s \in job[p].todo
  /\ job' = [job EXCEPT ![p].todo = @ \ {s}, ![p].listed = @ \union {s},
                        ![p].left = LinksOf(s)]
  /\ UNCHANGED <<attached, want, stranded, doubled, ks, lastId, starts, faults>>

\* list_providers of the next sandbox raises; the sandbox gets no row.
EngageSkip(p, s) ==
  /\ job[p].pc = "engage"
  /\ job[p].left = {}
  /\ s \in job[p].todo
  /\ Fault
  /\ job' = [job EXCEPT ![p].todo = @ \ {s}]
  /\ UNCHANGED <<attached, want, stranded, doubled, ks, lastId, starts>>

(***************************************************************************)
(* detach_provider for one listed link, shared by the kill switch, the     *)
(* budget and the rate governor.  A link that is already detached counts   *)
(* as detached by this call (the reply's "detached" flag is ignored).      *)
(***************************************************************************)
DetachOk(p, l) ==
  /\ l \in job[p].left
  /\ attached' = attached \ {l}
  /\ job' = [job EXCEPT ![p].left = @ \ {l}, ![p].cut = @ \union {l}]
  /\ UNCHANGED <<want, stranded, doubled, ks, lastId, starts, faults>>

\* The call raises and the gateway did nothing.
DetachRefused(p, l) ==
  /\ l \in job[p].left
  /\ Fault
  /\ job' = [job EXCEPT ![p].left = @ \ {l}]
  /\ UNCHANGED <<attached, want, stranded, doubled, ks, lastId, starts>>

\* The call raises although the gateway detached: the reply was lost.
DetachLost(p, l) ==
  /\ l \in job[p].left
  /\ Fault
  /\ attached' = attached \ {l}
  /\ stranded' = stranded \union {l}
  /\ job' = [job EXCEPT ![p].left = @ \ {l}]
  /\ UNCHANGED <<want, doubled, ks, lastId, starts>>

IdBase == IF ReusesRowIds
          THEN IF ks = {} THEN 0 ELSE CHOOSE n \in {r.id : r \in ks} :
                                        \A r \in ks : r.id <= n
          ELSE lastId

(***************************************************************************)
(* The commit that ends an engage or a budget detach: one row per listed   *)
(* sandbox, with the links this job detached there.  No constraint of the  *)
(* table and no second check prevents a second row of a sandbox.           *)
(***************************************************************************)
CommitRows(p) ==
  /\ job[p].pc \in {"engage", "budgetCut"}
  /\ job[p].todo = {}
  /\ job[p].left = {}
  /\ \E id \in Bijection(job[p].listed,
                         IdBase + 1 .. IdBase + Cardinality(job[p].listed)) :
       ks' = ks \union {[id |-> id[s], sandbox |-> s,
                         links |-> {l \in job[p].cut : l[1] = s},
                         by |-> job[p].by] : s \in job[p].listed}
  /\ lastId' = IdBase + Cardinality(job[p].listed)
  /\ job' = [job EXCEPT ![p] = Idle]
  /\ UNCHANGED <<attached, want, stranded, doubled, starts, faults>>

(***************************************************************************)
(* resume(): the rows are read once; their re-attaches follow.  With no    *)
(* row there is nothing to do and nothing changes.  The caller is an idle  *)
(* request handler or the curfew's release.  The code works row by row and *)
(* provider by provider; here the re-attaches happen in any order.         *)
(***************************************************************************)
ResumeRead(p) ==
  /\ Engaged
  /\ job' = [job EXCEPT ![p] =
               [Idle EXCEPT !.pc = "resume", !.snap = ks,
                            !.tries = {t \in {r.id : r \in ks} \X Link :
                                       \E r \in ks : r.id = t[1] /\ t[2] \in r.links}]]
  /\ UNCHANGED <<attached, want, stranded, doubled, ks, lastId, starts, faults>>

\* The re-attaches that may come next: a governor goes sandbox by sandbox.
Ready(p) == {t \in job[p].tries : job[p].pc = "unpause" => t[2][1] \in job[p].listed}

\* attach_provider answers.
AttachOk(p, t) ==
  /\ t \in Ready(p)
  /\ attached' = attached \union {t[2]}
  /\ job' = [job EXCEPT ![p].tries = @ \ {t}]
  /\ UNCHANGED <<want, stranded, doubled, ks, lastId, starts, faults>>

\* attach_provider raises and the gateway did nothing.
AttachRefused(p, t) ==
  /\ t \in Ready(p)
  /\ Fault
  /\ job' = [job EXCEPT ![p].tries = @ \ {t}, ![p].fails = @ \union {t}]
  /\ UNCHANGED <<attached, want, stranded, doubled, ks, lastId, starts>>

\* attach_provider raises although the gateway attached: the reply was lost.
AttachLost(p, t) ==
  /\ t \in Ready(p)
  /\ Fault
  /\ attached' = attached \union {t[2]}
  /\ doubled' = doubled \union {t[2]}
  /\ job' = [job EXCEPT ![p].tries = @ \ {t}, ![p].fails = @ \union {t}]
  /\ UNCHANGED <<want, stranded, ks, lastId, starts>>

\* Mutant of Failing: failed re-attaches are not collected.
NothingFails(p, id) == {}

SnapIds(p)     == {r.id : r \in job[p].snap}
Failing(p, id) == {l \in Link : <<id, l>> \in job[p].fails}

\* The unit of work updates a row only when its list of providers changes.
Updates(p, r) == Failing(p, r.id) \notin {{}, r.links}

\* What the commit makes of a row that is still in the table.
Settled(p, k) == IF \E r \in job[p].snap : r.id = k.id /\ Updates(p, r)
                 THEN [k EXCEPT !.links = Failing(p, k.id)]
                 ELSE k

\* An UPDATE that matches no row raises StaleDataError: nothing is committed.
Stale(p) == \E r \in job[p].snap : Updates(p, r) /\ \A k \in ks : k.id # r.id

\* Mutant of RowsAfterResume: every row that was read is deleted.
AllRowsCleared(p) == {k \in ks : k.id \notin SnapIds(p)}

RowsAfterResume(p) ==
  IF Stale(p) THEN ks
  ELSE {Settled(p, k) : k \in {x \in ks : x.id \in SnapIds(p) => Failing(p, x.id) # {}}}

(***************************************************************************)
(* The commit that ends a resume: rows whose links were all re-attached    *)
(* are deleted (a row that is already gone is not an error), the others    *)
(* keep only the links that failed.  Both go by row id.                    *)
(***************************************************************************)
ResumeCommit(p) ==
  /\ job[p].pc = "resume"
  /\ job[p].tries = {}
  /\ ks' = RowsAfterResume(p)
  /\ job' = [job EXCEPT ![p] = Idle]
  /\ UNCHANGED <<attached, want, stranded, doubled, lastId, starts, faults>>

(***************************************************************************)
(* POST and DELETE /sandboxes/{name}/providers: operators edit the links   *)
(* directly, whether or not the switch is engaged.                         *)
(***************************************************************************)
OperatorAttach(l) ==
  /\ ManualEdits
  /\ Begin
  /\ attached' = attached \union {l}
  /\ want' = want \union {l}
  /\ UNCHANGED <<stranded, doubled, ks, lastId, job, faults>>

OperatorDetach(l) ==
  /\ ManualEdits
  /\ Begin
  /\ attached' = attached \ {l}
  /\ want' = want \ {l}
  /\ UNCHANGED <<stranded, doubled, ks, lastId, job, faults>>

(***************************************************************************)
(* The steps of any coroutine that is cutting or re-attaching: one RPC.    *)
(***************************************************************************)
RpcStep(p) ==
  \/ \E s \in Sandbox : EngageList(p, s) \/ EngageSkip(p, s)
  \/ \E l \in job[p].left : DetachOk(p, l) \/ DetachRefused(p, l) \/ DetachLost(p, l)
  \/ \E t \in Ready(p) : AttachOk(p, t) \/ AttachRefused(p, t) \/ AttachLost(p, t)

\* The process dies: every job is forgotten, what it had detached with it.
KSCrash ==
  /\ Fault
  /\ \E p \in Proc : job[p].pc # "idle"
  /\ stranded' = stranded \union UNION {job[p].cut : p \in Proc}
  /\ doubled' = doubled \union UNION {r.links : r \in UNION {job[p].snap : p \in Proc}}
  /\ job' = [p \in Proc |-> Idle]
  /\ UNCHANGED <<attached, want, ks, lastId, starts>>

KSNext ==
  \/ \E p \in Operators : EngageStart(p, "operator") \/ (job[p].pc = "idle" /\ ResumeRead(p))
  \/ \E p \in Proc : RpcStep(p) \/ CommitRows(p) \/ ResumeCommit(p)
  \/ KSCrash

KSSpec == KSInit /\ [][KSNext]_ksVars

-----------------------------------------------------------------------------
Recorded == UNION {r.links : r \in ks}
Held     == UNION {job[p].cut : p \in Proc}
Quiet    == \A p \in Proc : job[p].pc = "idle"

(***************************************************************************)
(* Between requests, a link the operators asked for is either attached or  *)
(* listed by a row, never both and never neither, but for the links a lost *)
(* reply or a crash put in doubt.  "Neither" is an agent that no release can *)
(* bring back (kill_switch.py:6, "so resume can re-attach exactly what was *)
(* cut"); "both" is a retry that re-attaches what already succeeded        *)
(* (kill_switch.py:184-187).  It is claimed for one request at a time.     *)
(***************************************************************************)
Partition ==
  Quiet => /\ want \subseteq attached \union Recorded \union stranded
           /\ attached \intersect Recorded \subseteq doubled

=============================================================================
