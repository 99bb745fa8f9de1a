-------------------------- MODULE EnforcementProofs --------------------------
(***************************************************************************)
(* Proofs about Enforcement, for any sandboxes, providers, handlers and    *)
(* tasks.                                                                  *)
(***************************************************************************)
EXTENDS Enforcement, FiniteSetTheorems, TLAPS

\* Row ids are never handed out twice (PostgreSQL sequences).
FreshRowIds == ReusesRowIds = FALSE

LEMMA ListedRange ==
  ASSUME TypeOK, FreshRowIds, NEW p \in Proc,
         NEW id \in Bijection(job[p].listed,
                      IdBase + 1 .. IdBase + Cardinality(job[p].listed))
  PROVE  /\ Cardinality(job[p].listed) \in Nat
         /\ IdBase = lastId
         /\ \A s \in job[p].listed : id[s] \in Nat /\ lastId < id[s]
                                     /\ id[s] <= lastId + Cardinality(job[p].listed)
<1>1. IdBase = lastId /\ lastId \in Nat
  BY DEF FreshRowIds, IdBase, TypeOK
<1>2. job[p].listed \subseteq Sandbox
  BY DEF TypeOK, Job
<1>3. Cardinality(job[p].listed) \in Nat
  BY <1>2, SandboxAssumption, FS_Subset, FS_CardinalityType
<1>4. \A s \in job[p].listed : id[s] \in IdBase + 1 .. IdBase + Cardinality(job[p].listed)
  BY DEF Bijection, Injection
<1>5. QED
  BY <1>1, <1>3, <1>4

LEMMA CommitRowsType ==
  ASSUME TypeOK, FreshRowIds, NEW p \in Proc, CommitRows(p)
  PROVE  ks' \subseteq Row /\ lastId' \in Nat /\ job' \in [Proc -> Job]
<1>1. PICK id \in Bijection(job[p].listed,
                      IdBase + 1 .. IdBase + Cardinality(job[p].listed)) :
         ks' = ks \union {[id |-> id[s], sandbox |-> s,
                           links |-> {l \in job[p].cut : l[1] = s},
                           by |-> job[p].by] : s \in job[p].listed}
  BY DEF CommitRows
<1>2. job[p] \in Job
  BY DEF TypeOK
<1>3. \A s \in job[p].listed :
        [id |-> id[s], sandbox |-> s, links |-> {l \in job[p].cut : l[1] = s},
         by |-> job[p].by] \in Row
  BY <1>2, ListedRange DEF Row, Job
<1>4. ks' \subseteq Row
  BY <1>1, <1>3 DEF TypeOK
<1>5. lastId' \in Nat
  BY ListedRange DEF CommitRows, TypeOK
<1>6. job' \in [Proc -> Job]
  BY DEF CommitRows, TypeOK, Job, Idle, Pc, Actor
<1>7. QED
  BY <1>4, <1>5, <1>6

-----------------------------------------------------------------------------
(***************************************************************************)
(* Type correctness.                                                       *)
(***************************************************************************)
LEMMA RpcType ==
  ASSUME TypeOK, NEW p \in Proc, RpcStep(p)
  PROVE  /\ attached' \subseteq Link /\ want' \subseteq Link
         /\ stranded' \subseteq Link /\ doubled' \subseteq Link
         /\ ks' = ks /\ lastId' = lastId /\ job' \in [Proc -> Job]
<1> USE DEF TypeOK
<1>0. job[p] \in Job
  OBVIOUS
<1>1. ASSUME NEW s \in Sandbox, EngageList(p, s) \/ EngageSkip(p, s)
      PROVE  job' \in [Proc -> Job] /\ UNCHANGED <<attached, want, stranded, doubled, ks, lastId>>
  <2>1. LinksOf(s) \subseteq Link
    BY DEF LinksOf
  <2>2. QED
    BY <1>0, <1>1, <2>1 DEF EngageList, EngageSkip, Job
<1>2. ASSUME NEW l \in job[p].left, DetachOk(p, l) \/ DetachRefused(p, l) \/ DetachLost(p, l)
      PROVE  /\ job' \in [Proc -> Job] /\ attached' \subseteq Link /\ stranded' \subseteq Link
             /\ UNCHANGED <<want, doubled, ks, lastId>>
  <2>1. l \in Link
    BY <1>0 DEF Job
  <2>2. QED
    BY <1>0, <1>2, <2>1 DEF DetachOk, DetachRefused, DetachLost, Job
<1>3. ASSUME NEW t \in Ready(p), AttachOk(p, t) \/ AttachRefused(p, t) \/ AttachLost(p, t)
      PROVE  /\ job' \in [Proc -> Job] /\ attached' \subseteq Link /\ doubled' \subseteq Link
             /\ UNCHANGED <<want, stranded, ks, lastId>>
  <2>1. t \in Try /\ t[2] \in Link
    BY <1>0 DEF Ready, Job, Try
  <2>2. QED
    BY <1>0, <1>3, <2>1 DEF AttachOk, AttachRefused, AttachLost, Job
<1>4. QED
  BY <1>1, <1>2, <1>3 DEF RpcStep

LEMMA ResumeType ==
  ASSUME TypeOK, NEW p \in Proc
  PROVE  /\ ResumeRead(p) => job' \in [Proc -> Job]
         /\ ResumeCommit(p) => job' \in [Proc -> Job] /\ ks' \subseteq Row
<1>1. ASSUME ResumeRead(p)
      PROVE  job' \in [Proc -> Job]
  <2>1. {t \in {r.id : r \in ks} \X Link : \E r \in ks : r.id = t[1] /\ t[2] \in r.links}
          \subseteq Try
    BY DEF TypeOK, Row, Try
  <2>2. QED
    BY <1>1, <2>1 DEF ResumeRead, TypeOK, Job, Idle, Pc, Actor
<1>2. ASSUME ResumeCommit(p)
      PROVE  job' \in [Proc -> Job] /\ ks' \subseteq Row
  <2>1. \A k \in ks : Settled(p, k) \in Row
    BY DEF Settled, Failing, TypeOK, Row
  <2>2. ks' \subseteq Row
    BY <1>2, <2>1 DEF ResumeCommit, RowsAfterResume, TypeOK
  <2>3. QED
    BY <1>2, <2>2 DEF ResumeCommit, TypeOK, Job, Idle, Pc, Actor
<1>3. QED
  BY <1>1, <1>2

LEMMA OperatorType ==
  ASSUME TypeOK, FreshRowIds, OperatorStep
  PROVE  TypeOK'
<1> USE DEF TypeOK
<1>1. ASSUME NEW p \in Operators, EngageStart(p, "operator")
      PROVE  TypeOK'
  BY <1>1, OperatorStep, ProcAssumption DEF OperatorStep, EngageStart, Job, Idle, Pc, Actor
<1>2. ASSUME NEW p \in Operators, job[p].pc = "idle", ResumeRead(p)
      PROVE  TypeOK'
  BY <1>2, OperatorStep, ProcAssumption, ResumeType DEF OperatorStep, ResumeRead
<1>3. ASSUME NEW p \in Operators, CommitRows(p)
      PROVE  TypeOK'
  BY <1>3, OperatorStep, ProcAssumption, CommitRowsType DEF OperatorStep, CommitRows
<1>4. ASSUME NEW p \in Operators, ResumeCommit(p)
      PROVE  TypeOK'
  BY <1>4, OperatorStep, ProcAssumption, ResumeType DEF OperatorStep, ResumeCommit
<1>5. ASSUME NEW l \in Link, OperatorAttach(l) \/ OperatorDetach(l)
      PROVE  TypeOK'
  BY <1>5, OperatorStep DEF OperatorStep, OperatorAttach, OperatorDetach
<1>6. QED
  BY <1>1, <1>2, <1>3, <1>4, <1>5 DEF OperatorStep

LEMMA BudgetType ==
  ASSUME TypeOK, FreshRowIds, BudgetStep
  PROVE  TypeOK'
<1> USE DEF TypeOK
<1>1. ASSUME NEW b \in Meters, NEW s \in Sandbox, BudgetTrip(b, s)
      PROVE  TypeOK'
  BY <1>1, BudgetStep, MetersAssumption DEF BudgetStep, BudgetTrip, Job, Idle, Pc, Actor
<1>2. ASSUME NEW b \in Meters, NEW s \in Sandbox, BudgetList(b, s)
      PROVE  TypeOK'
  <2>1. LinksOf(s) \subseteq Link
    BY DEF LinksOf
  <2>2. b \in Proc /\ job[b] \in Job
    BY MetersAssumption
  <2>3. [job[b] EXCEPT !.pc = "budgetCut", !.todo = {}, !.listed = {s},
                       !.left = LinksOf(s)] \in Job
    BY <2>1, <2>2 DEF Job, Pc
  <2>4. job' = [job EXCEPT ![b] = [job[b] EXCEPT !.pc = "budgetCut", !.todo = {},
                                                 !.listed = {s}, !.left = LinksOf(s)]]
    BY <1>2, <2>2 DEF BudgetList
  <2>5. job' \in [Proc -> Job]
    BY <2>3, <2>4
  <2>6. QED
    BY <1>2, <2>5, BudgetStep DEF BudgetStep, BudgetList
<1>3. ASSUME NEW b \in Meters, BudgetGivesUp(b)
      PROVE  TypeOK'
  BY <1>3, BudgetStep, MetersAssumption DEF BudgetStep, BudgetGivesUp, Job, Idle, Pc, Actor
<1>4. ASSUME NEW s \in Sandbox, BudgetWindow(s)
      PROVE  TypeOK'
  BY <1>4, BudgetStep DEF BudgetStep, BudgetWindow, ksVars
<1>5. ASSUME NEW b \in Meters, CommitRows(b), UNCHANGED notified
      PROVE  TypeOK'
  BY <1>5, BudgetStep, MetersAssumption, CommitRowsType DEF BudgetStep, CommitRows
<1>6. QED
  BY <1>1, <1>2, <1>3, <1>4, <1>5 DEF BudgetStep, BudgetNext

LEMMA DoneType ==
  ASSUME TypeOK, NEW g \in Governors, NEW s \in Sandbox, job[g].pc = "unpause",
         job' = [job EXCEPT ![g] = DoneWith(g, s)]
  PROVE  /\ job' \in [Proc -> Job]
         /\ \A q \in Proc : q # g => job'[q] = job[q]
         /\ \/ job'[g] = Idle
            \/ /\ job'[g].pc = "unpause" /\ job'[g].listed = {} /\ job'[g].cut = job[g].cut
               /\ job'[g].left = job[g].left /\ job'[g].snap = job[g].snap
               /\ job'[g].todo = job[g].todo \ {s}
               /\ job'[g].tries = {t \in job[g].tries : t[2][1] # s}
               /\ job'[g].fails = job[g].fails
<1>1. g \in Proc /\ job[g] \in Job /\ job \in [Proc -> Job]
  BY GovernorsAssumption DEF TypeOK
<1>2. Idle \in Job
  BY DEF Job, Idle, Pc, Actor
<1> DEFINE rest == [job[g] EXCEPT !.todo = @ \ {s}, !.listed = {},
                                  !.tries = {t \in @ : t[2][1] # s}]
<1>3. /\ rest \in Job /\ rest.pc = "unpause" /\ rest.listed = {} /\ rest.cut = job[g].cut
      /\ rest.left = job[g].left /\ rest.snap = job[g].snap
      /\ rest.todo = job[g].todo \ {s}
      /\ rest.tries = {t \in job[g].tries : t[2][1] # s}
      /\ rest.fails = job[g].fails
  BY <1>1 DEF Job
<1>4. DoneWith(g, s) = Idle \/ DoneWith(g, s) = rest
  BY DEF DoneWith
<1> HIDE DEF rest
<1>5. job'[g] = DoneWith(g, s) /\ \A q \in Proc : q # g => job'[q] = job[q]
  BY <1>1
<1>6. job' \in [Proc -> Job]
  BY <1>1, <1>2, <1>3, <1>4
<1>7. QED
  BY <1>3, <1>4, <1>5, <1>6

LEMMA GovernorType ==
  ASSUME TypeOK, GovernorStep
  PROVE  TypeOK'
<1> USE DEF TypeOK
<1>1. ASSUME NEW g \in Governors, NEW s \in Sandbox, PauseStart(g, s)
      PROVE  TypeOK'
  BY <1>1, GovernorsAssumption DEF GovernorStep, PauseStart, Job, Idle, Pc, Actor
<1>2. ASSUME NEW g \in Governors, NEW s \in Sandbox, PauseList(g, s)
      PROVE  TypeOK'
  <2>1. LinksOf(s) \subseteq Link
    BY DEF LinksOf
  <2>2. QED
    BY <1>2, <2>1, GovernorsAssumption DEF GovernorStep, PauseList, Job, Idle, Pc, Actor
<1>3. ASSUME NEW g \in Governors, NEW s \in Sandbox, PauseCommit(g, s)
      PROVE  TypeOK'
  <2>1. job[g] \in Job
    BY GovernorsAssumption
  <2>2. [sandbox |-> s, links |-> job[g].cut, due |-> FALSE] \in Pause
    BY <2>1 DEF Job, Pause
  <2>3. pauses' \subseteq Pause
    BY <1>3, <2>2 DEF PauseCommit
  <2>4. QED
    BY <1>3, <2>3, GovernorsAssumption DEF GovernorStep, PauseCommit, Job, Idle, Pc, Actor
<1>4. ASSUME NEW g \in Governors, NEW s \in Sandbox, PauseRaced(g, s)
      PROVE  TypeOK'
  <2>1. job[g] \in Job
    BY GovernorsAssumption
  <2>2. stranded' \subseteq Link
    BY <1>4, <2>1 DEF PauseRaced, Job
  <2>3. QED
    BY <1>4, <2>2, GovernorsAssumption DEF GovernorStep, PauseRaced, Job, Idle, Pc, Actor
<1>5. ASSUME NEW g \in Governors, NEW s \in Sandbox, DueFinish(g, s)
      PROVE  TypeOK'
  <2>1. g \in Proc /\ job[g] \in Job
    BY GovernorsAssumption
  <2>2. StillFailing(g, s) \subseteq Link
    BY DEF StillFailing, Failing
  <2>3. \A e \in pauses : [e EXCEPT !.links = StillFailing(g, s), !.due = FALSE] \in Pause
    BY <2>2 DEF Pause
  <2>4. pauses' \subseteq Pause
    BY <1>5, <2>3 DEF DueFinish
  <2>5. job' \in [Proc -> Job]
    BY <1>5, DoneType DEF DueFinish
  <2>6. QED
    BY <1>5, <2>4, <2>5 DEF GovernorStep, DueFinish
<1>6. ASSUME NEW g \in Governors, PauseGivesUp(g)
      PROVE  TypeOK'
  BY <1>6, GovernorsAssumption DEF GovernorStep, PauseGivesUp, Job, Idle, Pc, Actor
<1>7. ASSUME NEW g \in Governors, DueRead(g)
      PROVE  TypeOK'
  <2> DEFINE due == {e \in pauses : e.due}
  <2>1. {<<0, l>> : l \in UNION {e.links : e \in due}} \subseteq Try
    BY DEF Pause, Try
  <2>2. {e.sandbox : e \in due} \subseteq Sandbox
    BY DEF Pause
  <2>3. [Idle EXCEPT !.pc = "unpause", !.todo = {e.sandbox : e \in due},
                     !.tries = {<<0, l>> : l \in UNION {e.links : e \in due}}] \in Job
    BY <2>1, <2>2 DEF Job, Idle, Pc, Actor
  <2>4. job' \in [Proc -> Job]
    BY <1>7, <2>3, GovernorsAssumption DEF DueRead
  <2>5. QED
    BY <1>7, <2>4 DEF GovernorStep, DueRead
<1>8. ASSUME NEW e \in pauses, Cooldown(e)
      PROVE  TypeOK'
  <2>1. pauses' \subseteq Pause
    BY <1>8 DEF Cooldown, Pause
  <2>2. QED
    BY <1>8, <2>1 DEF GovernorStep, Cooldown, ksVars
<1>9. ASSUME NEW g \in Governors, NEW s \in Sandbox, DueClient(g, s)
      PROVE  TypeOK'
  BY <1>9, GovernorsAssumption DEF GovernorStep, DueClient, Job
<1>10. ASSUME NEW g \in Governors, NEW s \in Sandbox, DueSkips(g, s)
      PROVE  TypeOK'
  <2>1. job' \in [Proc -> Job]
    BY <1>10, DoneType DEF DueSkips
  <2>2. QED
    BY <1>10, <2>1 DEF GovernorStep, DueSkips
<1>11. QED
  BY <1>1, <1>2, <1>3, <1>4, <1>5, <1>6, <1>7, <1>8, <1>9, <1>10
     DEF GovernorStep, RateNext, RateStep

LEMMA CurfewType ==
  ASSUME TypeOK, FreshRowIds, CurfewTask
  PROVE  TypeOK'
<1> USE DEF TypeOK, curfewVars
<1>1. ASSUME WindowTurns
      PROVE  TypeOK'
  BY <1>1 DEF CurfewTask, WindowTurns
<1>2. ASSUME NEW c \in Curfews, CurfewEngages(c)
      PROVE  TypeOK'
  BY <1>2, CurfewsAssumption DEF CurfewTask, CurfewEngages, EngageStart, Job, Idle, Pc, Actor
<1>3. ASSUME NEW c \in Curfews, CurfewEngaged(c)
      PROVE  TypeOK'
  BY <1>3, CurfewsAssumption, CommitRowsType DEF CurfewTask, CurfewEngaged, CommitRows
<1>4. ASSUME NEW c \in Curfews, CurfewReleases(c)
      PROVE  TypeOK'
  BY <1>4, CurfewsAssumption DEF CurfewTask, CurfewReleases, Job, Idle, Pc, Actor
<1>5. ASSUME NEW c \in Curfews, CurfewReads(c)
      PROVE  TypeOK'
  BY <1>5, CurfewsAssumption, ResumeType DEF CurfewTask, CurfewReads, ResumeRead
<1>6. ASSUME NEW c \in Curfews, CurfewReadsNothing(c)
      PROVE  TypeOK'
  BY <1>6, CurfewsAssumption DEF CurfewTask, CurfewReadsNothing, Job, Idle, Pc, Actor
<1>7. ASSUME NEW c \in Curfews, CurfewReleased(c)
      PROVE  TypeOK'
  BY <1>7, CurfewsAssumption, ResumeType DEF CurfewTask, CurfewReleased, ResumeCommit
<1>8. ASSUME NEW c \in Curfews, CurfewNotes(c)
      PROVE  TypeOK'
  BY <1>8 DEF CurfewTask, CurfewNotes, ksVars
<1>9. QED
  BY <1>1, <1>2, <1>3, <1>4, <1>5, <1>6, <1>7, <1>8 DEF CurfewTask, CurfewNext, CurfewStep

LEMMA CrashType ==
  ASSUME TypeOK, Crash
  PROVE  TypeOK'
<1> USE DEF TypeOK
<1>1. UNION {job[p].cut : p \in Proc} \subseteq Link
  BY DEF Job
<1>2. UNION {r.links : r \in UNION {job[p].snap : p \in Proc}} \subseteq Link
  BY DEF Job, Row
<1>3. job' \in [Proc -> Job]
  BY DEF Crash, KSCrash, Job, Idle, Pc, Actor
<1>4. QED
  BY <1>1, <1>2, <1>3 DEF Crash, KSCrash

LEMMA TypeStep ==
  ASSUME TypeOK, FreshRowIds, [Next]_vars
  PROVE  TypeOK'
<1>1. ASSUME NEW p \in Proc, Rpc(p)
      PROVE  TypeOK'
  BY <1>1, RpcType DEF Rpc, TypeOK
<1>2. CASE UNCHANGED vars
  BY <1>2 DEF vars, TypeOK
<1>3. QED
  BY <1>1, <1>2, OperatorType, BudgetType, GovernorType, CurfewType, CrashType DEF Next

LEMMA TypeInit == Init => TypeOK
BY DEF Init, KSInit, RateInit, BudgetInit, CurfewInit, TypeOK, Job, Idle, Pc, Actor

(***************************************************************************)
(* Every state of the enforcement paths is well-typed, where row ids are   *)
(* not handed out again.                                                   *)
(***************************************************************************)
THEOREM TypeCorrect ==
  ASSUME FreshRowIds
  PROVE  Spec => []TypeOK
<1>1. TypeOK /\ [Next]_vars => TypeOK'
  BY TypeStep
<1>2. QED
  BY <1>1, TypeInit, PTL DEF Spec

-----------------------------------------------------------------------------
(***************************************************************************)
(* No provider is lost.  The invariant Spec has for every parameter is     *)
(* NoProviderLost; alone it is not inductive, because a row or a pause may *)
(* be rewritten by a coroutine that read it long before.  It is kept by    *)
(* what such a coroutine still knows: whoever read the row has the link    *)
(* among its re-attaches to do or failed, or has attached it.              *)
(***************************************************************************)

\* One replica runs the governor.
SingleGovernor == \A g, h \in Governors : g = h

CutPcs == {"engage", "budgetCut", "pauseCut"}

(***************************************************************************)
(* What a coroutine detached lies in the sandboxes it will record, only a  *)
(* governor re-attaches pauses, and no coroutine knows an id that is still *)
(* to be handed out.                                                       *)
(***************************************************************************)
JobOK(p) ==
  /\ job[p].pc \notin CutPcs => job[p].cut = {} /\ job[p].left = {}
  /\ \A l \in job[p].cut \union job[p].left : l[1] \in job[p].listed
  /\ job[p].pc = "unpause" => /\ p \in Governors /\ job[p].snap = {}
                              /\ job[p].listed \subseteq job[p].todo
  /\ \A r \in job[p].snap : r.id <= lastId

IdsOK == \A k \in ks : k.id <= lastId

\* A sandbox has one pause, which holds links of that sandbox only.
PausesOK ==
  /\ \A e, f \in pauses : e.sandbox = f.sandbox => e = f
  /\ \A e \in pauses : \A l \in e.links : l[1] = e.sandbox

\* The re-attaches of p that are still to be done or have failed.
Pending(p) == job[p].tries \union job[p].fails

\* A row that will keep the link whoever rewrites it.
RowHolds(k, l) ==
  /\ l \in k.links
  /\ \A p \in Proc : k.id \in SnapIds(p) => <<k.id, l>> \in Pending(p)

KeptByRow(l) == \E k \in ks : RowHolds(k, l)

PauseHolds(e, l) ==
  /\ l \in e.links
  /\ \A p \in Proc : job[p].pc = "unpause" /\ e.sandbox \in job[p].todo
                       => <<0, l>> \in Pending(p)

KeptByPause(l) == \E e \in pauses : PauseHolds(e, l)

Safe(l) == l \in attached \/ l \in stranded \/ l \in Held \/ KeptByRow(l) \/ KeptByPause(l)

Core == /\ \A p \in Proc : JobOK(p)
        /\ IdsOK
        /\ PausesOK
        /\ \A l \in want : Safe(l)

IInv == TypeOK /\ Core

(***************************************************************************)
(* What a step of p that touches neither the rows nor the pauses must do:  *)
(* leave the other jobs alone, and forget no re-attach but those done.     *)
(***************************************************************************)
Others(p) == \A q \in Proc : q # p => job'[q] = job[q]

Remembers(p) == \A u \in Pending(p) : u \in Pending(p)' \/ u[2] \in attached'

KeepsRows(p) ==
  job'[p].snap = {} \/ (job'[p].snap = job[p].snap /\ Remembers(p))

RemembersDue(p) ==
  \A u \in Pending(p) : u \in Pending(p)' \/ u[2] \in attached' \/ u[2][1] \notin job'[p].todo

KeepsPauses(p) ==
  \/ job'[p].pc # "unpause"
  \/ job[p].pc = "unpause" /\ job'[p].todo \subseteq job[p].todo /\ RemembersDue(p)

LEMMA JobsStay ==
  ASSUME IInv, TypeOK', NEW p \in Proc, Others(p), JobOK(p)', lastId <= lastId'
  PROVE  \A q \in Proc : JobOK(q)'
<1> SUFFICES ASSUME NEW q \in Proc, q # p
             PROVE  JobOK(q)'
  OBVIOUS
<1>1. JobOK(q) /\ job'[q] = job[q]
  BY DEF IInv, Core, Others
<1>2. \A r \in job[q].snap : r.id \in Nat
  BY DEF IInv, TypeOK, Job, Row
<1>3. \A r \in job[q].snap : r.id <= lastId'
  BY <1>1, <1>2 DEF JobOK, IInv, TypeOK
<1>4. QED
  BY <1>1, <1>3 DEF JobOK

LEMMA RowStays ==
  ASSUME NEW p \in Proc, Others(p), KeepsRows(p), NEW k, NEW l, RowHolds(k, l)
  PROVE  RowHolds(k, l)' \/ l \in attached'
<1> SUFFICES ASSUME l \notin attached', NEW q \in Proc, k.id \in SnapIds(q)'
             PROVE  <<k.id, l>> \in Pending(q)'
  BY DEF RowHolds
<1>1. CASE q # p
  BY <1>1 DEF Others, RowHolds, SnapIds, Pending
<1>2. CASE q = p
  BY <1>2 DEF KeepsRows, Remembers, RowHolds, SnapIds
<1>3. QED
  BY <1>1, <1>2

LEMMA PauseStays ==
  ASSUME NEW p \in Proc, Others(p), KeepsPauses(p), NEW e, NEW l, PauseHolds(e, l),
         l[1] = e.sandbox
  PROVE  PauseHolds(e, l)' \/ l \in attached'
<1> SUFFICES ASSUME l \notin attached', NEW q \in Proc, job'[q].pc = "unpause",
                    e.sandbox \in job'[q].todo
             PROVE  <<0, l>> \in Pending(q)'
  BY DEF PauseHolds
<1>1. CASE q # p
  BY <1>1 DEF Others, PauseHolds, Pending
<1>2. CASE q = p
  BY <1>2 DEF KeepsPauses, RemembersDue, PauseHolds
<1>3. QED
  BY <1>1, <1>2

LEMMA PausesStay ==
  ASSUME IInv, NEW p \in Proc, Others(p), KeepsPauses(p), pauses \subseteq pauses',
         NEW l, KeptByPause(l)
  PROVE  KeptByPause(l)' \/ l \in attached'
<1>1. PICK e \in pauses : PauseHolds(e, l)
  BY DEF KeptByPause
<1>2. l[1] = e.sandbox
  BY <1>1 DEF IInv, Core, PausesOK, PauseHolds
<1>3. QED
  BY <1>1, <1>2, PauseStays DEF KeptByPause

\* What a link that was safe before a step of p owes its safety to after it.
LEMMA LinkStays ==
  ASSUME IInv, NEW p \in Proc, Others(p), stranded \subseteq stranded',
         NEW l, Safe(l),
         l \in attached => Safe(l)',
         l \in job[p].cut => Safe(l)',
         KeptByRow(l) => Safe(l)',
         KeptByPause(l) => Safe(l)'
  PROVE  Safe(l)'
<1>1. ASSUME NEW q \in Proc, q # p, l \in job[q].cut
      PROVE  Safe(l)'
  BY <1>1 DEF Others, Safe, Held
<1>2. CASE l \in stranded
  BY <1>2 DEF Safe
<1>3. QED
  BY <1>1, <1>2 DEF Safe, Held

\* A step of p that only adds rows and pauses and forgets nothing.
LEMMA Carried ==
  ASSUME IInv, NEW p \in Proc, Others(p), stranded \subseteq stranded',
         KeepsRows(p), KeepsPauses(p), ks \subseteq ks', pauses \subseteq pauses',
         \A l \in want' : l \in want \/ l \in attached',
         \A l \in want' : l \in attached => Safe(l)',
         \A l \in want' : l \in job[p].cut => Safe(l)'
  PROVE  \A l \in want' : Safe(l)'
<1> SUFFICES ASSUME NEW l \in want', l \in want
             PROVE  Safe(l)'
  BY DEF Safe
<1>1. Safe(l)
  BY DEF IInv, Core
<1>2. KeptByRow(l) => Safe(l)'
  BY RowStays DEF KeptByRow, Safe
<1>3. KeptByPause(l) => Safe(l)'
  BY PausesStay DEF Safe
<1>4. QED
  BY <1>1, <1>2, <1>3, LinkStays

\* A step of p that changes neither rows nor pauses.
LEMMA JobStep ==
  ASSUME IInv, TypeOK', NEW p \in Proc, Others(p), JobOK(p)', KeepsRows(p), KeepsPauses(p),
         UNCHANGED <<want, ks, lastId, pauses>>, stranded \subseteq stranded',
         \A l \in want : l \in attached => Safe(l)',
         \A l \in want : l \in job[p].cut => Safe(l)'
  PROVE  Core'
<1>1. \A q \in Proc : JobOK(q)'
  BY JobsStay DEF IInv, TypeOK
<1>2. IdsOK' /\ PausesOK'
  BY DEF IInv, Core, IdsOK, PausesOK
<1>3. \A l \in want' : Safe(l)'
  BY Carried
<1>4. QED
  BY <1>1, <1>2, <1>3 DEF Core

\* A step of p that begins or ends with an empty job.
LEMMA FreshJob ==
  ASSUME IInv, TypeOK', NEW p \in Proc, Others(p), JobOK(p)', KeepsRows(p), KeepsPauses(p),
         UNCHANGED <<attached, want, ks, lastId, pauses>>, stranded \subseteq stranded',
         job[p].cut \subseteq stranded'
  PROVE  Core'
<1>1. \A l \in want : (l \in attached => Safe(l)') /\ (l \in job[p].cut => Safe(l)')
  BY DEF Safe
<1>2. QED
  BY <1>1, JobStep

LEMMA SameCore ==
  ASSUME Core, UNCHANGED <<attached, want, stranded, ks, lastId, job, pauses>>
  PROVE  Core'
<1>1. \A p \in Proc : JobOK(p)' = JobOK(p)
  BY DEF JobOK
<1>2. \A l : KeptByRow(l)' = KeptByRow(l)
  BY DEF KeptByRow, RowHolds, SnapIds, Pending
<1>3. \A l : KeptByPause(l)' = KeptByPause(l)
  BY DEF KeptByPause, PauseHolds, Pending
<1>4. \A l : Safe(l)' = Safe(l)
  BY <1>2, <1>3 DEF Safe, Held
<1>5. IdsOK' = IdsOK /\ PausesOK' = PausesOK
  BY DEF IdsOK, PausesOK
<1>6. QED
  BY <1>1, <1>4, <1>5 DEF Core

\* job' = [job EXCEPT ![p] = Idle], or any job that holds nothing.
LEMMA EmptyJob ==
  ASSUME TypeOK, NEW p \in Proc, NEW j, job' = [job EXCEPT ![p] = j],
         j.cut = {}, j.left = {}, j.snap = {}, j.pc # "unpause"
  PROVE  Others(p) /\ JobOK(p)' /\ KeepsRows(p) /\ KeepsPauses(p) /\ job'[p] = j
<1>1. Others(p) /\ job'[p] = j
  BY DEF Others, TypeOK
<1>2. QED
  BY <1>1 DEF JobOK, KeepsRows, KeepsPauses

\* The handlers and tasks that hold no cut have nothing to lose.
LEMMA NoCut ==
  ASSUME IInv, NEW p \in Proc, job[p].pc \notin CutPcs
  PROVE  job[p].cut = {} /\ job[p].left = {}
BY DEF IInv, Core, JobOK

LEMMA StartSafe ==
  ASSUME IInv, TypeOK', NEW p \in Proc, NEW j, job[p].pc \notin CutPcs,
         job' = [job EXCEPT ![p] = j],
         j.cut = {}, j.left = {}, j.snap = {}, j.pc # "unpause",
         UNCHANGED <<attached, want, stranded, ks, lastId, pauses>>
  PROVE  Core'
<1>1. job[p].cut = {}
  BY NoCut
<1>2. TypeOK
  BY DEF IInv
<1>3. QED
  BY <1>1, <1>2, EmptyJob, FreshJob

-----------------------------------------------------------------------------
(***************************************************************************)
(* One step of each kind keeps Core.                                       *)
(***************************************************************************)
LEMMA RpcSafe ==
  ASSUME IInv, TypeOK', NEW p \in Proc, Rpc(p)
  PROVE  Core'
<1>1. TypeOK /\ JobOK(p) /\ job[p] \in Job /\ UNCHANGED pauses
  BY DEF IInv, Core, TypeOK, Rpc
<1>2. ASSUME NEW s \in Sandbox, EngageList(p, s)
      PROVE  Core'
  <2>1. /\ Others(p) /\ job'[p].pc = job[p].pc /\ job[p].pc = "engage"
        /\ job'[p].cut = job[p].cut /\ job'[p].snap = job[p].snap
        /\ job'[p].listed = job[p].listed \union {s}
        /\ job'[p].left = LinksOf(s) /\ Pending(p)' = Pending(p)
    BY <1>1, <1>2 DEF EngageList, Others, Pending, TypeOK, Job
  <2>2. UNCHANGED <<attached, want, stranded, ks, lastId>>
    BY <1>2 DEF EngageList
  <2>3. JobOK(p)'
    BY <1>1, <2>1, <2>2 DEF JobOK, CutPcs, LinksOf
  <2>4. KeepsRows(p) /\ KeepsPauses(p)
    BY <2>1 DEF KeepsRows, KeepsPauses, Remembers, RemembersDue
  <2>5. \A l \in want : (l \in attached => Safe(l)') /\ (l \in job[p].cut => Safe(l)')
    BY <2>1, <2>2 DEF Safe, Held
  <2>6. QED
    BY <1>1, <2>1, <2>2, <2>3, <2>4, <2>5, JobStep
<1>3. ASSUME NEW s \in Sandbox, EngageSkip(p, s)
      PROVE  Core'
  <2>1. /\ Others(p) /\ job'[p].pc = job[p].pc /\ job[p].pc = "engage"
        /\ job'[p].cut = job[p].cut /\ job'[p].snap = job[p].snap
        /\ job'[p].listed = job[p].listed
        /\ job'[p].left = job[p].left /\ Pending(p)' = Pending(p)
    BY <1>1, <1>3 DEF EngageSkip, Others, Pending, TypeOK, Job
  <2>2. UNCHANGED <<attached, want, stranded, ks, lastId>>
    BY <1>3 DEF EngageSkip
  <2>3. JobOK(p)'
    BY <1>1, <2>1, <2>2 DEF JobOK, CutPcs
  <2>4. KeepsRows(p) /\ KeepsPauses(p)
    BY <2>1 DEF KeepsRows, KeepsPauses, Remembers, RemembersDue
  <2>5. \A l \in want : (l \in attached => Safe(l)') /\ (l \in job[p].cut => Safe(l)')
    BY <2>1, <2>2 DEF Safe, Held
  <2>6. QED
    BY <1>1, <2>1, <2>2, <2>3, <2>4, <2>5, JobStep
<1>4. ASSUME NEW l \in job[p].left, DetachOk(p, l) \/ DetachRefused(p, l) \/ DetachLost(p, l)
      PROVE  Core'
  <2>1. /\ Others(p) /\ job'[p].pc = job[p].pc /\ job'[p].snap = job[p].snap
        /\ job'[p].listed = job[p].listed /\ job'[p].todo = job[p].todo
        /\ job'[p].left = job[p].left \ {l} /\ Pending(p)' = Pending(p)
        /\ job[p].cut \subseteq job'[p].cut /\ job'[p].cut \subseteq job[p].cut \union {l}
    BY <1>1, <1>4 DEF DetachOk, DetachRefused, DetachLost, Others, Pending, TypeOK, Job
  <2>2. UNCHANGED <<want, ks, lastId>> /\ stranded \subseteq stranded'
    BY <1>4 DEF DetachOk, DetachRefused, DetachLost
  <2>3. \A m \in attached : m \in attached' \/ m \in stranded' \/ m \in job'[p].cut
    BY <1>1, <1>4 DEF DetachOk, DetachRefused, DetachLost, TypeOK, Job
  <2>4. job[p].pc \in CutPcs
    BY <1>1 DEF JobOK
  <2>5. JobOK(p)'
    BY <1>1, <2>1, <2>2, <2>4 DEF JobOK, CutPcs
  <2>6. KeepsRows(p) /\ KeepsPauses(p)
    BY <2>1 DEF KeepsRows, KeepsPauses, Remembers, RemembersDue
  <2>7. \A m \in want : (m \in attached => Safe(m)') /\ (m \in job[p].cut => Safe(m)')
    BY <2>1, <2>2, <2>3 DEF Safe, Held
  <2>8. QED
    BY <1>1, <2>1, <2>2, <2>5, <2>6, <2>7, JobStep
<1>5. ASSUME NEW t \in Ready(p), AttachOk(p, t) \/ AttachRefused(p, t) \/ AttachLost(p, t)
      PROVE  Core'
  <2>1. /\ Others(p) /\ job'[p].pc = job[p].pc /\ job'[p].snap = job[p].snap
        /\ job'[p].listed = job[p].listed /\ job'[p].todo = job[p].todo
        /\ job'[p].left = job[p].left /\ job'[p].cut = job[p].cut
    BY <1>1, <1>5 DEF AttachOk, AttachRefused, AttachLost, Others, TypeOK, Job
  <2>2. UNCHANGED <<want, stranded, ks, lastId>> /\ attached \subseteq attached'
    BY <1>5 DEF AttachOk, AttachRefused, AttachLost
  <2>3. Remembers(p)
    BY <1>1, <1>5 DEF AttachOk, AttachRefused, AttachLost, Remembers, Pending, TypeOK, Job
  <2>4. JobOK(p)'
    BY <1>1, <2>1, <2>2 DEF JobOK
  <2>5. KeepsRows(p) /\ KeepsPauses(p)
    BY <2>1, <2>3 DEF KeepsRows, KeepsPauses, Remembers, RemembersDue
  <2>6. \A m \in want : (m \in attached => Safe(m)') /\ (m \in job[p].cut => Safe(m)')
    BY <2>1, <2>2 DEF Safe, Held
  <2>7. QED
    BY <1>1, <2>1, <2>2, <2>4, <2>5, <2>6, JobStep
<1>6. QED
  BY <1>2, <1>3, <1>4, <1>5 DEF Rpc, RpcStep

\* What a cut detached moves to its rows, whose ids nobody has read yet.
LEMMA CommitRowsSafe ==
  ASSUME IInv, TypeOK', FreshRowIds, NEW p \in Proc, CommitRows(p), UNCHANGED pauses
  PROVE  Core'
<1> USE DEF IInv
<1>1. PICK id \in Bijection(job[p].listed,
                      IdBase + 1 .. IdBase + Cardinality(job[p].listed)) :
         ks' = ks \union {[id |-> id[s], sandbox |-> s,
                           links |-> {l \in job[p].cut : l[1] = s},
                           by |-> job[p].by] : s \in job[p].listed}
  BY DEF CommitRows
<1>2. /\ lastId \in Nat /\ lastId' \in Nat /\ lastId <= lastId'
      /\ \A s \in job[p].listed : id[s] \in Nat /\ lastId < id[s] /\ id[s] <= lastId'
  BY ListedRange DEF CommitRows, TypeOK
<1>3. Others(p) /\ JobOK(p)' /\ KeepsRows(p) /\ KeepsPauses(p) /\ job'[p] = Idle
  <2>1. job' = [job EXCEPT ![p] = Idle]
    BY DEF CommitRows
  <2>2. Idle.cut = {} /\ Idle.left = {} /\ Idle.snap = {} /\ Idle.pc # "unpause"
    BY DEF Idle
  <2>3. QED
    BY <2>1, <2>2, EmptyJob
<1>4. UNCHANGED <<attached, want, stranded>> /\ ks \subseteq ks'
  BY <1>1 DEF CommitRows
<1>5. \A q \in Proc : JobOK(q)'
  BY <1>2, <1>3, JobsStay
<1>6. IdsOK'
  <2> SUFFICES ASSUME NEW k \in ks'
               PROVE  k.id <= lastId'
    BY DEF IdsOK
  <2>1. CASE k \in ks
    BY <1>2, <2>1 DEF Core, IdsOK, TypeOK, Row
  <2>2. CASE k \notin ks
    BY <1>1, <1>2, <2>2
  <2>3. QED
    BY <2>1, <2>2
<1>7. PausesOK'
  BY DEF Core, PausesOK
<1>8. ASSUME NEW l \in job[p].cut
      PROVE  KeptByRow(l)'
  <2>1. l[1] \in job[p].listed
    BY DEF Core, JobOK
  <2>2. PICK k \in ks' : l \in k.links /\ k.id = id[l[1]]
    <3> DEFINE row == [id |-> id[l[1]], sandbox |-> l[1],
                       links |-> {m \in job[p].cut : m[1] = l[1]}, by |-> job[p].by]
    <3>1. row \in ks' /\ l \in row.links /\ row.id = id[l[1]]
      BY <1>1, <2>1
    <3> HIDE DEF row
    <3>2. QED
      BY <3>1
  <2>3. \A q \in Proc : \A r \in job'[q].snap : r.id < k.id
    <3> SUFFICES ASSUME NEW q \in Proc, NEW r \in job'[q].snap
                 PROVE  r.id < id[l[1]]
      BY <2>2
    <3>1. q # p /\ job'[q] = job[q]
      BY <1>3 DEF Others, Idle
    <3>2. r.id <= lastId /\ r.id \in Nat
      BY <3>1 DEF Core, JobOK, TypeOK, Job, Row
    <3>3. QED
      BY <1>2, <2>1, <3>2
  <2>4. \A q \in Proc : \A r \in job'[q].snap : r.id \in Nat
    BY DEF TypeOK, Job, Row
  <2>5. k.id \in Nat
    BY <1>2, <2>1, <2>2
  <2>6. RowHolds(k, l)'
    BY <2>2, <2>3, <2>4, <2>5 DEF RowHolds, SnapIds
  <2>7. QED
    BY <2>2, <2>6 DEF KeptByRow
<1>9. \A l \in want' : Safe(l)'
  <2>1. \A l \in want' : (l \in attached => Safe(l)') /\ (l \in job[p].cut => Safe(l)')
    BY <1>4, <1>8 DEF Safe
  <2>2. QED
    BY <1>3, <1>4, <2>1, Carried
<1>10. QED
  BY <1>5, <1>6, <1>7, <1>9 DEF Core

\* Whoever reads the rows has all their links to re-attach.
LEMMA ResumeReadSafe ==
  ASSUME IInv, TypeOK', NEW p \in Proc, job[p].pc \notin CutPcs, ResumeRead(p),
         UNCHANGED pauses
  PROVE  Core'
<1> USE DEF IInv
<1>1. /\ Others(p) /\ job'[p].pc = "resume" /\ job'[p].cut = {} /\ job'[p].left = {}
      /\ job'[p].snap = ks
      /\ job'[p].tries = {u \in {r.id : r \in ks} \X Link :
                            \E r \in ks : r.id = u[1] /\ u[2] \in r.links}
  BY DEF ResumeRead, Others, Idle, TypeOK
<1>2. UNCHANGED <<attached, want, stranded, ks, lastId>> /\ job[p].cut = {}
  BY NoCut DEF ResumeRead
<1>3. JobOK(p)'
  BY <1>1, <1>2 DEF JobOK, Core, IdsOK
<1>4. \A q \in Proc : JobOK(q)'
  BY <1>1, <1>2, <1>3, JobsStay DEF TypeOK
<1>5. IdsOK' /\ PausesOK'
  BY <1>2 DEF Core, IdsOK, PausesOK
<1>6. KeepsPauses(p)
  BY <1>1 DEF KeepsPauses
<1>7. ASSUME NEW k \in ks, NEW l, RowHolds(k, l)
      PROVE  RowHolds(k, l)'
  <2>1. l \in k.links /\ l \in Link
    BY <1>7 DEF RowHolds, TypeOK, Row
  <2>2. <<k.id, l>> \in job'[p].tries
    BY <1>1, <2>1
  <2>3. \A q \in Proc : k.id \in SnapIds(q)' => <<k.id, l>> \in Pending(q)'
    BY <1>1, <1>7, <2>2 DEF Others, RowHolds, SnapIds, Pending
  <2>4. QED
    BY <2>1, <2>3 DEF RowHolds
<1>8. \A l : KeptByRow(l) => Safe(l)'
  BY <1>2, <1>7 DEF KeptByRow, Safe
<1>9. \A l : KeptByPause(l) => Safe(l)'
  BY <1>1, <1>6, PausesStay DEF Safe
<1>10. \A l \in want' : Safe(l)'
  BY <1>1, <1>2, <1>8, <1>9, LinkStays DEF Safe, Core
<1>11. QED
  BY <1>4, <1>5, <1>10 DEF Core

\* A release rewrites a row only down to the links it failed to re-attach.
LEMMA ResumeCommitSafe ==
  ASSUME IInv, TypeOK', NEW p \in Proc, ResumeCommit(p), UNCHANGED pauses
  PROVE  Core'
<1> USE DEF IInv
<1>1. /\ job[p].pc = "resume" /\ job[p].tries = {}
      /\ ks' = RowsAfterResume(p) /\ job' = [job EXCEPT ![p] = Idle]
      /\ UNCHANGED <<attached, want, stranded, lastId>>
  BY DEF ResumeCommit
<1>2. Others(p) /\ JobOK(p)' /\ KeepsRows(p) /\ KeepsPauses(p) /\ job'[p] = Idle
  <2>1. Idle.cut = {} /\ Idle.left = {} /\ Idle.snap = {} /\ Idle.pc # "unpause"
    BY DEF Idle
  <2>2. QED
    BY <1>1, <2>1, EmptyJob
<1>3. job[p].cut = {}
  BY <1>1, NoCut DEF CutPcs
<1>4. \A q \in Proc : JobOK(q)'
  BY <1>1, <1>2, JobsStay DEF TypeOK
<1>5. \A k \in ks : Settled(p, k).id = k.id
  BY DEF Settled, TypeOK, Row
<1>6. IdsOK'
  BY <1>1, <1>5 DEF RowsAfterResume, Core, IdsOK
<1>7. PausesOK'
  BY DEF Core, PausesOK
<1>8. ASSUME NEW k \in ks, NEW l, RowHolds(k, l)
      PROVE  KeptByRow(l)'
  <2>1. k.id \in SnapIds(p) => l \in Failing(p, k.id)
    BY <1>1, <1>8 DEF RowHolds, Pending, Failing, TypeOK, Row
  <2>2. l \in Settled(p, k).links
    BY <1>8, <2>1 DEF Settled, RowHolds, SnapIds, TypeOK, Row
  <2>3. PICK r \in ks' : r.id = k.id /\ l \in r.links
    <3>1. CASE Stale(p)
      BY <1>1, <1>8, <3>1 DEF RowsAfterResume, RowHolds
    <3>2. CASE ~Stale(p)
      BY <1>1, <1>5, <2>1, <2>2, <3>2 DEF RowsAfterResume
    <3>3. QED
      BY <3>1, <3>2
  <2>4. \A q \in Proc : r.id \in SnapIds(q)' => <<r.id, l>> \in Pending(q)'
    BY <1>2, <1>8, <2>3 DEF Others, RowHolds, SnapIds, Pending, Idle
  <2>5. QED
    BY <2>3, <2>4 DEF KeptByRow, RowHolds
<1>9. \A l : KeptByRow(l) => Safe(l)'
  BY <1>8 DEF KeptByRow, Safe
<1>10. \A l : KeptByPause(l) => Safe(l)'
  BY <1>2, PausesStay DEF Safe
<1>11. \A l \in want' : Safe(l)'
  BY <1>1, <1>2, <1>3, <1>9, <1>10, LinkStays DEF Safe, Core
<1>12. QED
  BY <1>4, <1>6, <1>7, <1>11 DEF Core

LEMMA BudgetSafe ==
  ASSUME IInv, TypeOK', FreshRowIds, BudgetStep
  PROVE  Core'
<1> USE DEF IInv
<1>0. UNCHANGED pauses /\ Meters \subseteq Proc
  BY MetersAssumption DEF BudgetStep
<1>1. ASSUME NEW b \in Meters, NEW s \in Sandbox, BudgetTrip(b, s)
      PROVE  Core'
  <2> DEFINE j == [Idle EXCEPT !.pc = "budgetList", !.by = "budget", !.todo = {s}]
  <2>1. j.cut = {} /\ j.left = {} /\ j.snap = {} /\ j.pc = "budgetList"
    BY DEF Idle
  <2>2. /\ job' \in {job, [job EXCEPT ![b] = j]} /\ job[b].pc \notin CutPcs
        /\ UNCHANGED <<attached, want, stranded, ks, lastId, pauses>>
    BY <1>0, <1>1 DEF BudgetTrip, CutPcs
  <2> HIDE DEF j
  <2>3. CASE job' = job
    BY <2>2, <2>3, SameCore
  <2>4. CASE job' = [job EXCEPT ![b] = j]
    BY <1>0, <2>1, <2>2, <2>4, StartSafe
  <2>5. QED
    BY <2>2, <2>3, <2>4
<1>2. ASSUME NEW b \in Meters, NEW s \in Sandbox, BudgetList(b, s)
      PROVE  Core'
  <2>1. b \in Proc /\ JobOK(b) /\ job[b] \in Job /\ job[b].pc \notin CutPcs
    BY <1>0, <1>2 DEF Core, BudgetList, CutPcs, TypeOK
  <2>2. /\ Others(b) /\ job'[b].pc = "budgetCut" /\ job'[b].cut = job[b].cut
        /\ job'[b].snap = job[b].snap /\ job'[b].listed = {s}
        /\ job'[b].left = LinksOf(s) /\ Pending(b)' = Pending(b)
    BY <2>1, <1>2 DEF BudgetList, Others, Pending, TypeOK, Job
  <2>3. UNCHANGED <<attached, want, stranded, ks, lastId>> /\ job[b].cut = {}
    BY <1>2, <2>1, NoCut DEF BudgetList
  <2>4. JobOK(b)'
    BY <2>1, <2>2, <2>3 DEF JobOK, CutPcs, LinksOf
  <2>5. KeepsRows(b) /\ KeepsPauses(b)
    BY <2>2 DEF KeepsRows, KeepsPauses, Remembers, RemembersDue
  <2>6. QED
    BY <1>0, <2>1, <2>2, <2>3, <2>4, <2>5, FreshJob
<1>3. ASSUME NEW b \in Meters, BudgetGivesUp(b)
      PROVE  Core'
  <2>1. Idle.cut = {} /\ Idle.left = {} /\ Idle.snap = {} /\ Idle.pc = "idle"
    BY DEF Idle
  <2>2. QED
    BY <1>0, <1>3, <2>1, StartSafe DEF BudgetGivesUp, CutPcs
<1>4. ASSUME NEW s \in Sandbox, BudgetWindow(s)
      PROVE  Core'
  BY <1>0, <1>4, SameCore DEF BudgetWindow, ksVars
<1>5. ASSUME NEW b \in Meters, CommitRows(b)
      PROVE  Core'
  BY <1>0, <1>5, CommitRowsSafe
<1>6. QED
  BY <1>1, <1>2, <1>3, <1>4, <1>5 DEF BudgetStep, BudgetNext

LEMMA OperatorSafe ==
  ASSUME IInv, TypeOK', FreshRowIds, OperatorStep
  PROVE  Core'
<1> USE DEF IInv
<1>0. UNCHANGED pauses /\ Operators \subseteq Proc
  BY ProcAssumption DEF OperatorStep
<1>1. ASSUME NEW p \in Operators, EngageStart(p, "operator")
      PROVE  Core'
  <2> DEFINE j == [Idle EXCEPT !.pc = "engage", !.by = "operator", !.todo = Sandbox]
  <2>1. j.cut = {} /\ j.left = {} /\ j.snap = {} /\ j.pc = "engage"
    BY DEF Idle
  <2>2. /\ job' = [job EXCEPT ![p] = j] /\ job[p].pc \notin CutPcs
        /\ UNCHANGED <<attached, want, stranded, ks, lastId, pauses>>
    BY <1>0, <1>1 DEF EngageStart, CutPcs
  <2> HIDE DEF j
  <2>3. QED
    BY <1>0, <2>1, <2>2, StartSafe
<1>2. ASSUME NEW p \in Operators, job[p].pc = "idle", ResumeRead(p)
      PROVE  Core'
  BY <1>0, <1>2, ResumeReadSafe DEF CutPcs
<1>3. ASSUME NEW p \in Operators, CommitRows(p)
      PROVE  Core'
  BY <1>0, <1>3, CommitRowsSafe
<1>4. ASSUME NEW p \in Operators, ResumeCommit(p)
      PROVE  Core'
  BY <1>0, <1>4, ResumeCommitSafe
<1>5. ASSUME NEW l \in Link, OperatorAttach(l) \/ OperatorDetach(l)
      PROVE  Core'
  <2>1. /\ UNCHANGED <<stranded, ks, lastId, job, pauses>>
        /\ \A m \in want' : m \in attached' \/ m \in want
        /\ \A m \in want' : m \in attached => m \in attached'
    BY <1>0, <1>5 DEF OperatorAttach, OperatorDetach
  <2>2. \A p \in Proc : JobOK(p)'
    BY <2>1 DEF JobOK, Core
  <2>3. IdsOK' /\ PausesOK'
    BY <2>1 DEF Core, IdsOK, PausesOK
  <2>4. \A m : (KeptByRow(m) => KeptByRow(m)') /\ (KeptByPause(m) => KeptByPause(m)')
    BY <2>1 DEF KeptByRow, KeptByPause, RowHolds, PauseHolds, SnapIds, Pending
  <2>5. \A m \in want' : Safe(m)'
    BY <2>1, <2>4 DEF Core, Safe, Held
  <2>6. QED
    BY <2>2, <2>3, <2>5 DEF Core
<1>6. QED
  BY <1>1, <1>2, <1>3, <1>4, <1>5 DEF OperatorStep

\* The jobs of the governor that hold no cut and start or end one.
LEMMA PauseJobsSafe ==
  ASSUME IInv, TypeOK', NEW g \in Governors, NEW s \in Sandbox,
         PauseStart(g, s) \/ PauseList(g, s) \/ PauseGivesUp(g) \/ PauseRaced(g, s)
  PROVE  Core'
<1> USE DEF IInv
<1>0. g \in Proc /\ Idle.cut = {} /\ Idle.left = {} /\ Idle.snap = {} /\ Idle.pc = "idle"
  BY GovernorsAssumption DEF Idle
<1>1. CASE PauseStart(g, s)
  <2> DEFINE j == [Idle EXCEPT !.pc = "pauseList", !.todo = {s}]
  <2>1. j.cut = {} /\ j.left = {} /\ j.snap = {} /\ j.pc = "pauseList"
    BY DEF Idle
  <2>2. /\ job' = [job EXCEPT ![g] = j] /\ job[g].pc \notin CutPcs
        /\ UNCHANGED <<attached, want, stranded, ks, lastId, pauses>>
    BY <1>1 DEF PauseStart, CutPcs
  <2> HIDE DEF j
  <2>3. QED
    BY <1>0, <2>1, <2>2, StartSafe
<1>2. CASE PauseList(g, s)
  <2>1. job[g].pc \notin CutPcs
    BY <1>2 DEF PauseList, CutPcs
  <2>2. /\ Others(g) /\ job'[g].pc = "pauseCut" /\ job'[g].cut = {}
        /\ job'[g].snap = {} /\ job'[g].listed = {s} /\ job'[g].left = LinksOf(s)
    BY <1>0, <1>2 DEF PauseList, Others, Idle, TypeOK
  <2>3. /\ UNCHANGED <<attached, want, stranded, ks, lastId, pauses>>
        /\ job[g].cut = {}
    BY <1>0, <1>2, <2>1, NoCut DEF PauseList
  <2>4. JobOK(g)' /\ KeepsRows(g) /\ KeepsPauses(g)
    BY <2>2 DEF JobOK, CutPcs, LinksOf, KeepsRows, KeepsPauses
  <2>5. QED
    BY <1>0, <2>2, <2>3, <2>4, FreshJob
<1>3. CASE PauseGivesUp(g)
  BY <1>0, <1>3, StartSafe DEF PauseGivesUp, CutPcs
<1>4. CASE PauseRaced(g, s)
  <2>1. Others(g) /\ JobOK(g)' /\ KeepsRows(g) /\ KeepsPauses(g)
    BY <1>0, <1>4, EmptyJob DEF PauseRaced
  <2>2. QED
    BY <1>0, <1>4, <2>1, FreshJob DEF PauseRaced
<1>5. QED
  BY <1>1, <1>2, <1>3, <1>4

\* No other governor knows the pause that records what this one detached.
LEMMA PauseCommitSafe ==
  ASSUME IInv, TypeOK', SingleGovernor, NEW g \in Governors, NEW s \in Sandbox,
         PauseCommit(g, s)
  PROVE  Core'
<1> USE DEF IInv
<1> DEFINE row == [sandbox |-> s, links |-> job[g].cut, due |-> FALSE]
<1>0. g \in Proc /\ JobOK(g)
  BY GovernorsAssumption DEF Core
<1>1. /\ job[g].listed = {s} /\ ~HasPause(s)
      /\ pauses' = pauses \union {row} /\ row.sandbox = s /\ row.links = job[g].cut
      /\ job' = [job EXCEPT ![g] = Idle]
      /\ UNCHANGED <<attached, want, stranded, ks, lastId>>
  BY DEF PauseCommit
<1> HIDE DEF row
<1>2. Others(g) /\ JobOK(g)' /\ KeepsRows(g) /\ KeepsPauses(g) /\ job'[g] = Idle
  <2>1. Idle.cut = {} /\ Idle.left = {} /\ Idle.snap = {} /\ Idle.pc # "unpause"
    BY DEF Idle
  <2>2. QED
    BY <1>0, <1>1, <2>1, EmptyJob
<1>3. \A q \in Proc : JobOK(q)'
  BY <1>0, <1>1, <1>2, JobsStay DEF TypeOK
<1>4. IdsOK'
  BY <1>1 DEF Core, IdsOK
<1>5. PausesOK'
  <2>1. \A l \in job[g].cut : l[1] = s
    BY <1>0, <1>1 DEF JobOK
  <2>2. \A f \in pauses : f.sandbox # s
    BY <1>1 DEF HasPause
  <2>3. QED
    BY <1>1, <2>1, <2>2 DEF Core, PausesOK
<1>6. \A q \in Proc : job'[q].pc # "unpause"
  <2> SUFFICES ASSUME NEW q \in Proc, job'[q].pc = "unpause"
               PROVE  FALSE
    OBVIOUS
  <2>1. q \in Governors
    BY <1>3 DEF JobOK
  <2>2. q = g
    BY <2>1 DEF SingleGovernor
  <2>3. QED
    BY <1>2, <2>2 DEF Idle
<1>7. ASSUME NEW l \in job[g].cut
      PROVE  Safe(l)'
  <2>1. PICK f \in pauses' : l \in f.links
    BY <1>1
  <2>2. PauseHolds(f, l)'
    BY <1>6, <2>1 DEF PauseHolds
  <2>3. QED
    BY <2>1, <2>2 DEF KeptByPause, Safe
<1>8. \A l \in want' : Safe(l)'
  <2>1. \A l \in want' : (l \in attached => Safe(l)') /\ (l \in job[g].cut => Safe(l)')
    BY <1>1, <1>7 DEF Safe
  <2>2. QED
    BY <1>0, <1>1, <1>2, <2>1, Carried
<1>9. QED
  BY <1>3, <1>4, <1>5, <1>8 DEF Core

\* The governor that reads the due pauses has all their links to re-attach.
LEMMA DueReadSafe ==
  ASSUME IInv, TypeOK', NEW g \in Governors, DueRead(g)
  PROVE  Core'
<1> USE DEF IInv
<1> DEFINE due == {e \in pauses : e.due}
<1>1. /\ g \in Proc /\ Others(g) /\ job'[g].pc = "unpause" /\ job'[g].cut = {}
      /\ job'[g].left = {} /\ job'[g].snap = {} /\ job'[g].listed = {}
      /\ job'[g].todo = {e.sandbox : e \in due}
      /\ job'[g].tries = {<<0, l>> : l \in UNION {e.links : e \in due}}
  BY GovernorsAssumption DEF DueRead, Others, Idle, TypeOK
<1>2. UNCHANGED <<attached, want, stranded, ks, lastId, pauses>> /\ job[g].cut = {}
  BY <1>1, NoCut DEF DueRead, CutPcs
<1>3. JobOK(g)'
  BY <1>1 DEF JobOK
<1>4. \A q \in Proc : JobOK(q)'
  BY <1>1, <1>2, <1>3, JobsStay DEF TypeOK
<1>5. IdsOK' /\ PausesOK'
  BY <1>2 DEF Core, IdsOK, PausesOK
<1>6. KeepsRows(g)
  BY <1>1 DEF KeepsRows
<1>7. ASSUME NEW e \in pauses, NEW l, PauseHolds(e, l)
      PROVE  PauseHolds(e, l)'
  <2>1. l \in e.links
    BY <1>7 DEF PauseHolds
  <2>2. e.sandbox \in job'[g].todo => <<0, l>> \in Pending(g)'
    <3> SUFFICES ASSUME e.sandbox \in job'[g].todo
                 PROVE  <<0, l>> \in job'[g].tries
      BY DEF Pending
    <3>1. PICK f \in due : f.sandbox = e.sandbox
      BY <1>1
    <3>2. f = e
      BY <3>1 DEF Core, PausesOK
    <3>3. QED
      BY <1>1, <2>1, <3>2
  <2>3. QED
    BY <1>1, <1>7, <2>1, <2>2 DEF Others, PauseHolds, Pending
<1>8. \A l : KeptByPause(l) => Safe(l)'
  BY <1>2, <1>7 DEF KeptByPause, Safe
<1>9. \A l : KeptByRow(l) => Safe(l)'
  BY <1>1, <1>2, <1>6, RowStays DEF KeptByRow, Safe
<1>10. \A l \in want' : Safe(l)'
  BY <1>1, <1>2, <1>8, <1>9, LinkStays DEF Safe, Core
<1>11. QED
  BY <1>4, <1>5, <1>10 DEF Core

\* The governor that is done with a sandbox still knows the others' links.
LEMMA DoneSafe ==
  ASSUME IInv, NEW g \in Governors, NEW s \in Sandbox, job[g].pc = "unpause",
         job' = [job EXCEPT ![g] = DoneWith(g, s)]
  PROVE  /\ Others(g) /\ KeepsRows(g) /\ KeepsPauses(g)
         /\ lastId' = lastId => JobOK(g)'
         /\ job'[g].pc = "unpause" => /\ job'[g].todo = job[g].todo \ {s}
                                      /\ job'[g].fails = job[g].fails
<1> USE DEF IInv
<1>1. /\ g \in Proc /\ JobOK(g) /\ job[g].snap = {} /\ job[g].cut = {} /\ job[g].left = {}
  BY GovernorsAssumption, NoCut DEF Core, JobOK, CutPcs
<1>2. Others(g)
  BY DoneType DEF Others
<1>3. CASE job'[g] = Idle
  BY <1>2, <1>3 DEF JobOK, KeepsRows, KeepsPauses, Idle
<1>4. CASE job'[g] # Idle
  <2>1. /\ job'[g].pc = "unpause" /\ job'[g].cut = {} /\ job'[g].left = {}
        /\ job'[g].listed = {} /\ job'[g].snap = {} /\ job'[g].todo = job[g].todo \ {s}
        /\ job'[g].tries = {t \in job[g].tries : t[2][1] # s}
        /\ job'[g].fails = job[g].fails
    BY <1>1, <1>4, DoneType
  <2>2. RemembersDue(g)
    BY <2>1 DEF RemembersDue, Pending
  <2>3. QED
    BY <1>1, <1>2, <2>1, <2>2 DEF JobOK, KeepsRows, KeepsPauses
<1>5. QED
  BY <1>3, <1>4

\* The governor rewrites a pause only down to the links it failed to re-attach.
LEMMA DueFinishSafe ==
  ASSUME IInv, TypeOK', NEW g \in Governors, NEW s \in Sandbox, DueFinish(g, s)
  PROVE  Core'
<1> USE DEF IInv
<1>0. /\ g \in Proc /\ JobOK(g) /\ job[g] \in Job /\ job[g].pc = "unpause"
      /\ job[g].cut = {} /\ job[g].left = {}
  BY GovernorsAssumption, NoCut DEF Core, DueFinish, CutPcs, TypeOK
<1>1. UNCHANGED <<attached, want, stranded, ks, lastId>>
  BY DEF DueFinish
<1>2. /\ Others(g) /\ JobOK(g)' /\ KeepsRows(g)
      /\ job'[g].pc = "unpause" => /\ job'[g].todo = job[g].todo \ {s}
                                   /\ job'[g].fails = job[g].fails
  BY <1>0, <1>1, DoneSafe DEF DueFinish
<1>3. KeepsPauses(g)
  BY <1>0, DoneSafe DEF DueFinish
<1>4. \A q \in Proc : JobOK(q)'
  BY <1>0, <1>1, <1>2, <1>3, JobsStay DEF TypeOK
<1>5. IdsOK'
  BY <1>1 DEF Core, IdsOK
<1>6. pauses' = {e \in pauses : e.sandbox # s} \union
                {[e EXCEPT !.links = StillFailing(g, s), !.due = FALSE] :
                   e \in {x \in pauses : x.sandbox = s /\ StillFailing(g, s) # {}}}
  BY DEF DueFinish
<1>7. ASSUME NEW e \in pauses'
      PROVE  \/ e \in pauses /\ e.sandbox # s
             \/ /\ e.sandbox = s /\ e.links = StillFailing(g, s) /\ e.due = FALSE
                /\ \E f \in pauses : f.sandbox = s
  BY <1>6 DEF TypeOK, Pause
<1>8. PausesOK'
  <2>1. \A e \in pauses' : \A l \in e.links : l[1] = e.sandbox
    BY <1>7 DEF Core, PausesOK, StillFailing
  <2>2. ASSUME NEW e \in pauses', NEW f \in pauses', e.sandbox = f.sandbox
        PROVE  e = f
    <3>1. CASE e.sandbox # s
      BY <1>7, <2>2, <3>1 DEF Core, PausesOK
    <3>2. CASE e.sandbox = s
      <4>1. /\ e.links = f.links /\ e.due = f.due
        BY <1>7, <2>2, <3>2
      <4>2. e \in Pause /\ f \in Pause
        BY DEF TypeOK
      <4>3. QED
        BY <2>2, <4>1, <4>2 DEF Pause
    <3>3. QED
      BY <3>1, <3>2
  <2>3. QED
    BY <2>1, <2>2 DEF PausesOK
<1>9. ASSUME NEW e \in pauses, NEW l, PauseHolds(e, l)
      PROVE  Safe(l)'
  <2>1. l \in e.links /\ l[1] = e.sandbox /\ l \in Link
    BY <1>9 DEF PauseHolds, Core, PausesOK, TypeOK, Pause
  <2>2. CASE e.sandbox # s
    <3>1. e \in pauses'
      BY <1>6, <2>2
    <3>2. PauseHolds(e, l)' \/ l \in attached'
      BY <1>0, <1>2, <1>3, <1>9, <2>1, PauseStays
    <3>3. QED
      BY <3>1, <3>2 DEF KeptByPause, Safe
  <2>3. CASE e.sandbox = s
    <3>1. <<0, l>> \in Pending(g)
      BY <1>0, <1>9, <2>3 DEF PauseHolds, DueFinish, JobOK
    <3>2. <<0, l>> \notin job[g].tries
      BY <2>1, <2>3 DEF DueFinish
    <3>3. l \in StillFailing(g, s)
      BY <2>1, <2>3, <3>1, <3>2 DEF Pending, StillFailing, Failing
    <3>4. PICK f \in pauses' : f.sandbox = s /\ f.links = StillFailing(g, s)
      <4> DEFINE row == [e EXCEPT !.links = StillFailing(g, s), !.due = FALSE]
      <4>1. row \in pauses'
        BY <1>6, <2>3, <3>3
      <4>2. row.sandbox = s /\ row.links = StillFailing(g, s)
        BY <2>3 DEF TypeOK, Pause
      <4> HIDE DEF row
      <4>3. QED
        BY <4>1, <4>2
    <3>5. \A q \in Proc : job'[q].pc = "unpause" /\ f.sandbox \in job'[q].todo
                            => <<0, l>> \in Pending(q)'
      <4> SUFFICES ASSUME NEW q \in Proc, job'[q].pc = "unpause", s \in job'[q].todo
                   PROVE  <<0, l>> \in Pending(q)'
        BY <3>4
      <4>1. q # g
        BY <1>2 DEF Idle
      <4>2. job'[q] = job[q]
        BY <1>2, <4>1 DEF Others
      <4>3. QED
        BY <1>9, <2>3, <4>2 DEF PauseHolds, Pending
    <3>6. PauseHolds(f, l)'
      BY <3>3, <3>4, <3>5 DEF PauseHolds
    <3>7. QED
      BY <3>4, <3>6 DEF KeptByPause, Safe
  <2>4. QED
    BY <2>2, <2>3
<1>10. \A l : KeptByPause(l) => Safe(l)'
  BY <1>9 DEF KeptByPause
<1>11. \A l : KeptByRow(l) => Safe(l)'
  BY <1>0, <1>1, <1>2, <1>3, RowStays DEF KeptByRow, Safe
<1>12. \A l \in want' : Safe(l)'
  BY <1>0, <1>1, <1>2, <1>10, <1>11, LinkStays DEF Safe, Core
<1>13. QED
  BY <1>4, <1>5, <1>8, <1>12 DEF Core

LEMMA CooldownSafe ==
  ASSUME IInv, TypeOK', NEW c \in pauses, Cooldown(c)
  PROVE  Core'
<1> USE DEF IInv
<1> DEFINE ended == [c EXCEPT !.due = TRUE]
<1>1. /\ UNCHANGED <<attached, want, stranded, ks, lastId, job>>
      /\ pauses' = (pauses \ {c}) \union {ended}
      /\ ended.sandbox = c.sandbox /\ ended.links = c.links
  BY DEF Cooldown, ksVars, TypeOK, Pause
<1> HIDE DEF ended
<1>2. \A p \in Proc : JobOK(p)'
  BY <1>1 DEF JobOK, Core
<1>3. IdsOK' /\ PausesOK'
  BY <1>1 DEF Core, IdsOK, PausesOK
<1>4. ASSUME NEW e \in pauses, NEW l, PauseHolds(e, l)
      PROVE  KeptByPause(l)'
  <2>1. PICK f \in pauses' : f.sandbox = e.sandbox /\ f.links = e.links
    BY <1>1
  <2>2. PauseHolds(f, l)'
    BY <1>1, <1>4, <2>1 DEF PauseHolds, Pending
  <2>3. QED
    BY <2>1, <2>2 DEF KeptByPause
<1>5. \A l : KeptByPause(l) => KeptByPause(l)'
  BY <1>4 DEF KeptByPause
<1>6. \A l : KeptByRow(l) => KeptByRow(l)'
  BY <1>1 DEF KeptByRow, RowHolds, SnapIds, Pending
<1>7. \A l \in want' : Safe(l)'
  BY <1>1, <1>5, <1>6 DEF Core, Safe, Held
<1>8. QED
  BY <1>2, <1>3, <1>7 DEF Core

LEMMA DueClientSafe ==
  ASSUME IInv, TypeOK', NEW g \in Governors, NEW s \in Sandbox,
         DueClient(g, s) \/ DueSkips(g, s)
  PROVE  Core'
<1> USE DEF IInv
<1>1. /\ g \in Proc /\ JobOK(g) /\ job[g] \in Job /\ job[g].pc = "unpause"
      /\ job[g].cut = {} /\ job[g].left = {} /\ job[g].snap = {}
      /\ UNCHANGED <<attached, want, stranded, ks, lastId, pauses>>
  BY GovernorsAssumption, NoCut DEF Core, JobOK, DueClient, DueSkips, CutPcs, TypeOK
<1>2. CASE DueClient(g, s)
  <2>1. /\ Others(g) /\ job'[g].pc = job[g].pc /\ job'[g].cut = {} /\ job'[g].left = {}
        /\ job'[g].snap = {} /\ job'[g].todo = job[g].todo /\ job'[g].listed = {s}
        /\ s \in job[g].todo /\ Pending(g)' = Pending(g)
    BY <1>1, <1>2 DEF DueClient, Others, Pending, TypeOK, Job
  <2>2. JobOK(g)' /\ KeepsRows(g) /\ KeepsPauses(g)
    BY <1>1, <2>1 DEF JobOK, KeepsRows, KeepsPauses, RemembersDue
  <2>3. QED
    BY <1>1, <2>1, <2>2, FreshJob
<1>3. CASE DueSkips(g, s)
  <2>1. Others(g) /\ JobOK(g)' /\ KeepsRows(g) /\ KeepsPauses(g)
    BY <1>1, <1>3, DoneSafe DEF DueSkips
  <2>2. QED
    BY <1>1, <2>1, FreshJob
<1>4. QED
  BY <1>2, <1>3

LEMMA GovernorSafe ==
  ASSUME IInv, TypeOK', SingleGovernor, GovernorStep
  PROVE  Core'
<1>1. ASSUME NEW g \in Governors, PauseGivesUp(g)
      PROVE  Core'
  <2>1. Idle.cut = {} /\ Idle.left = {} /\ Idle.snap = {} /\ Idle.pc = "idle"
    BY DEF Idle
  <2>2. QED
    BY <1>1, <2>1, GovernorsAssumption, StartSafe DEF PauseGivesUp, CutPcs
<1>2. QED
  BY <1>1, PauseJobsSafe, PauseCommitSafe, DueReadSafe, DueClientSafe, DueFinishSafe,
     CooldownSafe
     DEF GovernorStep, RateNext, RateStep

LEMMA CurfewSafe ==
  ASSUME IInv, TypeOK', FreshRowIds, CurfewTask
  PROVE  Core'
<1> USE DEF IInv, curfewVars
<1>0. /\ UNCHANGED pauses /\ Curfews \subseteq Proc
      /\ Idle.cut = {} /\ Idle.left = {} /\ Idle.snap = {} /\ Idle.pc = "idle"
  BY CurfewsAssumption DEF CurfewTask, Idle
<1>1. CASE WindowTurns
  BY <1>0, <1>1, SameCore DEF WindowTurns
<1>2. ASSUME NEW c \in Curfews, CurfewEngages(c)
      PROVE  Core'
  <2> DEFINE j == [Idle EXCEPT !.pc = "engage", !.by = "curfew", !.todo = Sandbox]
  <2>1. j.cut = {} /\ j.left = {} /\ j.snap = {} /\ j.pc = "engage"
    BY DEF Idle
  <2>2. /\ job' = [job EXCEPT ![c] = j] /\ job[c].pc \notin CutPcs
        /\ UNCHANGED <<attached, want, stranded, ks, lastId, pauses>>
    BY <1>0, <1>2 DEF CurfewEngages, EngageStart, CutPcs
  <2> HIDE DEF j
  <2>3. QED
    BY <1>0, <2>1, <2>2, StartSafe
<1>3. ASSUME NEW c \in Curfews, CurfewEngaged(c)
      PROVE  Core'
  BY <1>0, <1>3, CommitRowsSafe DEF CurfewEngaged
<1>4. ASSUME NEW c \in Curfews, CurfewReleases(c)
      PROVE  Core'
  <2> DEFINE j == [Idle EXCEPT !.pc = "release"]
  <2>1. j.cut = {} /\ j.left = {} /\ j.snap = {} /\ j.pc = "release"
    BY DEF Idle
  <2>2. /\ job' = [job EXCEPT ![c] = j] /\ job[c].pc \notin CutPcs
        /\ UNCHANGED <<attached, want, stranded, ks, lastId, pauses>>
    BY <1>0, <1>4 DEF CurfewReleases, Due, CutPcs
  <2> HIDE DEF j
  <2>3. QED
    BY <1>0, <2>1, <2>2, StartSafe
<1>5. ASSUME NEW c \in Curfews, CurfewReads(c)
      PROVE  Core'
  BY <1>0, <1>5, ResumeReadSafe DEF CurfewReads, CutPcs
<1>6. ASSUME NEW c \in Curfews, CurfewReadsNothing(c)
      PROVE  Core'
  BY <1>0, <1>6, StartSafe DEF CurfewReadsNothing, CutPcs
<1>7. ASSUME NEW c \in Curfews, CurfewReleased(c)
      PROVE  Core'
  BY <1>0, <1>7, ResumeCommitSafe DEF CurfewReleased
<1>8. ASSUME NEW c \in Curfews, CurfewNotes(c)
      PROVE  Core'
  BY <1>0, <1>8, SameCore DEF CurfewNotes, ksVars
<1>9. QED
  BY <1>1, <1>2, <1>3, <1>4, <1>5, <1>6, <1>7, <1>8 DEF CurfewTask, CurfewNext, CurfewStep

\* A crash forgets what was cut, and strands it.
LEMMA CrashSafe ==
  ASSUME IInv, TypeOK', Crash
  PROVE  Core'
<1> USE DEF IInv
<1>1. /\ UNCHANGED <<attached, want, ks, lastId, pauses>>
      /\ stranded' = stranded \union Held /\ \A p \in Proc : job'[p] = Idle
  BY DEF Crash, KSCrash, Held
<1>2. \A p \in Proc : JobOK(p)'
  BY <1>1 DEF JobOK, Idle
<1>3. IdsOK' /\ PausesOK'
  BY <1>1 DEF Core, IdsOK, PausesOK
<1>4. \A l : (KeptByRow(l) => KeptByRow(l)') /\ (KeptByPause(l) => KeptByPause(l)')
  <2>1. \A p \in Proc : SnapIds(p)' = {} /\ job'[p].pc # "unpause"
    BY <1>1 DEF SnapIds, Idle
  <2>2. \A l : KeptByRow(l) => KeptByRow(l)'
    BY <1>1, <2>1 DEF KeptByRow, RowHolds
  <2>3. \A l : KeptByPause(l) => KeptByPause(l)'
    BY <1>1, <2>1 DEF KeptByPause, PauseHolds
  <2>4. QED
    BY <2>2, <2>3
<1>5. \A l \in want' : Safe(l)'
  <2> SUFFICES ASSUME NEW l \in want
               PROVE  Safe(l)'
    BY <1>1
  <2>1. Safe(l)
    BY DEF Core
  <2>2. l \in attached' \/ l \in stranded' \/ KeptByRow(l)' \/ KeptByPause(l)'
    BY <1>1, <1>4, <2>1 DEF Safe
  <2>3. QED
    BY <2>2 DEF Safe
<1>6. QED
  BY <1>2, <1>3, <1>5 DEF Core

(***************************************************************************)
(* For any sandboxes, providers, operators and tasks, with one governor    *)
(* and row ids that are not handed out again: no interleaving of the       *)
(* enforcement paths loses a provider that no crash and no lost reply      *)
(* stranded.                                                               *)
(***************************************************************************)
THEOREM ProvidersKept ==
  ASSUME FreshRowIds, SingleGovernor
  PROVE  Spec => []NoProviderLost
<1>1. Init => IInv
  <2> SUFFICES ASSUME Init
               PROVE  Core
    BY TypeInit DEF IInv
  <2>1. \A p \in Proc : JobOK(p)
    BY DEF Init, KSInit, JobOK, Idle
  <2>2. QED
    BY <2>1 DEF Init, KSInit, RateInit, Core, IdsOK, PausesOK, Safe
<1>2. IInv /\ [Next]_vars => IInv'
  <2> SUFFICES ASSUME IInv, [Next]_vars
               PROVE  Core'
    BY TypeStep DEF IInv
  <2>1. TypeOK'
    BY TypeStep DEF IInv
  <2>2. CASE UNCHANGED vars
    BY <2>2, SameCore DEF vars, IInv
  <2>3. QED
    BY <2>1, <2>2, OperatorSafe, RpcSafe, BudgetSafe, GovernorSafe, CurfewSafe, CrashSafe
       DEF Next
<1>3. IInv => NoProviderLost
  <2>1. \A l : (KeptByRow(l) => l \in Recorded) /\ (KeptByPause(l) => l \in Paused)
    BY DEF KeptByRow, KeptByPause, RowHolds, PauseHolds, Recorded, Paused
  <2>2. QED
    BY <2>1 DEF IInv, Core, Safe, NoProviderLost
<1>4. QED
  BY <1>1, <1>2, <1>3, PTL DEF Spec

-----------------------------------------------------------------------------
(***************************************************************************)
(* The switch alone, for one request at a time and either kind of row ids. *)
(* What a resume has read is what the table has, and a link that it has    *)
(* neither still to try nor among the failures is attached.                *)
(***************************************************************************)
SingleRequest == \A p, q \in Proc : p = q

SwitchTypes ==
  /\ ks \subseteq Row /\ lastId \in Nat /\ want \subseteq Link /\ attached \subseteq Link
  /\ job \in [Proc -> Job]

Engaging(p) == job[p].pc = "engage" =>
  /\ ks = {} /\ job[p].tries = {}
  /\ job[p].cut \intersect attached = {}
  /\ \A l \in job[p].cut \union job[p].left : l[1] \in job[p].listed

Resuming(p) == job[p].pc = "resume" =>
  /\ job[p].left = {} /\ job[p].cut = {} /\ job[p].snap = ks
  /\ job[p].tries \intersect job[p].fails = {}
  /\ \A t \in job[p].tries \union job[p].fails : \E r \in ks : r.id = t[1] /\ t[2] \in r.links
  /\ \A r \in ks : \A l \in r.links : <<r.id, l>> \notin job[p].tries \union job[p].fails => l \in attached

SwitchJobs ==
  \A p \in Proc :
    /\ job[p].pc \in {"idle", "engage", "resume"}
    /\ job[p].pc = "idle" => job[p].left = {} /\ job[p].cut = {} /\ job[p].tries = {}
    /\ Engaging(p) /\ Resuming(p)

RowsDiffer == \A r, q \in ks : r.id = q.id \/ r.links \intersect q.links # {} => r = q

Found == want \subseteq attached \union Recorded \union stranded \union Held

InDoubt ==
  \A r \in ks : \A l \in r.links \intersect attached :
    \/ l \in doubled
    \/ \E p \in Proc : job[p].pc = "resume" /\ <<r.id, l>> \notin job[p].tries \union job[p].fails

SwitchInv == SwitchTypes /\ SwitchJobs /\ RowsDiffer /\ Found /\ InDoubt

\* A job that changes is a record of the same kind.
LEMMA SwitchMoves ==
  ASSUME SwitchTypes, NEW p \in Proc, NEW j \in Job, job' = [job EXCEPT ![p] = j], SingleRequest
  PROVE  /\ job' \in [Proc -> Job] /\ job'[p] = j
         /\ \A q \in Proc : q = p
BY DEF SwitchTypes, SingleRequest

LEMMA SwitchStarts ==
  ASSUME SwitchInv, SingleRequest, NEW p \in Proc, NEW a \in Actor, EngageStart(p, a) \/ (job[p].pc = "idle" /\ ResumeRead(p))
  PROVE  SwitchInv'
<1>0. Held = {}
  BY DEF SwitchInv, SwitchJobs, Held, EngageStart, ResumeRead, SingleRequest
<1>1. CASE EngageStart(p, a)
  <2> DEFINE j == [Idle EXCEPT !.pc = "engage", !.by = a, !.todo = Sandbox]
  <2>1. j \in Job /\ j.pc = "engage" /\ j.tries = {} /\ j.cut = {} /\ j.left = {}
    BY DEF Job, Idle, Pc
  <2>2. job' = [job EXCEPT ![p] = j] /\ ks = {} /\ UNCHANGED <<attached, want, stranded, doubled, ks, lastId>>
    BY <1>1 DEF EngageStart, Engaged
  <2> HIDE DEF j
  <2>3. job' \in [Proc -> Job] /\ job'[p] = j /\ \A q \in Proc : q = p
    BY <2>1, <2>2, SwitchMoves DEF SwitchInv
  <2>4. SwitchJobs' /\ Found'
    BY <1>0, <2>1, <2>2, <2>3 DEF SwitchJobs, Engaging, Resuming, Found, SwitchInv, Recorded, Held
  <2> QED BY <2>2, <2>3, <2>4 DEF SwitchInv, SwitchTypes, RowsDiffer, InDoubt
<1>2. CASE job[p].pc = "idle" /\ ResumeRead(p)
  <2> DEFINE T == {t \in {r.id : r \in ks} \X Link : \E r \in ks : r.id = t[1] /\ t[2] \in r.links}
             j == [Idle EXCEPT !.pc = "resume", !.snap = ks, !.tries = T]
  <2>0. ks \subseteq Row /\ T \subseteq Nat \X Link
    BY DEF SwitchInv, SwitchTypes, Row
  <2>1. /\ j \in Job /\ j.pc = "resume" /\ j.cut = {} /\ j.left = {} /\ j.fails = {} /\ j.snap = ks
        /\ j.tries = T
    BY <2>0 DEF Job, Idle, Pc, Actor, Try
  <2>2. job' = [job EXCEPT ![p] = j] /\ UNCHANGED <<attached, want, stranded, doubled, ks, lastId>>
    BY <1>2 DEF ResumeRead
  <2>3. \A r \in ks : \A l \in r.links : <<r.id, l>> \in T
    BY <2>0 DEF Row
  <2>4. \A t \in T : \E r \in ks : r.id = t[1] /\ t[2] \in r.links
    OBVIOUS
  <2> HIDE DEF j, T
  <2>5. job' \in [Proc -> Job] /\ job'[p] = j /\ \A q \in Proc : q = p
    BY <2>1, <2>2, SwitchMoves DEF SwitchInv
  <2>6. SwitchJobs' /\ Found'
    BY <1>0, <2>1, <2>2, <2>3, <2>4, <2>5 DEF SwitchJobs, Engaging, Resuming, Found, SwitchInv, Recorded, Held
  <2>7. InDoubt'
    BY <1>2, <2>2 DEF InDoubt, SwitchInv, SwitchJobs, SingleRequest
  <2> QED BY <2>2, <2>5, <2>6, <2>7 DEF SwitchInv, SwitchTypes, RowsDiffer
<1> QED BY <1>1, <1>2

\* A step of an engage: what is no longer attached is cut, or its reply was lost.
LEMMA SwitchCut ==
  ASSUME SwitchInv, SingleRequest, NEW p \in Proc, NEW j \in Job, job' = [job EXCEPT ![p] = j],
         job[p].pc = "engage", j.pc = "engage", j.tries = {},
         UNCHANGED <<ks, lastId, want, doubled>>, attached' \subseteq attached, stranded \subseteq stranded',
         attached \subseteq attached' \union stranded' \union j.cut,
         job[p].cut \subseteq j.cut, j.cut \intersect attached' = {},
         \A l \in j.cut \union j.left : l[1] \in j.listed
  PROVE  SwitchInv'
<1>1. job' \in [Proc -> Job] /\ job'[p] = j /\ \A q \in Proc : q = p
  BY SwitchMoves DEF SwitchInv
<1>2. SwitchJobs'
  BY <1>1 DEF SwitchJobs, Engaging, Resuming, SwitchInv
<1>3. Held = job[p].cut /\ Held' = j.cut
  BY <1>1 DEF Held
<1>4. Found'
  BY <1>3 DEF Found, SwitchInv, Recorded
<1>5. ks' = {}
  BY DEF SwitchInv, SwitchJobs, Engaging
<1> QED BY <1>1, <1>2, <1>4, <1>5 DEF SwitchInv, SwitchTypes, RowsDiffer, InDoubt

LEMMA SwitchCuts ==
  ASSUME SwitchInv, SingleRequest, NEW p \in Proc,
         (\E s \in Sandbox : EngageList(p, s) \/ EngageSkip(p, s))
           \/ (\E l \in job[p].left : DetachOk(p, l) \/ DetachRefused(p, l) \/ DetachLost(p, l))
  PROVE  SwitchInv'
<1>0. /\ job[p] \in Job /\ attached \subseteq Link
      /\ job[p].left # {} => job[p].pc = "engage"
  BY DEF SwitchInv, SwitchTypes, SwitchJobs, Resuming
<1>e. job[p].pc = "engage"
  BY <1>0 DEF EngageList, EngageSkip
<1>f. /\ job[p].tries = {} /\ job[p].cut \intersect attached = {}
      /\ \A l \in job[p].cut \union job[p].left : l[1] \in job[p].listed
  BY <1>e DEF SwitchInv, SwitchJobs, Engaging
<1>1. ASSUME NEW s \in Sandbox, EngageList(p, s) PROVE SwitchInv'
  <2> DEFINE j == [job[p] EXCEPT !.todo = @ \ {s}, !.listed = @ \union {s}, !.left = LinksOf(s)]
  <2>1. /\ j \in Job /\ j.pc = "engage" /\ j.tries = {} /\ j.cut = job[p].cut
        /\ \A l \in j.cut \union j.left : l[1] \in j.listed
    BY <1>0, <1>e, <1>f DEF Job, LinksOf
  <2>2. job' = [job EXCEPT ![p] = j] /\ UNCHANGED <<attached, want, stranded, doubled, ks, lastId>>
    BY <1>1 DEF EngageList, SwitchInv, SwitchTypes
  <2> HIDE DEF j
  <2> QED BY <1>e, <1>f, <2>1, <2>2, SwitchCut
<1>2. ASSUME NEW s \in Sandbox, EngageSkip(p, s) PROVE SwitchInv'
  <2> DEFINE j == [job[p] EXCEPT !.todo = @ \ {s}]
  <2>1. /\ j \in Job /\ j.pc = "engage" /\ j.tries = {} /\ j.cut = job[p].cut
        /\ \A l \in j.cut \union j.left : l[1] \in j.listed
    BY <1>0, <1>e, <1>f DEF Job
  <2>2. job' = [job EXCEPT ![p] = j] /\ UNCHANGED <<attached, want, stranded, doubled, ks, lastId>>
    BY <1>2 DEF EngageSkip, SwitchInv, SwitchTypes
  <2> HIDE DEF j
  <2> QED BY <1>e, <1>f, <2>1, <2>2, SwitchCut
<1>3. ASSUME NEW l \in job[p].left, DetachOk(p, l) PROVE SwitchInv'
  <2> DEFINE j == [job[p] EXCEPT !.left = @ \ {l}, !.cut = @ \union {l}]
  <2>1. /\ j \in Job /\ j.pc = "engage" /\ j.tries = {} /\ j.cut = job[p].cut \union {l}
        /\ \A x \in j.cut \union j.left : x[1] \in j.listed
    BY <1>0, <1>e, <1>f DEF Job
  <2>2. /\ job' = [job EXCEPT ![p] = j] /\ UNCHANGED <<want, stranded, doubled, ks, lastId>>
        /\ attached' = attached \ {l}
    BY <1>3 DEF DetachOk, SwitchInv, SwitchTypes
  <2> HIDE DEF j
  <2>3. j.cut \intersect attached' = {} /\ attached \subseteq attached' \union stranded' \union j.cut
    BY <1>f, <2>1, <2>2
  <2> QED BY <1>e, <2>1, <2>2, <2>3, SwitchCut
<1>4. ASSUME NEW l \in job[p].left, DetachRefused(p, l) \/ DetachLost(p, l) PROVE SwitchInv'
  <2> DEFINE j == [job[p] EXCEPT !.left = @ \ {l}]
  <2>1. /\ j \in Job /\ j.pc = "engage" /\ j.tries = {} /\ j.cut = job[p].cut
        /\ \A x \in j.cut \union j.left : x[1] \in j.listed
    BY <1>0, <1>e, <1>f DEF Job
  <2>2. /\ job' = [job EXCEPT ![p] = j] /\ UNCHANGED <<want, doubled, ks, lastId>>
        /\ \/ UNCHANGED <<attached, stranded>>
           \/ attached' = attached \ {l} /\ stranded' = stranded \union {l}
    BY <1>4 DEF DetachRefused, DetachLost, SwitchInv, SwitchTypes
  <2> HIDE DEF j
  <2>3. /\ j.cut \intersect attached' = {} /\ attached \subseteq attached' \union stranded' \union j.cut
        /\ attached' \subseteq attached /\ stranded \subseteq stranded'
    BY <1>f, <2>1, <2>2
  <2> QED BY <1>e, <2>1, <2>2, <2>3, SwitchCut
<1> QED BY <1>1, <1>2, <1>3, <1>4

LEMMA SwitchAttaches ==
  ASSUME SwitchInv, SingleRequest, NEW p \in Proc, NEW t \in Ready(p), AttachOk(p, t) \/ AttachRefused(p, t) \/ AttachLost(p, t)
  PROVE  SwitchInv'
<1>0. /\ t \in job[p].tries /\ job[p].pc = "resume" /\ job[p] \in Job /\ job \in [Proc -> Job]
      /\ \A q \in Proc : q = p
  BY DEF Ready, SwitchInv, SwitchTypes, SwitchJobs, Engaging, SingleRequest
<1>f. /\ job[p].left = {} /\ job[p].cut = {} /\ job[p].snap = ks
      /\ job[p].tries \intersect job[p].fails = {}
      /\ \A u \in job[p].tries \union job[p].fails : \E r \in ks : r.id = u[1] /\ u[2] \in r.links
      /\ \A r \in ks : \A l \in r.links : <<r.id, l>> \notin job[p].tries \union job[p].fails => l \in attached
  BY <1>0 DEF SwitchInv, SwitchJobs, Resuming
<1>t. t \in Nat \X Link
  BY <1>0 DEF Job, Try
<1>1. PICK f \in {{}, {t}} :
        /\ job' = [job EXCEPT ![p] = [job[p] EXCEPT !.tries = @ \ {t}, !.fails = @ \union f]]
        /\ UNCHANGED <<want, stranded, ks, lastId>>
        /\ \/ f = {} /\ attached' = attached \union {t[2]} /\ doubled' = doubled
           \/ f = {t} /\ UNCHANGED <<attached, doubled>>
           \/ f = {t} /\ attached' = attached \union {t[2]} /\ doubled' = doubled \union {t[2]}
  <2>1. CASE AttachOk(p, t)
    <3>1. [job EXCEPT ![p].tries = @ \ {t}] = [job EXCEPT ![p] = [job[p] EXCEPT !.tries = @ \ {t}, !.fails = @ \union {}]]
      BY <1>0 DEF Job
    <3> QED BY <2>1, <3>1 DEF AttachOk
  <2>2. CASE AttachRefused(p, t) \/ AttachLost(p, t)
    <3>1. job' = [job EXCEPT ![p] = [job[p] EXCEPT !.tries = @ \ {t}, !.fails = @ \union {t}]]
      BY <1>0, <2>2 DEF AttachRefused, AttachLost
    <3> QED BY <2>2, <3>1 DEF AttachRefused, AttachLost
  <2> QED BY <2>1, <2>2
<1> DEFINE j == [job[p] EXCEPT !.tries = @ \ {t}, !.fails = @ \union f]
<1>2. /\ j \in Job /\ j.pc = "resume" /\ j.left = {} /\ j.cut = {} /\ j.snap = ks
      /\ j.tries = job[p].tries \ {t} /\ j.fails = job[p].fails \union f
  BY <1>0, <1>f DEF Job
<1> HIDE DEF j
<1>3. job' = [job EXCEPT ![p] = j]
  BY <1>1 DEF j
<1>4. job' \in [Proc -> Job] /\ job'[p] = j
  BY <1>2, <1>3, SwitchMoves DEF SwitchInv
<1>5. attached \subseteq attached' /\ doubled \subseteq doubled' /\ attached' \subseteq attached \union {t[2]} /\ ks' = ks
  BY <1>1
<1>6. \A r \in ks : \A l \in r.links :
        <<r.id, l>> \notin j.tries \union j.fails =>
          <<r.id, l>> \notin job[p].tries \union job[p].fails \/ l \in attached'
  BY <1>1, <1>2
<1>7. SwitchJobs'
  <2>1. /\ j.tries \intersect j.fails = {}
        /\ \A u \in j.tries \union j.fails : \E r \in ks : r.id = u[1] /\ u[2] \in r.links
    BY <1>0, <1>f, <1>1, <1>2
  <2>2. \A r \in ks : \A l \in r.links : <<r.id, l>> \notin j.tries \union j.fails => l \in attached'
    BY <1>5, <1>6, <1>f
  <2> QED BY <1>0, <1>2, <1>4, <1>5, <2>1, <2>2 DEF SwitchJobs, Engaging, Resuming
<1>8. Found'
  BY <1>0, <1>f, <1>1, <1>2, <1>4, <1>5 DEF SwitchInv, Found, Held, Recorded
<1>9. InDoubt'
  <2> SUFFICES ASSUME NEW r \in ks, NEW l \in r.links, l \in attached'
               PROVE  l \in doubled' \/ <<r.id, l>> \notin j.tries \union j.fails
    BY <1>2, <1>4, <1>5 DEF InDoubt
  <2>1. PICK q \in ks : q.id = t[1] /\ t[2] \in q.links
    BY <1>0, <1>f
  <2>2. CASE l = t[2]
    <3>1. r = q
      BY <2>1, <2>2 DEF SwitchInv, RowsDiffer
    <3>2. <<r.id, l>> = t
      BY <1>t, <2>1, <2>2, <3>1
    <3>3. CASE f = {}
      BY <1>0, <1>2, <1>f, <3>2, <3>3
    <3>4. CASE f = {t} /\ UNCHANGED <<attached, doubled>>
      BY <1>0, <2>2, <3>2, <3>4, <1>5, <1>2 DEF SwitchInv, InDoubt
    <3> QED BY <1>1, <2>2, <3>3, <3>4
  <2>3. CASE l # t[2]
    <3>1. l \in attached /\ <<r.id, l>> # t
      BY <1>5, <2>3, <1>t
    <3>2. l \in doubled \/ <<r.id, l>> \notin job[p].tries \union job[p].fails
      BY <1>0, <3>1 DEF SwitchInv, InDoubt
    <3> QED BY <1>1, <1>2, <1>5, <3>1, <3>2
  <2> QED BY <2>2, <2>3
<1> QED BY <1>1, <1>4, <1>5, <1>7, <1>8, <1>9, <1>t DEF SwitchInv, SwitchTypes, RowsDiffer, Link

LEMMA SwitchRows ==
  ASSUME SwitchInv, SingleRequest, NEW p \in Proc, CommitRows(p)
  PROVE  SwitchInv'
<1>0. /\ job[p].pc = "engage" /\ ks = {} /\ job[p].cut \intersect attached = {} /\ job[p] \in Job
      /\ \A l \in job[p].cut : l[1] \in job[p].listed
      /\ \A q \in Proc : q = p
  BY DEF CommitRows, SwitchInv, SwitchTypes, SwitchJobs, Engaging, SingleRequest
<1> DEFINE n == Cardinality(job[p].listed)
<1>1. n \in Nat /\ IdBase \in Nat
  <2>1. n \in Nat
    BY <1>0, SandboxAssumption, FS_Subset, FS_CardinalityType DEF Job
  <2> QED BY <1>0, <2>1 DEF IdBase, SwitchInv, SwitchTypes
<1>2. PICK id \in Bijection(job[p].listed, IdBase + 1 .. IdBase + n) :
        ks' = ks \union {[id |-> id[s], sandbox |-> s, links |-> {l \in job[p].cut : l[1] = s},
                          by |-> job[p].by] : s \in job[p].listed}
  BY DEF CommitRows
<1>3. /\ \A s \in job[p].listed : id[s] \in Nat
      /\ \A s, u \in job[p].listed : id[s] = id[u] => s = u
  BY <1>1 DEF Bijection, Injection, IsInjective
<1>4. ks' = {[id |-> id[s], sandbox |-> s, links |-> {l \in job[p].cut : l[1] = s},
              by |-> job[p].by] : s \in job[p].listed}
  BY <1>0, <1>2
<1>5. ks' \subseteq Row /\ lastId' \in Nat
  <2>1. \A s \in job[p].listed : [id |-> id[s], sandbox |-> s, links |-> {l \in job[p].cut : l[1] = s},
                                  by |-> job[p].by] \in Row
    BY <1>0, <1>3 DEF Row, Job
  <2>2. lastId' = IdBase + n
    BY DEF CommitRows
  <2> QED BY <1>1, <1>4, <2>1, <2>2
<1>r. \A r \in ks' : \E s \in job[p].listed :
        r = [id |-> id[s], sandbox |-> s, links |-> {l \in job[p].cut : l[1] = s}, by |-> job[p].by]
  BY <1>4
<1>6. RowsDiffer'
  <2> SUFFICES ASSUME NEW r \in ks', NEW q \in ks', r.id = q.id \/ r.links \intersect q.links # {}
               PROVE  r = q
    BY DEF RowsDiffer
  <2>1. PICK s \in job[p].listed :
          r = [id |-> id[s], sandbox |-> s, links |-> {l \in job[p].cut : l[1] = s}, by |-> job[p].by]
    BY <1>r
  <2>2. PICK u \in job[p].listed :
          q = [id |-> id[u], sandbox |-> u, links |-> {l \in job[p].cut : l[1] = u}, by |-> job[p].by]
    BY <1>r
  <2>3. id[s] = id[u] \/ s = u
    BY <2>1, <2>2
  <2>4. s = u
    BY <1>3, <2>3
  <2> QED BY <2>1, <2>2, <2>4
<1>7. /\ Idle \in Job /\ Idle.pc = "idle" /\ Idle.left = {} /\ Idle.cut = {} /\ Idle.tries = {}
      /\ job' = [job EXCEPT ![p] = Idle] /\ UNCHANGED <<attached, want, stranded, doubled>>
  BY DEF CommitRows, Idle, Job, Pc, Actor
<1>8. job' \in [Proc -> Job] /\ job'[p] = Idle
  BY <1>7, SwitchMoves DEF SwitchInv
<1>9. SwitchJobs'
  BY <1>0, <1>7, <1>8 DEF SwitchJobs, Engaging, Resuming
<1>10. Recorded' = job[p].cut
  <2>1. \A l \in Recorded' : l \in job[p].cut
    BY <1>r DEF Recorded
  <2>2. ASSUME NEW l \in job[p].cut PROVE l \in Recorded'
    <3>1. [id |-> id[l[1]], sandbox |-> l[1], links |-> {x \in job[p].cut : x[1] = l[1]}, by |-> job[p].by] \in ks'
      BY <1>0, <1>4
    <3> QED BY <3>1 DEF Recorded
  <2> QED BY <2>1, <2>2
<1>11. Found'
  BY <1>0, <1>7, <1>10 DEF SwitchInv, Found, Held, Recorded
<1>12. InDoubt'
  BY <1>0, <1>7, <1>10 DEF InDoubt, Recorded
<1> QED BY <1>5, <1>6, <1>7, <1>8, <1>9, <1>11, <1>12 DEF SwitchInv, SwitchTypes

LEMMA SwitchResumes ==
  ASSUME SwitchInv, SingleRequest, NEW p \in Proc, ResumeCommit(p)
  PROVE  SwitchInv'
<1>0. /\ job[p].pc = "resume" /\ job[p].tries = {} /\ job[p].snap = ks /\ job[p].cut = {} /\ job[p] \in Job
      /\ \A r \in ks : \A l \in r.links : <<r.id, l>> \notin job[p].fails => l \in attached
      /\ \A t \in job[p].fails : \E r \in ks : r.id = t[1] /\ t[2] \in r.links
      /\ \A q \in Proc : q = p
  BY DEF ResumeCommit, SwitchInv, SwitchTypes, SwitchJobs, Resuming, SingleRequest
<1>1. ~ Stale(p)
  BY <1>0 DEF Stale
<1>2. \A k \in ks : Failing(p, k.id) # {} => Settled(p, k) = [k EXCEPT !.links = Failing(p, k.id)]
  <2> SUFFICES ASSUME NEW k \in ks, Failing(p, k.id) # {}
               PROVE  Settled(p, k) = [k EXCEPT !.links = Failing(p, k.id)]
    OBVIOUS
  <2>1. k \in Row
    BY DEF SwitchInv, SwitchTypes
  <2>2. (\E r \in job[p].snap : r.id = k.id /\ Updates(p, r)) <=> Updates(p, k)
    BY <1>0 DEF SwitchInv, RowsDiffer
  <2>3. Updates(p, k) \/ Failing(p, k.id) = k.links
    BY DEF Updates
  <2> QED BY <2>1, <2>2, <2>3 DEF Settled, Row
<1>3. ks' = {[k EXCEPT !.links = Failing(p, k.id)] : k \in {x \in ks : Failing(p, x.id) # {}}}
  <2>1. \A x \in ks : x.id \in SnapIds(p)
    BY <1>0 DEF SnapIds
  <2>2. ks' = {Settled(p, k) : k \in {x \in ks : Failing(p, x.id) # {}}}
    BY <1>1, <2>1 DEF ResumeCommit, RowsAfterResume
  <2> QED BY <1>2, <2>2
<1>4. \A k \in ks : Failing(p, k.id) \subseteq k.links
  BY <1>0 DEF Failing, SwitchInv, RowsDiffer
<1>5. \A x \in ks' : \E k \in ks : /\ x \in Row /\ x.id = k.id /\ x.links = Failing(p, k.id)
                                   /\ x = [k EXCEPT !.links = Failing(p, k.id)]
  <2> SUFFICES ASSUME NEW k \in ks
               PROVE  LET x == [k EXCEPT !.links = Failing(p, k.id)]
                      IN  x \in Row /\ x.id = k.id /\ x.links = Failing(p, k.id)
    BY <1>3
  <2> QED BY DEF SwitchInv, SwitchTypes, Row, Failing
<1>6. RowsDiffer'
  <2> SUFFICES ASSUME NEW x \in ks', NEW y \in ks', x.id = y.id \/ x.links \intersect y.links # {}
               PROVE  x = y
    BY DEF RowsDiffer
  <2>1. PICK k \in ks : x.id = k.id /\ x.links = Failing(p, k.id) /\ x = [k EXCEPT !.links = Failing(p, k.id)]
    BY <1>5
  <2>2. PICK m \in ks : y.id = m.id /\ y.links = Failing(p, m.id) /\ y = [m EXCEPT !.links = Failing(p, m.id)]
    BY <1>5
  <2>3. k.id = m.id \/ k.links \intersect m.links # {}
    BY <1>4, <2>1, <2>2
  <2>4. k = m
    BY <2>3 DEF SwitchInv, RowsDiffer
  <2> QED BY <2>1, <2>2, <2>4
<1>7. /\ Idle \in Job /\ Idle.pc = "idle" /\ Idle.left = {} /\ Idle.cut = {} /\ Idle.tries = {}
      /\ job' = [job EXCEPT ![p] = Idle] /\ UNCHANGED <<attached, want, stranded, doubled, lastId>>
  BY DEF ResumeCommit, Idle, Job, Pc, Actor
<1>8. job' \in [Proc -> Job] /\ job'[p] = Idle
  BY <1>7, SwitchMoves DEF SwitchInv
<1>9. SwitchJobs'
  BY <1>0, <1>7, <1>8 DEF SwitchJobs, Engaging, Resuming
<1>10. Recorded \subseteq Recorded' \union attached
  <2> SUFFICES ASSUME NEW k \in ks, NEW l \in k.links, l \notin attached PROVE l \in Recorded'
    BY DEF Recorded
  <2>1. l \in Failing(p, k.id)
    BY <1>0 DEF Failing, SwitchInv, SwitchTypes, Row
  <2>2. [k EXCEPT !.links = Failing(p, k.id)] \in ks' /\ k \in Row
    BY <1>3, <2>1 DEF SwitchInv, SwitchTypes
  <2> QED BY <2>1, <2>2 DEF Recorded, Row
<1>11. Found'
  <2>1. Held = {}
    BY <1>0 DEF Held
  <2> QED BY <1>7, <1>10, <2>1 DEF SwitchInv, Found
<1>12. InDoubt'
  <2> SUFFICES ASSUME NEW x \in ks', NEW l \in x.links \intersect attached PROVE l \in doubled
    BY <1>7 DEF InDoubt
  <2>1. PICK k \in ks : x.id = k.id /\ x.links = Failing(p, k.id)
    BY <1>5
  <2>2. l \in k.links /\ <<k.id, l>> \in job[p].fails
    BY <1>4, <2>1 DEF Failing
  <2> QED BY <1>0, <2>2 DEF SwitchInv, InDoubt
<1> QED BY <1>5, <1>6, <1>7, <1>8, <1>9, <1>11, <1>12 DEF SwitchInv, SwitchTypes

LEMMA SwitchCrash == ASSUME SwitchInv, SingleRequest, KSCrash PROVE SwitchInv'
<1>1. /\ job' = [p \in Proc |-> Idle] /\ UNCHANGED <<attached, want, ks, lastId>>
      /\ stranded' = stranded \union Held
      /\ doubled' = doubled \union UNION {r.links : r \in UNION {job[p].snap : p \in Proc}}
  BY DEF KSCrash, Held
<1>2. Idle \in Job /\ Idle.pc = "idle" /\ Idle.left = {} /\ Idle.cut = {} /\ Idle.tries = {}
  BY DEF Idle, Job, Pc, Actor
<1>3. SwitchJobs' /\ job' \in [Proc -> Job]
  BY <1>1, <1>2 DEF SwitchJobs, Engaging, Resuming
<1>4. Found'
  BY <1>1 DEF SwitchInv, Found, Recorded
<1>5. InDoubt'
  <2> SUFFICES ASSUME NEW r \in ks, NEW l \in r.links \intersect attached PROVE l \in doubled'
    BY <1>1 DEF InDoubt
  <2>1. CASE l \in doubled
    BY <1>1, <2>1
  <2>2. CASE \E p \in Proc : job[p].pc = "resume"
    BY <1>1, <2>2 DEF SwitchInv, SwitchJobs, Resuming
  <2> QED BY <2>1, <2>2 DEF SwitchInv, InDoubt
<1> QED BY <1>1, <1>3, <1>4, <1>5 DEF SwitchInv, SwitchTypes, RowsDiffer

(***************************************************************************)
(* Between requests a link that was asked for is attached or recorded and  *)
(* not both, but for those a lost reply or a crash put in doubt: for any   *)
(* sandboxes, providers and faults, one request at a time.                 *)
(***************************************************************************)
THEOREM SwitchPartitions ==
  ASSUME SingleRequest
  PROVE  KSSpec => []Partition
<1>1. KSInit => SwitchInv
  <2> SUFFICES ASSUME KSInit PROVE SwitchInv
    OBVIOUS
  <2>1. Idle \in Job /\ Idle.pc = "idle" /\ Idle.left = {} /\ Idle.cut = {} /\ Idle.tries = {}
    BY DEF Idle, Job, Pc, Actor
  <2> QED BY <2>1 DEF KSInit, SwitchInv, SwitchTypes, SwitchJobs, Engaging, Resuming, RowsDiffer, Found, InDoubt
<1>2. SwitchInv /\ [KSNext]_ksVars => SwitchInv'
  <2> SUFFICES ASSUME SwitchInv, [KSNext]_ksVars PROVE SwitchInv'
    OBVIOUS
  <2>1. CASE UNCHANGED ksVars
    BY <2>1 DEF ksVars, SwitchInv, SwitchTypes, SwitchJobs, Engaging, Resuming, RowsDiffer, Found, InDoubt,
                Recorded, Held
  <2>2. ASSUME NEW p \in Operators, EngageStart(p, "operator") \/ (job[p].pc = "idle" /\ ResumeRead(p))
        PROVE  SwitchInv'
    BY <2>2, SwitchStarts, ProcAssumption DEF Actor
  <2>3. ASSUME NEW p \in Proc, RpcStep(p) PROVE SwitchInv'
    BY <2>3, SwitchCuts, SwitchAttaches DEF RpcStep
  <2> QED BY <2>1, <2>2, <2>3, SwitchRows, SwitchResumes, SwitchCrash DEF KSNext
<1>3. SwitchInv => Partition
  <2> SUFFICES ASSUME SwitchInv, Quiet
               PROVE  /\ want \subseteq attached \union Recorded \union stranded
                      /\ attached \intersect Recorded \subseteq doubled
    BY DEF Partition
  <2>1. Held = {}
    BY DEF SwitchInv, SwitchJobs, Quiet, Held
  <2>2. want \subseteq attached \union Recorded \union stranded
    BY <2>1 DEF SwitchInv, Found
  <2>3. \A r \in ks : r.links \intersect attached \subseteq doubled
    BY DEF SwitchInv, InDoubt, Quiet
  <2> QED BY <2>2, <2>3 DEF Recorded
<1> QED BY <1>1, <1>2, <1>3, PTL DEF KSSpec

=============================================================================
