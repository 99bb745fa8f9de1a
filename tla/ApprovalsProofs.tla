--------------------------- MODULE ApprovalsProofs ---------------------------
(***************************************************************************)
(* Theorems about Approvals, for any requests, actors, chunks, documents   *)
(* and workflows, and without the bounds of the runs: which votes are      *)
(* counted together, and what is still true when a document is written.    *)
(***************************************************************************)
EXTENDS Approvals, TLAPS

Voting == {"vote", "insert", "tally", "clear"}

\* What a request is about fits its kind.
Fits(q) ==
  /\ q.kind \in Direct \union PresetEdits \union Applies => q.key \in Docs
  /\ q.kind \in Edits \ PresetEdits => q.key \in Keys
  /\ q.kind \in Votes => q.key \in Chunks \union Docs
  /\ q.kind \in Votes \union Applies => q.actor \in Actors
  /\ q.pc \in {"propose", "drop"} => q.kind \in Applies
  /\ q.pc \in Voting => q.kind \in Votes \union Applies

TypeInv ==
  /\ TypeOK
  /\ epoch <= events
  /\ \A r \in Requests : Fits(req[r])

-----------------------------------------------------------------------------
(* Types. *)

LEMMA GoneFits == Gone \in Request /\ Fits(Gone)
BY DEF Gone, NewRequest, Request, Pc, Fits, Direct, PresetEdits, Applies, Edits, RuleEdits, PathEdits,
       ProcessEdits, Votes, Voting

\* A request that goes on keeps all but its place.
LEMMA GoesTyped ==
  ASSUME NEW q \in Request, NEW pc \in Pc
  PROVE  /\ [q EXCEPT !.pc = pc] \in Request
         /\ [q EXCEPT !.pc = pc].pc = pc
         /\ [q EXCEPT !.pc = pc].kind = q.kind
         /\ [q EXCEPT !.pc = pc].key = q.key
         /\ [q EXCEPT !.pc = pc].actor = q.actor
BY DEF Request

LEMMA GoesFits ==
  ASSUME NEW q \in Request, NEW pc \in Pc, Fits(q),
         pc \in {"propose", "drop"} => q.kind \in Applies,
         pc \in Voting => q.kind \in Votes \union Applies
  PROVE  Fits([q EXCEPT !.pc = pc])
BY GoesTyped DEF Fits

LEMMA FlowRow ==
  ASSUME NEW id \in Nat, NEW f \in Flows
  PROVE  Row(id, f) \in Flow
BY FlowAssumption DEF Row, Flow

LEMMA TypeInit == Init => TypeInv
<1> SUFFICES ASSUME Init PROVE TypeInv
  OBVIOUS
<1> USE DEF Init, PolicyInit
<1>1. req \in [Requests -> Request] /\ \A r \in Requests : Fits(req[r])
  BY DEF NewRequest, Request, Pc, Fits, Direct, PresetEdits, Applies, Edits, RuleEdits, PathEdits,
         ProcessEdits, Votes, Voting
<1>2. flow \in Flow
  <2>1. NoFlow \in Flow
    BY DEF NoFlow, Flow, Roles
  <2> QED BY <2>1, FlowRow
<1>3. ballot \in [Requests -> Ballot]
  BY DEF NoBallot, Ballot, NoFlow, Flow, Roles
<1> QED BY <1>1, <1>2, <1>3, BoundAssumption DEF TypeInv, TypeOK, Rules, Draft

LEMMA NoBallotTyped == NoBallot \in Ballot
BY DEF NoBallot, Ballot, NoFlow, Flow, Roles

\* A request arrives.
LEMMA NewTyped ==
  ASSUME TypeInv, NEW kind \in Kinds, NEW actor \in Makers(kind), NEW key \in Subjects(kind),
         NEW claim \in Claims(kind), NEW q,
         q = [pc |-> FirstStep(kind), kind |-> kind, actor |-> actor, key |-> key, base |-> {},
              claim |-> claim, epoch |-> epoch]
  PROVE  q \in Request /\ Fits(q)
<1>1. actor \in Actors
  BY ActorAssumption DEF Makers
<1>2. key \in Rules \union Docs \union {"nothing"}
  BY DEF Subjects, Rules
<1>3. claim \in SUBSET SUBSET Rules
  BY DEF Claims, TypeInv, TypeOK
<1>4. FirstStep(kind) \in {"write", "read", "flow"}
  BY DEF FirstStep
<1>5. epoch \in Nat
  BY BoundAssumption DEF TypeInv, TypeOK
<1>6. q \in Request
  BY <1>1, <1>2, <1>3, <1>4, <1>5 DEF Request, Pc
<1>7. /\ kind \in Direct \union PresetEdits \union Applies => key \in Docs
      /\ kind \in Edits \ PresetEdits => key \in Keys
      /\ kind \in Votes => key \in Chunks \union Docs
  BY DEF Subjects, Direct, PresetEdits, Applies, Edits, RuleEdits, PathEdits, ProcessEdits, Votes
<1>8. /\ q.pc = FirstStep(kind) /\ q.kind = kind /\ q.key = key /\ q.actor = actor
      /\ q.pc \notin Voting \union {"propose", "drop"}
  BY <1>4 DEF Voting
<1> QED BY <1>1, <1>6, <1>7, <1>8 DEF Fits

\* The document a request writes is one.
LEMMA WrittenTyped ==
  ASSUME TypeInv, NEW r \in Requests, At(r, "write"), req[r].kind \in Direct \union Edits \union Applies
  PROVE  Written(req[r]) \in SUBSET Rules
<1> DEFINE q == req[r]
<1>1. q \in Request /\ Fits(q) /\ policy \in SUBSET Rules /\ q.base \in SUBSET Rules
  BY DEF TypeInv, TypeOK, Request
<1>2. CASE q.kind \in Direct \union PresetEdits \union Applies
  <2>1. Content[q.key] \in SUBSET Rules
    BY <1>1, <1>2, ContentAssumption DEF Fits
  <2> QED BY <1>1, <1>2, <2>1 DEF Written, Merged, PresetAdded, Direct, PresetEdits, Applies
<1>3. CASE q.kind \in Edits \ PresetEdits
  <2>1. q.key \in Rules
    BY <1>1, <1>3 DEF Fits, Rules
  <2> QED BY <1>1, <1>3, <2>1 DEF Written, Added, Removed, Edits, RuleEdits, PathEdits, ProcessEdits, PresetEdits
<1> QED BY <1>2, <1>3

LEMMA TypePolicy == ASSUME TypeInv, PolicyNext, UNCHANGED <<draft, flow, votes, proposals>>,
                           ballot' = [r \in Requests |-> IF At(r, "done")' THEN NoBallot ELSE ballot[r]]
                    PROVE  TypeInv'
<1> USE DEF TypeInv, TypeOK
<1>1. ballot' \in [Requests -> Ballot]
  BY NoBallotTyped
<1>2. ASSUME NEW r \in Requests, NEW kind \in Kinds, NEW actor \in Makers(kind), NEW key \in Subjects(kind),
             NEW claim \in Claims(kind), Arrives(r, kind, actor, key, claim)
      PROVE  TypeInv'
  <2> DEFINE q == [pc |-> FirstStep(kind), kind |-> kind, actor |-> actor, key |-> key, base |-> {},
                   claim |-> claim, epoch |-> epoch]
  <2>1. q \in Request /\ Fits(q)
    BY NewTyped
  <2> HIDE DEF q
  <2>2. req' = [req EXCEPT ![r] = Gone] \/ req' = [req EXCEPT ![r] = q]
    BY <1>2 DEF Arrives, Returns, q
  <2>3. req' \in [Requests -> Request] /\ \A x \in Requests : Fits(req'[x])
    BY <2>1, <2>2, GoneFits
  <2> QED BY <1>1, <1>2, <2>3 DEF Arrives
<1>3. ASSUME NEW r \in Requests, ReadPolicy(r) PROVE TypeInv'
  <2> DEFINE pc == IF req[r].kind \in Applies THEN "flow" ELSE "write"
             q  == [req[r] EXCEPT !.base = policy, !.pc = pc]
  <2>1. q \in Request /\ q.kind = req[r].kind /\ q.key = req[r].key /\ q.actor = req[r].actor /\ q.pc \in {"flow", "write"}
    <3>1. pc \in {"flow", "write"} /\ pc \in Pc
      BY DEF Pc
    <3>2. req[r] \in Request /\ policy \in SUBSET Rules
      OBVIOUS
    <3> HIDE DEF pc, TypeInv, TypeOK
    <3>3. /\ q \in Request /\ q.pc = pc /\ q.kind = req[r].kind /\ q.key = req[r].key
          /\ q.actor = req[r].actor
      BY <3>1, <3>2 DEF Request
    <3> QED BY <3>1, <3>3
  <2>2. Fits(q)
    BY <2>1 DEF Fits, Voting
  <2> HIDE DEF q
  <2>3. req' = [req EXCEPT ![r] = Gone] \/ req' = [req EXCEPT ![r] = q]
    BY <1>3 DEF ReadPolicy, Returns, q
  <2>4. req' \in [Requests -> Request] /\ \A x \in Requests : Fits(req'[x])
    BY <2>1, <2>2, <2>3, GoneFits
  <2> QED BY <1>1, <1>3, <2>4 DEF ReadPolicy
<1>4. ASSUME NEW r \in Requests, WritePolicy(r) PROVE TypeInv'
  <2>1. req' \in [Requests -> Request] /\ \A x \in Requests : Fits(req'[x])
    BY <1>4, GoneFits DEF WritePolicy, Returns
  <2>2. policy' \in SUBSET Rules
    BY <1>4, WrittenTyped DEF WritePolicy, Outcome
  <2>3. events' \in 0 .. MaxEvents /\ epoch' <= events'
    BY <1>4, BoundAssumption DEF WritePolicy, Outcome, Event
  <2> QED BY <1>1, <1>4, <2>1, <2>2, <2>3 DEF WritePolicy
<1>5. CASE SetPin
  BY <1>1, <1>5, BoundAssumption DEF SetPin, Event
<1>6. CASE Unpin \/ PinExpires
  BY <1>1, <1>6 DEF Unpin, PinExpires
<1>7. CASE Crash
  <2>1. req' \in [Requests -> Request] /\ \A x \in Requests : Fits(req'[x])
    BY <1>7, GoneFits DEF Crash
  <2> QED BY <1>1, <1>7, <2>1, BoundAssumption DEF Crash, Event
<1> QED BY <1>2, <1>3, <1>4, <1>5, <1>6, <1>7 DEF PolicyNext

LEMMA TypeRequest == ASSUME TypeInv, NEW r \in Requests, RequestStep(r) PROVE TypeInv'
<1> DEFINE Moved(q) == q \in Request /\ Fits(q)
<1> USE DEF TypeInv, TypeOK
<1>q. req[r] \in Request /\ Fits(req[r]) /\ ballot[r] \in Ballot
  OBVIOUS
\* Whatever the step is, the request returns or goes on.
<1>r. ASSUME NEW pc \in Pc, Goes(r, pc),
             pc \in {"propose", "drop"} => req[r].kind \in Applies,
             pc \in Voting => req[r].kind \in Votes \union Applies
      PROVE  req' \in [Requests -> Request] /\ \A x \in Requests : Fits(req'[x])
  <2> DEFINE q == [req[r] EXCEPT !.pc = pc]
  <2>1. q \in Request /\ Fits(q)
    BY <1>q, <1>r, GoesTyped, GoesFits
  <2>2. req' = [req EXCEPT ![r] = q]
    BY <1>r DEF Goes
  <2> HIDE DEF q
  <2> QED BY <2>1, <2>2
<1>g. ASSUME Returns(r)
      PROVE  req' \in [Requests -> Request] /\ \A x \in Requests : Fits(req'[x])
  BY <1>g, GoneFits DEF Returns
<1>1. CASE ReadFlow(r)
  <2>1. \/ Goes(r, "write")
        \/ Goes(r, "vote") /\ req[r].kind \in Votes
        \/ Goes(r, "propose") /\ req[r].kind \in Applies
        \/ Returns(r)
    BY <1>1 DEF ReadFlow
  <2>2. req' \in [Requests -> Request] /\ \A x \in Requests : Fits(req'[x])
    BY <2>1, <1>r, <1>g DEF Pc, Voting
  <2> QED BY <1>1, <2>2 DEF ReadFlow, voteVars
<1>2. CASE Propose(r)
  <2>1. req[r].kind \in Applies /\ req[r].key \in Docs
    BY <1>2, <1>q DEF Propose, At, Fits
  <2>2. req' \in [Requests -> Request] /\ \A x \in Requests : Fits(req'[x])
    BY <1>2, <2>1, <1>r DEF Propose, Pc, Voting
  <2> QED BY <1>2, <2>1, <2>2 DEF Propose
<1>3. CASE VoteRead(r)
  <2>1. req[r].kind \in Votes \union Applies
    BY <1>3, <1>q DEF VoteRead, At, Fits, Voting
  <2>2. req' \in [Requests -> Request] /\ \A x \in Requests : Fits(req'[x])
    BY <1>3, <2>1, <1>r, <1>g DEF VoteRead, Pc, Voting
  <2>3. [flow |-> flow, met |-> {x \in Requests : At(x, "insert")}, tally |-> {}] \in Ballot
    BY DEF Ballot
  <2>4. ballot' \in [Requests -> Ballot]
    BY <1>3, <2>3 DEF VoteRead
  <2> QED BY <1>3, <2>2, <2>4 DEF VoteRead
<1>4. CASE Insert(r)
  <2>1. req[r].kind \in Votes \union Applies /\ req[r].key \in Chunks \union Docs
    BY <1>4, <1>q DEF Insert, At, Fits, Voting
  <2>2. req' \in [Requests -> Request] /\ \A x \in Requests : Fits(req'[x])
    BY <1>4, <2>1, <1>r, <1>g DEF Insert, Leaves, Pc, Voting
  <2>3. Cast(r) \in Vote
    <3>1. req[r].actor \in Actors
      BY <2>1, <1>q DEF Fits
    <3> QED BY <2>1, <3>1, <1>q DEF Cast, Vote, Ballot, Rejects
  <2>4. votes' \subseteq Vote
    BY <1>4, <2>3 DEF Insert
  <2>5. ballot' \in [Requests -> Ballot]
    BY <1>4, NoBallotTyped DEF Insert, Leaves
  <2> QED BY <1>4, <2>2, <2>4, <2>5 DEF Insert
<1>5. CASE Tally(r)
  <2> DEFINE rows == On(req[r].key)
  <2>1. req[r].kind \in Votes \union Applies
    BY <1>5, <1>q DEF Tally, At, Fits, Voting
  <2>2. \/ Returns(r) /\ ballot' = [ballot EXCEPT ![r] = NoBallot]
        \/ /\ Goes(r, "clear") \/ Goes(r, "write")
           /\ ballot' = [ballot EXCEPT ![r].tally = rows]
    BY <1>5 DEF Tally, Leaves
  <2>3. req' \in [Requests -> Request] /\ \A x \in Requests : Fits(req'[x])
    BY <2>1, <2>2, <1>r, <1>g DEF Pc, Voting
  <2>4. ballot' \in [Requests -> Ballot]
    <3>1. [ballot[r] EXCEPT !.tally = rows] \in Ballot
      BY <1>q DEF Ballot, On
    <3> QED BY <2>2, <3>1, NoBallotTyped
  <2> QED BY <1>5, <2>3, <2>4 DEF Tally
<1>6. CASE Clear(r)
  <2>1. req[r].kind \in Votes \union Applies
    BY <1>6, <1>q DEF Clear, At, Fits, Voting
  <2>2. \/ Returns(r) /\ ballot' = [ballot EXCEPT ![r] = NoBallot]
        \/ /\ Goes(r, "write") \/ (Goes(r, "drop") /\ req[r].kind \in Applies)
           /\ ballot' = ballot
    BY <1>6 DEF Clear, Leaves
  <2>3. req' \in [Requests -> Request] /\ \A x \in Requests : Fits(req'[x])
    BY <2>1, <2>2, <1>r, <1>g DEF Pc, Voting
  <2>4. ballot' \in [Requests -> Ballot]
    BY <2>2, NoBallotTyped
  <2> QED BY <1>6, <2>3, <2>4 DEF Clear
<1>7. CASE DropProposal(r)
  <2>1. req' \in [Requests -> Request] /\ \A x \in Requests : Fits(req'[x])
    BY <1>7, <1>r DEF DropProposal, Pc, Voting
  <2> QED BY <1>7, <2>1 DEF DropProposal
<1>8. CASE WriteDraft(r)
  <2>1. req' \in [Requests -> Request] /\ \A x \in Requests : Fits(req'[x])
    BY <1>8, <1>g DEF WriteDraft, Leaves
  <2>2. ballot' \in [Requests -> Ballot]
    BY <1>8, NoBallotTyped DEF WriteDraft, Leaves
  <2>3. /\ draft' \in [Chunks -> Draft] /\ policy' \in SUBSET Rules
        /\ events' \in 0 .. MaxEvents /\ epoch <= events'
    <3>1. Decided(req[r]) \subseteq Rules
      BY DEF Decided, Rules
    <3>2. \/ Decide(Decided(req[r]), IF Rejects(r) THEN "rejected" ELSE "approved")
          \/ UNCHANGED <<draft, policy>>
      BY <1>8 DEF WriteDraft, Outcome
    <3>3. draft' \in [Chunks -> Draft] /\ policy' \in SUBSET Rules
      BY <3>1, <3>2 DEF Decide, Draft
    <3>4. events' \in 0 .. MaxEvents /\ epoch <= events'
      BY <1>8, BoundAssumption DEF WriteDraft, Outcome, Event
    <3> QED BY <3>3, <3>4
  <2> QED BY <1>8, <2>1, <2>2, <2>3 DEF WriteDraft
<1> QED BY <1>1, <1>2, <1>3, <1>4, <1>5, <1>6, <1>7, <1>8 DEF RequestStep

LEMMA TypeDraft ==
  ASSUME TypeInv, ClearDrafts \/ \E c \in Chunks : Undo(c) \/ Analyse(c)
  PROVE  TypeInv'
<1> USE DEF TypeInv, TypeOK, Event
<1>1. CASE ClearDrafts
  BY <1>1, BoundAssumption DEF ClearDrafts, Draft
<1>2. ASSUME NEW c \in Chunks, Undo(c) PROVE TypeInv'
  BY <1>2, BoundAssumption DEF Undo, Draft
<1>3. ASSUME NEW c \in Chunks, Analyse(c) PROVE TypeInv'
  BY <1>3, BoundAssumption DEF Analyse, Draft
<1> QED BY <1>1, <1>2, <1>3

LEMMA TypeFlow ==
  ASSUME TypeInv, DeleteWorkflow \/ \E f \in Flows : SetWorkflow(f)
  PROVE  TypeInv'
<1> USE DEF TypeInv, TypeOK, Event
<1>1. CASE DeleteWorkflow
  <2>1. NoFlow \in Flow
    BY DEF NoFlow, Flow, Roles
  <2> QED BY <1>1, <2>1, BoundAssumption DEF DeleteWorkflow
<1>2. ASSUME NEW f \in Flows, SetWorkflow(f) PROVE TypeInv'
  <2>1. PICK id \in IF flow = NoFlow THEN {1, events + 2} ELSE {flow.id} : flow' = Row(id, f)
    BY <1>2 DEF SetWorkflow
  <2>2. id \in Nat
    BY <2>1, BoundAssumption DEF Flow
  <2>3. flow' \in Flow
    BY <2>1, <2>2, FlowRow
  <2> QED BY <1>2, <2>3, BoundAssumption DEF SetWorkflow
<1> QED BY <1>1, <1>2

LEMMA TypeStep == TypeInv /\ [Next]_vars => TypeInv'
<1> SUFFICES ASSUME TypeInv, [Next]_vars PROVE TypeInv'
  OBVIOUS
<1>1. CASE UNCHANGED vars
  BY <1>1 DEF vars, TypeInv, TypeOK
<1> QED BY <1>1, TypePolicy, TypeRequest, TypeDraft, TypeFlow DEF Next

\* Every variable keeps its type, and every request its subject.
THEOREM TypeCorrect == Spec => []TypeInv
BY TypeInit, TypeStep, PTL DEF Spec

-----------------------------------------------------------------------------
(* The votes. *)

\* Two rows that may be counted together.
Apart(v, w) == v.by \in w.met \/ w.by \in v.met
Excused(v, w) == ~ v.flow.distinct \/ ~ w.flow.distinct \/ Apart(v, w)
Together(v, w) == v # w /\ v.key = w.key /\ v.actor = w.actor

(***************************************************************************)
(* A request that has read the votes and not yet committed its own knows   *)
(* the others that have (Pending); whatever vote of its actor is there by  *)
(* now was cast by one of them, or by one that knew of it (Late).          *)
(***************************************************************************)
RowsApart == \A v, w \in votes : Together(v, w) => Excused(v, w)

Pending ==
  \A r, s \in Requests : r # s /\ At(r, "insert") /\ At(s, "insert") =>
    r \in ballot[s].met \/ s \in ballot[r].met

Late ==
  \A r \in Requests : At(r, "insert") =>
    \A w \in votes : w.key = req[r].key /\ w.actor = req[r].actor =>
      \/ ~ ballot[r].flow.distinct \/ ~ w.flow.distinct
      \/ w.by \in ballot[r].met \/ r \in w.met

TalliesApart == \A r \in Requests : \A v, w \in ballot[r].tally : Together(v, w) => Excused(v, w)

TalliesOfOne == \A r \in Requests : \A v, w \in ballot[r].tally : v.key = w.key

\* The workflow a vote is cast under is one, and has an id.
FlowKnown ==
  /\ flow # NoFlow => flow.id > 0
  /\ \A r \in Requests : At(r, "insert") => ballot[r].flow.id > 0

VoteInv == RowsApart /\ Pending /\ Late /\ TalliesApart /\ TalliesOfOne /\ FlowKnown /\ VotesHaveWorkflow

\* What the steps other than those of a vote do to it: a request is as it was, or
\* not (any more) at a step of the vote, with its ballot as it was, or empty.
Kept(r) == req'[r] = req[r] /\ ballot'[r] = ballot[r]
Left(r) == req'[r].pc \notin Voting /\ ballot'[r] \in {ballot[r], NoBallot}

LEMMA EmptyBallot == NoBallot.tally = {}
BY DEF NoBallot

\* Steps that keep the votes, or remove some, and start none.
LEMMA VotesStay ==
  ASSUME TypeInv, VoteInv, votes' \subseteq votes, \A r \in Requests : Kept(r) \/ Left(r)
  PROVE  /\ RowsApart' /\ Pending' /\ Late' /\ TalliesApart' /\ TalliesOfOne'
         /\ \A r \in Requests : At(r, "insert")' => ballot'[r].flow.id > 0
<1> USE DEF VoteInv
<1>1. \A r \in Requests : At(r, "insert")' => At(r, "insert") /\ Kept(r)
  BY DEF At, Left, Kept, Voting
<1>2. \A r \in Requests : ballot'[r].tally = ballot[r].tally \/ ballot'[r].tally = {}
  BY EmptyBallot DEF Kept, Left
<1>3. RowsApart'
  BY DEF RowsApart, Together, Excused, Apart
<1>4. Pending'
  BY <1>1 DEF Pending, Kept
<1>5. Late'
  BY <1>1 DEF Late, Kept
<1>6. TalliesApart' /\ TalliesOfOne'
  BY <1>2 DEF TalliesApart, TalliesOfOne, Together, Excused, Apart
<1>7. \A r \in Requests : At(r, "insert")' => ballot'[r].flow.id > 0
  BY <1>1 DEF FlowKnown, Kept
<1> QED BY <1>3, <1>4, <1>5, <1>6, <1>7

\* Of these, the ones that keep the workflow, too.
LEMMA VotesAndFlowStay ==
  ASSUME TypeInv, VoteInv, votes' \subseteq votes, flow' = flow, \A r \in Requests : Kept(r) \/ Left(r)
  PROVE  VoteInv'
<1>1. FlowKnown'
  BY VotesStay DEF VoteInv, FlowKnown
<1>2. VotesHaveWorkflow'
  BY DEF VoteInv, VotesHaveWorkflow
<1> QED BY <1>1, <1>2, VotesStay DEF VoteInv

\* A request that returns, or goes on to a step that is none of the vote.
LEMMA MovesOn ==
  ASSUME TypeInv, NEW r \in Requests, NEW pc \in Pc, Goes(r, pc)
  PROVE  /\ req'[r].pc = pc /\ req'[r].key = req[r].key /\ req'[r].actor = req[r].actor
         /\ req'[r].kind = req[r].kind
         /\ \A x \in Requests : x # r => req'[x] = req[x]
<1>1. req[r] \in Request
  BY DEF TypeInv, TypeOK
<1> DEFINE q == [req[r] EXCEPT !.pc = pc]
<1>2. /\ q \in Request /\ q.pc = pc /\ q.kind = req[r].kind /\ q.key = req[r].key
      /\ q.actor = req[r].actor
  BY <1>1, GoesTyped
<1>3. req' = [req EXCEPT ![r] = q]
  BY DEF Goes
<1> HIDE DEF q
<1>4. req'[r] = q /\ \A x \in Requests : x # r => req'[x] = req[x]
  BY <1>3 DEF TypeInv, TypeOK
<1> QED BY <1>2, <1>4

LEMMA ReturnsLeft ==
  ASSUME TypeInv, NEW r \in Requests, Returns(r)
  PROVE  req'[r].pc = "done" /\ \A x \in Requests : x # r => req'[x] = req[x]
BY DEF TypeInv, TypeOK, Returns, Gone, NewRequest

LEMMA VotePolicy == ASSUME TypeInv, VoteInv, PolicyNext, UNCHANGED <<draft, flow, votes, proposals>>,
                           ballot' = [r \in Requests |-> IF At(r, "done")' THEN NoBallot ELSE ballot[r]]
                    PROVE  VoteInv'
<1> SUFFICES ASSUME NEW x \in Requests PROVE Kept(x) \/ Left(x)
  BY VotesAndFlowStay
<1> USE DEF TypeInv, TypeOK
<1>1. ballot'[x] = IF At(x, "done")' THEN NoBallot ELSE ballot[x]
  OBVIOUS
<1>2. req'[x] = req[x] \/ req'[x].pc \notin Voting
  <2>1. ASSUME NEW r \in Requests, NEW kind \in Kinds, NEW actor \in Makers(kind),
               NEW key \in Subjects(kind), NEW claim \in Claims(kind), Arrives(r, kind, actor, key, claim)
        PROVE  req'[x] = req[x] \/ req'[x].pc \notin Voting
    BY <2>1 DEF Arrives, Returns, Gone, NewRequest, FirstStep, Voting
  <2>2. ASSUME NEW r \in Requests, ReadPolicy(r)
        PROVE  req'[x] = req[x] \/ req'[x].pc \notin Voting
    BY <2>2 DEF ReadPolicy, Returns, Gone, NewRequest, Request, Voting
  <2>3. ASSUME NEW r \in Requests, WritePolicy(r)
        PROVE  req'[x] = req[x] \/ req'[x].pc \notin Voting
    BY <2>3 DEF WritePolicy, Returns, Gone, NewRequest, Voting
  <2>4. CASE SetPin \/ Unpin \/ PinExpires
    BY <2>4 DEF SetPin, Unpin, PinExpires
  <2>5. CASE Crash
    BY <2>5 DEF Crash, Gone, NewRequest, Voting
  <2> QED BY <2>1, <2>2, <2>3, <2>4, <2>5 DEF PolicyNext
<1>3. At(x, "done") /\ req'[x] = req[x] => Left(x)
  BY <1>1, <1>2 DEF At, Left, Voting
<1> QED BY <1>1, <1>2, <1>3 DEF Kept, Left, At

\* Steps of a request that are none of the vote, or its last.
LEMMA VoteEnds ==
  ASSUME TypeInv, VoteInv, NEW r \in Requests, ReadFlow(r) \/ Propose(r) \/ DropProposal(r) \/ WriteDraft(r)
  PROVE  VoteInv'
<1> USE DEF TypeInv, TypeOK
<1>1. flow' = flow /\ votes' = votes
  BY DEF ReadFlow, Propose, DropProposal, WriteDraft, voteVars
<1>2. \/ \E pc \in {"write", "vote", "propose"} : Goes(r, pc) /\ ballot' = ballot
      \/ Returns(r) /\ ballot' = ballot
      \/ Returns(r) /\ ballot' = [ballot EXCEPT ![r] = NoBallot]
  BY DEF ReadFlow, Propose, DropProposal, WriteDraft, Leaves, voteVars
<1> HIDE DEF TypeInv, TypeOK
<1>3. /\ req'[r].pc \in {"write", "vote", "propose", "done"} /\ ballot'[r] \in {ballot[r], NoBallot}
      /\ \A x \in Requests : x # r => Kept(x)
  <2>1. CASE \E pc \in {"write", "vote", "propose"} : Goes(r, pc) /\ ballot' = ballot
    BY <2>1, MovesOn DEF Pc, Kept
  <2>2. CASE Returns(r) /\ ballot' = ballot
    BY <2>2, ReturnsLeft DEF Kept
  <2>3. CASE Returns(r) /\ ballot' = [ballot EXCEPT ![r] = NoBallot]
    BY <2>3, ReturnsLeft DEF Kept, TypeInv, TypeOK
  <2> QED BY <1>2, <2>1, <2>2, <2>3
<1>4. ~ At(r, "insert")'
  BY <1>3 DEF At
\* A request that begins to vote has no ballot that anything is asked of.
<1>5. RowsApart' /\ Pending' /\ Late' /\ TalliesApart' /\ TalliesOfOne' /\ FlowKnown' /\ VotesHaveWorkflow'
  <2>1. \A x \in Requests : At(x, "insert")' => x # r /\ At(x, "insert") /\ Kept(x)
    BY <1>3, <1>4 DEF At, Kept
  <2>2. \A x \in Requests : ballot'[x].tally = ballot[x].tally \/ ballot'[x].tally = {}
    BY <1>3, EmptyBallot DEF Kept
  <2>3. RowsApart'
    BY <1>1 DEF VoteInv, RowsApart, Together, Excused, Apart
  <2>4. Pending' /\ Late'
    BY <1>1, <2>1 DEF VoteInv, Pending, Late, Kept
  <2>5. TalliesApart' /\ TalliesOfOne'
    BY <2>2 DEF VoteInv, TalliesApart, TalliesOfOne, Together, Excused, Apart
  <2>6. FlowKnown' /\ VotesHaveWorkflow'
    BY <1>1, <2>1 DEF VoteInv, FlowKnown, Kept, VotesHaveWorkflow
  <2> QED BY <2>3, <2>4, <2>5, <2>6
<1> QED BY <1>5 DEF VoteInv

\* The look at the votes: the requests on their way know of each other from here.
LEMMA VoteLooks == ASSUME TypeInv, VoteInv, NEW r \in Requests, VoteRead(r) PROVE VoteInv'
<1>1. CASE Returns(r) /\ UNCHANGED ballot
  <2>1. \A x \in Requests : Kept(x) \/ Left(x)
    BY <1>1, ReturnsLeft DEF Kept, Left, Voting
  <2> QED BY <2>1, VotesAndFlowStay DEF VoteRead
<1>2. CASE /\ flow # NoFlow /\ ~ Repeats(r) /\ Goes(r, "insert")
           /\ ballot' = [ballot EXCEPT ![r] =
                [flow |-> flow, met |-> {x \in Requests : At(x, "insert")}, tally |-> {}]]
  <2>1. /\ req'[r].key = req[r].key /\ req'[r].actor = req[r].actor
        /\ \A x \in Requests : x # r => req'[x] = req[x] /\ ballot'[x] = ballot[x]
    BY <1>2, MovesOn DEF Pc, TypeInv, TypeOK
  <2>2. /\ ballot'[r].flow = flow /\ ballot'[r].met = {x \in Requests : At(x, "insert")}
        /\ ballot'[r].tally = {}
    BY <1>2 DEF TypeInv, TypeOK
  <2>3. votes' = votes /\ flow' = flow
    BY DEF VoteRead
  <2>4. Pending'
    BY <2>1, <2>2 DEF VoteInv, Pending, At
  <2>5. Late'
    <3> SUFFICES ASSUME NEW x \in Requests, At(x, "insert")', NEW w \in votes,
                        w.key = req'[x].key, w.actor = req'[x].actor
                 PROVE  \/ ~ ballot'[x].flow.distinct \/ ~ w.flow.distinct
                        \/ w.by \in ballot'[x].met \/ x \in w.met
      BY <2>3 DEF Late
    <3>1. CASE x = r
      BY <3>1, <1>2, <2>1, <2>2 DEF Repeats, On
    <3>2. CASE x # r
      BY <3>2, <2>1 DEF VoteInv, Late, At
    <3> QED BY <3>1, <3>2
  <2>6. RowsApart' /\ TalliesApart' /\ TalliesOfOne'
    BY <2>1, <2>2, <2>3 DEF VoteInv, RowsApart, TalliesApart, TalliesOfOne, Together, Excused, Apart
  <2>7. FlowKnown' /\ VotesHaveWorkflow'
    BY <1>2, <2>1, <2>2, <2>3 DEF VoteInv, FlowKnown, VotesHaveWorkflow, At
  <2> QED BY <2>4, <2>5, <2>6, <2>7 DEF VoteInv
<1> QED BY <1>1, <1>2 DEF VoteRead

\* The commit of a vote.
LEMMA VoteCommits == ASSUME TypeInv, VoteInv, NEW r \in Requests, Insert(r) PROVE VoteInv'
<1>1. CASE Leaves(r) /\ UNCHANGED votes
  <2>1. \A x \in Requests : Kept(x) \/ Left(x)
    BY <1>1, ReturnsLeft DEF Kept, Left, Voting, Leaves, TypeInv, TypeOK
  <2> QED BY <1>1, <2>1, VotesAndFlowStay DEF Insert
<1>2. CASE HasWorkflow(r) /\ Goes(r, "tally") /\ votes' = votes \union {Cast(r)} /\ UNCHANGED ballot
  <2>1. At(r, "insert") /\ flow' = flow
    BY DEF Insert
  <2>2. req'[r].pc = "tally" /\ \A x \in Requests : x # r => req'[x] = req[x]
    BY <1>2, MovesOn DEF Pc
  <2>3. \A x \in Requests : At(x, "insert")' => x # r /\ At(x, "insert") /\ Kept(x)
    BY <1>2, <2>2 DEF At, Kept
  <2>4. /\ Cast(r).by = r /\ Cast(r).actor = req[r].actor /\ Cast(r).key = req[r].key
        /\ Cast(r).flow = ballot[r].flow /\ Cast(r).met = ballot[r].met
    BY DEF Cast
  <2>5. RowsApart'
    <3>1. \A w \in votes : Together(Cast(r), w) => Excused(Cast(r), w) /\ Excused(w, Cast(r))
      BY <2>1, <2>4 DEF VoteInv, Late, Together, Excused, Apart
    <3>2. \A w \in votes : Together(w, Cast(r)) => Together(Cast(r), w)
      BY DEF Together
    <3>3. ~ Together(Cast(r), Cast(r))
      BY DEF Together
    <3>4. \A v, w \in votes \union {Cast(r)} : Together(v, w) => Excused(v, w)
      BY <3>1, <3>2, <3>3 DEF VoteInv, RowsApart
    <3> QED BY <1>2, <3>4 DEF RowsApart, Together, Excused, Apart
  <2>6. Pending'
    BY <1>2, <2>3 DEF VoteInv, Pending, Kept
  <2>7. Late'
    <3> SUFFICES ASSUME NEW x \in Requests, At(x, "insert")', NEW w \in votes',
                        w.key = req'[x].key, w.actor = req'[x].actor
                 PROVE  \/ ~ ballot'[x].flow.distinct \/ ~ w.flow.distinct
                        \/ w.by \in ballot'[x].met \/ x \in w.met
      BY DEF Late
    <3>1. CASE w \in votes
      BY <3>1, <2>3 DEF VoteInv, Late, Kept
    <3>2. CASE w = Cast(r)
      <4>1. r \in ballot[x].met \/ x \in ballot[r].met
        BY <2>1, <2>3 DEF VoteInv, Pending
      <4> QED BY <3>2, <4>1, <2>3, <2>4 DEF Kept
    <3> QED BY <1>2, <3>1, <3>2
  <2>8. TalliesApart' /\ TalliesOfOne'
    BY <1>2 DEF VoteInv, TalliesApart, TalliesOfOne, Together, Excused, Apart
  <2>9. FlowKnown'
    BY <2>1, <2>3 DEF VoteInv, FlowKnown, Kept
  <2>10. VotesHaveWorkflow'
    <3>1. flow # NoFlow
      <4>1. flow.id > 0
        BY <1>2, <2>1 DEF HasWorkflow, VoteInv, FlowKnown
      <4> QED BY <4>1 DEF NoFlow
    <3> QED BY <1>2, <2>1, <2>4, <3>1 DEF VoteInv, VotesHaveWorkflow, HasWorkflow
  <2> QED BY <2>5, <2>6, <2>7, <2>8, <2>9, <2>10 DEF VoteInv
<1> QED BY <1>1, <1>2 DEF Insert

\* The listing of the votes.
LEMMA VoteTallies == ASSUME TypeInv, VoteInv, NEW r \in Requests, Tally(r) PROVE VoteInv'
<1>1. votes' = votes /\ flow' = flow
  BY DEF Tally
<1>2. CASE Leaves(r)
  <2>1. \A x \in Requests : Kept(x) \/ Left(x)
    BY <1>2, ReturnsLeft DEF Kept, Left, Voting, Leaves, TypeInv, TypeOK
  <2> QED BY <1>1, <2>1, VotesAndFlowStay
<1>3. CASE /\ \E pc \in {"clear", "write"} : Goes(r, pc)
           /\ ballot' = [ballot EXCEPT ![r].tally = On(req[r].key)]
  <2>1. req'[r].pc \in {"clear", "write"} /\ \A x \in Requests : x # r => req'[x] = req[x]
    BY <1>3, MovesOn DEF Pc
  <2>2. /\ ballot'[r].tally = On(req[r].key)
        /\ \A x \in Requests : x # r => ballot'[x] = ballot[x]
    BY <1>3 DEF TypeInv, TypeOK, Ballot
  <2>3. \A x \in Requests : At(x, "insert")' => At(x, "insert") /\ Kept(x)
    BY <2>1, <2>2 DEF At, Kept
  <2>4. RowsApart' /\ Pending' /\ Late'
    BY <1>1, <2>3 DEF VoteInv, RowsApart, Pending, Late, Kept, Together, Excused, Apart
  <2>5. TalliesApart' /\ TalliesOfOne'
    BY <2>2 DEF VoteInv, RowsApart, TalliesApart, TalliesOfOne, On, Together, Excused, Apart
  <2>6. FlowKnown' /\ VotesHaveWorkflow'
    BY <1>1, <2>3 DEF VoteInv, FlowKnown, VotesHaveWorkflow, Kept
  <2> QED BY <2>4, <2>5, <2>6 DEF VoteInv
<1> QED BY <1>2, <1>3 DEF Tally

\* The votes go; a later vote of the same kind is counted anew.
LEMMA VoteClears == ASSUME TypeInv, VoteInv, NEW r \in Requests, Clear(r) PROVE VoteInv'
<1>1. votes' \subseteq votes /\ flow' = flow
  BY DEF Clear
<1>2. \/ Leaves(r)
      \/ \E pc \in {"drop", "write"} : Goes(r, pc) /\ ballot' = ballot
  BY DEF Clear
<1>3. \A x \in Requests : Kept(x) \/ Left(x)
  <2>1. CASE Leaves(r)
    BY <2>1, ReturnsLeft DEF Kept, Left, Voting, Leaves, TypeInv, TypeOK
  <2>2. CASE \E pc \in {"drop", "write"} : Goes(r, pc) /\ ballot' = ballot
    BY <2>2, MovesOn DEF Pc, Kept, Left, Voting
  <2> QED BY <1>2, <2>1, <2>2
<1> QED BY <1>1, <1>3, VotesAndFlowStay

\* The workflow is replaced, and keeps its votes; or deleted, and they go with it.
LEMMA VoteFlow ==
  ASSUME TypeInv, VoteInv, DeleteWorkflow \/ \E f \in Flows : SetWorkflow(f)
  PROVE  VoteInv'
<1>1. \A x \in Requests : Kept(x)
  BY DEF DeleteWorkflow, SetWorkflow, Kept
<1>2. CASE DeleteWorkflow
  <2>1. votes' = {} /\ flow' = NoFlow
    BY <1>2 DEF DeleteWorkflow
  <2>2. FlowKnown' /\ VotesHaveWorkflow'
    BY <2>1, <1>1, VotesStay DEF FlowKnown, VotesHaveWorkflow
  <2> QED BY <2>1, <2>2, <1>1, VotesStay DEF VoteInv
<1>3. ASSUME NEW f \in Flows, SetWorkflow(f) PROVE VoteInv'
  <2>1. votes' = votes
    BY <1>3 DEF SetWorkflow
  <2>2. PICK id \in IF flow = NoFlow THEN {1, events + 2} ELSE {flow.id} : flow' = Row(id, f)
    BY <1>3 DEF SetWorkflow
  <2>3. flow'.id = id /\ id > 0
    BY <2>2, BoundAssumption DEF Row, VoteInv, FlowKnown, TypeInv, TypeOK
  <2>4. flow' # NoFlow
    BY <2>3 DEF NoFlow
  <2>5. FlowKnown'
    BY <2>1, <2>3, <1>1, VotesStay DEF FlowKnown
  <2>6. VotesHaveWorkflow'
    BY <2>1, <2>2, <2>3, <2>4 DEF VoteInv, VotesHaveWorkflow
  <2> QED BY <2>1, <2>5, <2>6, <1>1, VotesStay DEF VoteInv
<1> QED BY <1>2, <1>3

LEMMA VoteInit == Init => VoteInv
<1> SUFFICES ASSUME Init PROVE VoteInv
  OBVIOUS
<1>1. \A r \in Requests : req[r].pc = "new" /\ ballot[r].tally = {}
  BY EmptyBallot DEF Init, PolicyInit, NewRequest
<1>2. flow # NoFlow => flow.id > 0
  BY DEF Init, Row
<1> QED BY <1>1, <1>2 DEF Init, VoteInv, RowsApart, Pending, Late, TalliesApart, TalliesOfOne, FlowKnown,
           VotesHaveWorkflow, At

LEMMA VoteStep == TypeInv /\ VoteInv /\ [Next]_vars => VoteInv'
<1> SUFFICES ASSUME TypeInv, VoteInv, [Next]_vars PROVE VoteInv'
  OBVIOUS
<1>1. CASE UNCHANGED vars
  BY <1>1, VotesAndFlowStay DEF vars, Kept
<1>2. CASE ClearDrafts \/ \E c \in Chunks : Undo(c) \/ Analyse(c)
  BY <1>2, VotesAndFlowStay DEF ClearDrafts, Undo, Analyse, Kept
<1>3. ASSUME NEW r \in Requests, RequestStep(r) PROVE VoteInv'
  BY <1>3, VoteEnds, VoteLooks, VoteCommits, VoteTallies, VoteClears DEF RequestStep
<1> QED BY <1>1, <1>2, <1>3, VotePolicy, VoteFlow DEF Next

LEMMA VoteTells == VoteInv => DistinctVotes /\ VotesHaveWorkflow
<1> SUFFICES ASSUME VoteInv, NEW r \in Requests, NEW v \in ballot[r].tally, NEW w \in ballot[r].tally,
                    v # w, v.actor = w.actor
             PROVE  \/ ~ v.flow.distinct \/ ~ w.flow.distinct
                    \/ v.by \in w.met \/ w.by \in v.met
  BY DEF VoteInv, DistinctVotes
<1>1. Together(v, w)
  BY DEF VoteInv, TalliesOfOne, Together
<1> QED BY <1>1 DEF VoteInv, TalliesApart, Excused, Apart

\* No two votes of one actor are counted together under a workflow of distinct
\* voters, but those that were cast before either could be seen.
THEOREM VotesDistinct == Spec => []DistinctVotes
<1>1. Init => TypeInv /\ VoteInv
  BY TypeInit, VoteInit
<1>2. TypeInv /\ VoteInv /\ [Next]_vars => TypeInv' /\ VoteInv'
  BY TypeStep, VoteStep
<1>3. VoteInv => DistinctVotes
  BY VoteTells
<1> QED BY <1>1, <1>2, <1>3, PTL DEF Spec

\* A workflow that is deleted leaves no votes, not even of requests under way.
THEOREM VotesBelong == Spec => []VotesHaveWorkflow
<1>1. Init => TypeInv /\ VoteInv
  BY TypeInit, VoteInit
<1>2. TypeInv /\ VoteInv /\ [Next]_vars => TypeInv' /\ VoteInv'
  BY TypeStep, VoteStep
<1>3. VoteInv => VotesHaveWorkflow
  BY VoteTells
<1> QED BY <1>1, <1>2, <1>3, PTL DEF Spec

-----------------------------------------------------------------------------
(* What is asked before a document is written. *)

(***************************************************************************)
(* A request that asked for the pin was let in before the last pin was     *)
(* set; an apply has read the document its etag names.                     *)
(***************************************************************************)
Guarded(q) ==
  /\ q.epoch <= epoch
  /\ Pinned /\ q.kind \in Checked => q.epoch < epoch
  /\ q.kind \in Applies /\ q.pc \notin {"new", "read"} => q.claim \subseteq {q.base}

GuardInv == \A r \in Requests : Guarded(req[r])

LEMMA GoneGuarded == ASSUME TypeInv PROVE Guarded(Gone)
BY BoundAssumption DEF TypeInv, TypeOK, Guarded, Gone, NewRequest, Checked, AllKinds, Direct, Edits, RuleEdits,
       PathEdits, ProcessEdits, PresetEdits, Applies, Votes

\* Steps that leave the pin and its count alone, and the document of no request.
LEMMA GuardStays ==
  ASSUME TypeInv, GuardInv, TypeInv', epoch' = epoch, Pinned' => Pinned,
         \A r \in Requests :
           \/ req'[r] = req[r]
           \/ req'[r] = Gone
           \/ /\ req[r].pc \notin {"new", "read"}
              /\ \E pc \in Pc : req'[r] = [req[r] EXCEPT !.pc = pc]
  PROVE  GuardInv'
<1> SUFFICES ASSUME NEW r \in Requests PROVE Guarded(req[r])'
  BY DEF GuardInv
<1>1. Guarded(req[r]) /\ req[r] \in Request
  BY DEF GuardInv, TypeInv, TypeOK
<1>2. CASE req'[r] = req[r]
  BY <1>1, <1>2 DEF Guarded
<1>3. CASE req'[r] = Gone
  BY <1>3, GoneGuarded DEF Guarded
<1>4. ASSUME req[r].pc \notin {"new", "read"}, NEW pc \in Pc, req'[r] = [req[r] EXCEPT !.pc = pc]
      PROVE  Guarded(req[r])'
  <2>1. /\ req'[r].epoch = req[r].epoch /\ req'[r].kind = req[r].kind
        /\ req'[r].claim = req[r].claim /\ req'[r].base = req[r].base
    BY <1>1, <1>4 DEF Request
  <2> QED BY <1>1, <1>4, <2>1 DEF Guarded
<1> QED BY <1>2, <1>3, <1>4

LEMMA GuardGoes ==
  ASSUME TypeInv, GuardInv, TypeInv', epoch' = epoch, pin' = pin, NEW r \in Requests,
         Returns(r) \/ (req[r].pc \notin {"new", "read"} /\ \E pc \in Pc : Goes(r, pc))
  PROVE  GuardInv'
<1>1. Pinned' => Pinned
  BY DEF Pinned
<1>2. CASE Returns(r)
  BY <1>1, <1>2, GuardStays DEF Returns, TypeInv, TypeOK
<1>3. ASSUME req[r].pc \notin {"new", "read"}, NEW pc \in Pc, Goes(r, pc) PROVE GuardInv'
  <2> DEFINE q == [req[r] EXCEPT !.pc = pc]
  <2>1. req' = [req EXCEPT ![r] = q]
    BY <1>3 DEF Goes
  <2>2. req'[r] = q /\ \A x \in Requests : x # r => req'[x] = req[x]
    BY <2>1 DEF TypeInv, TypeOK
  <2> QED BY <1>1, <1>3, <2>2, GuardStays
<1> QED BY <1>2, <1>3

LEMMA GuardPolicy == ASSUME TypeInv, GuardInv, TypeInv', PolicyNext PROVE GuardInv'
<1>1. ASSUME NEW r \in Requests, NEW kind \in Kinds, NEW actor \in Makers(kind), NEW key \in Subjects(kind),
             NEW claim \in Claims(kind), Arrives(r, kind, actor, key, claim)
      PROVE  GuardInv'
  <2> DEFINE q == [pc |-> FirstStep(kind), kind |-> kind, actor |-> actor, key |-> key, base |-> {},
                   claim |-> claim, epoch |-> epoch]
  <2>1. epoch' = epoch /\ (Pinned' => Pinned)
    BY <1>1 DEF Arrives, Pinned
  <2>2. CASE Returns(r)
    BY <2>1, <2>2, GuardStays DEF Returns, TypeInv, TypeOK
  <2>3. CASE ~ (kind \in Checked /\ Pinned) /\ req' = [req EXCEPT ![r] = q]
    <3>1. Guarded(q)
      <4>1. epoch \in Nat
        BY BoundAssumption DEF TypeInv, TypeOK
      <4>2. kind \in Applies => FirstStep(kind) = "read"
        BY DEF FirstStep, Direct, Applies
      <4> QED BY <2>3, <4>1, <4>2 DEF Guarded
    <3> HIDE DEF q
    <3>2. req'[r] = q /\ \A x \in Requests : x # r => req'[x] = req[x]
      BY <2>3 DEF TypeInv, TypeOK
    <3>3. \A x \in Requests : Guarded(req'[x])
      BY <3>1, <3>2 DEF GuardInv
    <3> QED BY <2>1, <3>3 DEF GuardInv, Guarded
  <2> QED BY <1>1, <2>2, <2>3 DEF Arrives
<1>2. ASSUME NEW r \in Requests, ReadPolicy(r) PROVE GuardInv'
  <2>1. epoch' = epoch /\ pin' = pin
    BY <1>2 DEF ReadPolicy
  <2>2. CASE Returns(r)
    BY <2>1, <2>2, GuardGoes
  <2> DEFINE pc == IF req[r].kind \in Applies THEN "flow" ELSE "write"
             q  == [req[r] EXCEPT !.base = policy, !.pc = pc]
  <2>3. CASE (req[r].kind \in Applies => Matches(req[r])) /\ req' = [req EXCEPT ![r] = q]
    <3>1. /\ q.epoch = req[r].epoch /\ q.kind = req[r].kind /\ q.claim = req[r].claim /\ q.base = policy
      BY DEF TypeInv, TypeOK, Request
    <3>2. Guarded(q)
      BY <2>3, <3>1 DEF Guarded, GuardInv, Matches
    <3> HIDE DEF q
    <3>3. req'[r] = q /\ \A x \in Requests : x # r => req'[x] = req[x]
      BY <2>3 DEF TypeInv, TypeOK
    <3>4. \A x \in Requests : Guarded(req'[x])
      BY <3>2, <3>3 DEF GuardInv
    <3> QED BY <2>1, <3>4 DEF GuardInv, Guarded, Pinned
  <2> QED BY <1>2, <2>2, <2>3 DEF ReadPolicy
<1>3. ASSUME NEW r \in Requests, WritePolicy(r) PROVE GuardInv'
  BY <1>3, GuardGoes DEF WritePolicy
<1>4. CASE SetPin
  <2>1. \A r \in Requests : req[r].epoch \in Nat
    BY DEF TypeInv, TypeOK, Request
  <2>2. epoch \in Nat
    BY BoundAssumption DEF TypeInv, TypeOK
  <2> QED BY <1>4, <2>1, <2>2 DEF SetPin, GuardInv, Guarded
<1>5. CASE Unpin \/ PinExpires
  BY <1>5 DEF Unpin, PinExpires, GuardInv, Guarded, Pinned
<1>6. CASE Crash
  <2>1. \A r \in Requests : req'[r] = req[r] \/ req'[r] = Gone
    BY <1>6 DEF Crash
  <2>2. epoch' = epoch /\ (Pinned' => Pinned)
    BY <1>6 DEF Crash, Pinned
  <2> QED BY <2>1, <2>2, GuardStays
<1> QED BY <1>1, <1>2, <1>3, <1>4, <1>5, <1>6 DEF PolicyNext

LEMMA GuardRequest == ASSUME TypeInv, GuardInv, TypeInv', NEW r \in Requests, RequestStep(r) PROVE GuardInv'
<1>1. epoch' = epoch /\ pin' = pin
  BY DEF RequestStep, ReadFlow, Propose, VoteRead, Insert, Tally, Clear, DropProposal, WriteDraft
<1>2. req[r].pc \notin {"new", "read"}
  BY DEF RequestStep, ReadFlow, Propose, VoteRead, Insert, Tally, Clear, DropProposal, WriteDraft, At
<1>3. Returns(r) \/ \E pc \in Pc : Goes(r, pc)
  BY DEF RequestStep, ReadFlow, Propose, VoteRead, Insert, Tally, Clear, DropProposal, WriteDraft, Leaves, Pc
<1> QED BY <1>1, <1>2, <1>3, GuardGoes

LEMMA GuardStep == TypeInv /\ GuardInv /\ [Next]_vars => GuardInv'
<1> SUFFICES ASSUME TypeInv, GuardInv, TypeInv', [Next]_vars PROVE GuardInv'
  BY TypeStep
<1>1. CASE UNCHANGED vars
  BY <1>1 DEF vars, GuardInv, Guarded, Pinned
<1>2. CASE ClearDrafts \/ \E c \in Chunks : Undo(c) \/ Analyse(c)
  BY <1>2 DEF ClearDrafts, Undo, Analyse, GuardInv, Guarded, Pinned
<1>3. CASE DeleteWorkflow \/ \E f \in Flows : SetWorkflow(f)
  BY <1>3 DEF DeleteWorkflow, SetWorkflow, GuardInv, Guarded, Pinned
<1> QED BY <1>1, <1>2, <1>3, GuardPolicy, GuardRequest DEF Next

LEMMA GuardInit == Init => GuardInv
BY DEF Init, PolicyInit, NewRequest, GuardInv, Guarded, Pinned

\* Who can change the policy, and what he was told before.
LEMMA PinStep ==
  ASSUME TypeInv, GuardInv, Next, policy' # policy, Pinned
  PROVE  \/ \E r \in Requests : (Writes(r) /\ LetInBefore(r)) \/ TapWrites(r)
         \/ \E c \in Chunks : Undo(c)
<1>1. ASSUME NEW r \in Requests, At(r, "write"), Returns(r), req[r].kind \in Checked
      PROVE  Writes(r) /\ LetInBefore(r)
  BY <1>1, ReturnsLeft DEF GuardInv, Guarded, At, Writes, LetInBefore
<1>2. ASSUME NEW r \in Requests, WritePolicy(r)
      PROVE  Writes(r) /\ LetInBefore(r)
  <2>1. At(r, "write") /\ Returns(r) /\ req[r].kind \in Checked
    BY <1>2 DEF WritePolicy, Checked, AllKinds, Direct, Edits, RuleEdits, PathEdits, ProcessEdits, PresetEdits,
                Applies
  <2> QED BY <1>1, <2>1
<1>3. ASSUME NEW r \in Requests, WriteDraft(r)
      PROVE  (Writes(r) /\ LetInBefore(r)) \/ TapWrites(r)
  <2>1. At(r, "write") /\ Returns(r) /\ req[r].kind \in Votes \union {"all"}
    BY <1>3 DEF WriteDraft, Leaves
  <2>2. ~ Rejects(r) /\ policy' = policy \union Decided(req[r])
    BY <1>3 DEF WriteDraft, Outcome, Decide
  <2>3. CASE req[r].kind = "tap"
    <3>1. Writes(r)
      BY <2>1, ReturnsLeft DEF At, Writes
    <3>2. policy' = policy \union {req[r].key}
      BY <2>2, <2>3 DEF Decided
    <3> QED BY <2>3, <3>1, <3>2 DEF TapWrites
  <2>4. CASE req[r].kind # "tap"
    <3>1. req[r].kind \in Checked
      BY <2>1, <2>2, <2>4 DEF Rejects, Checked, AllKinds, Votes
    <3> QED BY <1>1, <2>1, <3>1
  <2> QED BY <2>3, <2>4
<1>4. CASE PolicyNext
  BY <1>2, <1>4 DEF PolicyNext, Arrives, ReadPolicy, SetPin, Unpin, PinExpires, Crash
<1>5. ASSUME NEW r \in Requests, RequestStep(r)
      PROVE  WriteDraft(r)
  BY <1>5 DEF RequestStep, ReadFlow, Propose, VoteRead, Insert, Tally, Clear, DropProposal
<1>6. ASSUME ClearDrafts \/ DeleteWorkflow \/ (\E f \in Flows : SetWorkflow(f)) \/ \E c \in Chunks : Analyse(c)
      PROVE  FALSE
  BY <1>6 DEF ClearDrafts, DeleteWorkflow, SetWorkflow, Analyse
<1> QED BY <1>3, <1>4, <1>5, <1>6 DEF Next

\* Under a pin the policy changes only by a request that was let in before the pin
\* was set, by a one-tap approval, which adds the rule of its link, or by an undo;
\* and an apply with an etag writes over another document than the exported one
\* only if that was replaced after the apply had read it.
THEOREM GuardsHold == Spec => WriteGuards
<1>1. Init => TypeInv /\ GuardInv
  BY TypeInit, GuardInit
<1>2. TypeInv /\ GuardInv /\ [Next]_vars => TypeInv' /\ GuardInv'
  BY TypeStep, GuardStep
<1>3. TypeInv /\ GuardInv /\ [Next]_vars =>
        [policy' # policy /\ Pinned =>
           \/ \E r \in Requests : (Writes(r) /\ LetInBefore(r)) \/ TapWrites(r)
           \/ \E c \in Chunks : Undo(c)]_vars
  BY PinStep DEF vars
<1>4. TypeInv /\ GuardInv /\ [Next]_vars =>
        [\A r \in Requests :
           /\ At(r, "write") /\ ~ At(r, "write")' /\ req[r].kind \in Applies
           /\ policy' # policy /\ req[r].claim # {}
           => policy \in req[r].claim \/ policy # req[r].base]_vars
  BY DEF GuardInv, Guarded, At
<1> QED BY <1>1, <1>2, <1>3, <1>4, PTL DEF Spec, WriteGuards, PinHolds, EtagGuards

=============================================================================
