------------------------------ MODULE Approvals ------------------------------
(***************************************************************************)
(* Draft chunks and their approval: a single click, a one-tap link, or a   *)
(* vote under a workflow with a quorum (api/routes/approvals.py,           *)
(* api/routes/one_tap.py, services/approval_workflow.py), together with    *)
(* the writers of the policy, of which apply is subject to the same votes. *)
(*                                                                         *)
(* A vote is a row; the request that casts it stands for it.  A workflow   *)
(* request reads the workflow, reads the votes, commits its own, lists     *)
(* them again, clears them when they decide, and calls the gateway last:   *)
(* each of these is an await, and other requests come between.             *)
(***************************************************************************)
EXTENDS PolicyWrites

CONSTANTS
  Admins,   \* actors with the admin role; the others are operators
  Flows     \* the workflows an admin may configure

Roles == {"admin", "operator"}

ASSUME AdminAssumption == OneTap \notin Admins
ASSUME FlowAssumption  ==
  Flows \subseteq [need: Nat \ {0}, distinct: BOOLEAN, roles: SUBSET Roles]

VARIABLES
  draft,      \* the gateway's draft chunks
  flow,       \* the workflow row of the sandbox: its id and its settings
  votes,      \* the approval_decisions rows
  proposals,  \* the policy_apply_proposals rows
  ballot      \* what each request knows of the vote

voteVars == <<draft, flow, votes, proposals, ballot>>
vars == <<policy, pin, epoch, req, events, draft, flow, votes, proposals, ballot>>

Draft == {"absent", "pending", "approved", "rejected"}

NoFlow == [id |-> 0, need |-> 1, distinct |-> FALSE, roles |-> {}]
Flow   == [id: Nat, need: Nat \ {0}, distinct: BOOLEAN, roles: SUBSET Roles]
Row(id, f) == [id |-> id, need |-> f.need, distinct |-> f.distinct, roles |-> f.roles]

(***************************************************************************)
(* A vote as record_decision casts it: flow is the workflow row as it read *)
(* it, of which the vote keeps the id (the settings are history), and met, *)
(* history, the requests that had read the votes and not yet committed     *)
(* their own when this one read them.  tally: the votes on the chunk as    *)
(* listed after the commit.                                                *)
(***************************************************************************)
Vote == [by: Requests, actor: Actors, key: Chunks \union Docs, reject: BOOLEAN,
         flow: Flow, met: SUBSET Requests]

Ballot == [flow: Flow, met: SUBSET Requests, tally: SUBSET Vote]
NoBallot == [flow |-> NoFlow, met |-> {}, tally |-> {}]

Init ==
  /\ PolicyInit
  /\ draft = [c \in Chunks |-> "pending"]
  /\ flow \in {NoFlow} \union {Row(1, f) : f \in Flows}
  /\ votes = {}
  /\ proposals = {}
  /\ ballot = [r \in Requests |-> NoBallot]

Rejects(r) == req[r].kind \in {"reject", "tapReject"}
Leaves(r)  == Returns(r) /\ ballot' = [ballot EXCEPT ![r] = NoBallot]
On(key)    == {v \in votes : v.key = key}
Role(a)    == IF a \in Admins THEN "admin" ELSE "operator"

(***************************************************************************)
(* The route reads the workflow: without one it goes straight on, with one *)
(* the request is a vote.  Bulk approval is for admins then.               *)
(***************************************************************************)
ReadFlow(r) ==
  /\ At(r, "flow")
  /\ \/ flow = NoFlow /\ Goes(r, "write")
     \/ flow # NoFlow /\ req[r].kind \in Votes   /\ Goes(r, "vote")
     \/ flow # NoFlow /\ req[r].kind \in Applies /\ Goes(r, "propose")
     \/ /\ flow # NoFlow /\ req[r].kind = "all"
        /\ IF Role(req[r].actor) = "admin" THEN Goes(r, "write") ELSE Returns(r)
  /\ UNCHANGED <<policy, pin, epoch, events>> /\ UNCHANGED voteVars

Propose(r) ==
  /\ At(r, "propose")
  /\ proposals' = proposals \union {req[r].key}
  /\ Goes(r, "vote")
  /\ UNCHANGED <<policy, pin, epoch, events, draft, flow, votes, ballot>>

(***************************************************************************)
(* record_decision, in four awaits: the workflow and the votes are read,   *)
(* the vote is committed, the votes are listed, the votes are cleared.     *)
(***************************************************************************)
Eligible(r) == flow.roles = {} \/ Role(req[r].actor) \in flow.roles

\* Mutant of Repeats: the requests are compared, not who made them.
RepeatsItself(r) == flow.distinct /\ \E v \in On(req[r].key) : v.by = r

Repeats(r) == flow.distinct /\ \E v \in On(req[r].key) : v.actor = req[r].actor

VoteRead(r) ==
  /\ At(r, "vote")
  /\ IF flow # NoFlow /\ Eligible(r) /\ ~ Repeats(r)
       THEN /\ Goes(r, "insert")
            /\ ballot' = [ballot EXCEPT ![r] =
                 [flow |-> flow, met |-> {x \in Requests : At(x, "insert")}, tally |-> {}]]
       ELSE Returns(r) /\ UNCHANGED ballot
  /\ UNCHANGED <<policy, pin, epoch, events, draft, flow, votes, proposals>>

Cast(r) == [by |-> r, actor |-> req[r].actor, key |-> req[r].key, reject |-> Rejects(r),
            flow |-> ballot[r].flow, met |-> ballot[r].met]

\* The row refers to the workflow's: the commit fails when that is gone.
HasWorkflow(r) == flow.id = ballot[r].flow.id

Insert(r) ==
  /\ At(r, "insert")
  /\ IF HasWorkflow(r)
       THEN Goes(r, "tally") /\ votes' = votes \union {Cast(r)} /\ UNCHANGED ballot
       ELSE Leaves(r) /\ UNCHANGED votes
  /\ UNCHANGED <<policy, pin, epoch, events, draft, flow, proposals>>

RejectSeen(rows) == \E v \in rows : v.reject
QuorumMet(r, rows) ==
  ~ RejectSeen(rows) /\ Cardinality({v \in rows : ~ v.reject}) >= ballot[r].flow.need

\* A reject goes to the gateway whatever the votes say.
Tally(r) ==
  /\ At(r, "tally")
  /\ LET rows == On(req[r].key)
         next == IF QuorumMet(r, rows) \/ RejectSeen(rows) THEN "clear"
                 ELSE IF Rejects(r) THEN "write" ELSE "done" IN
       IF next = "done" THEN Leaves(r)
       ELSE Goes(r, next) /\ ballot' = [ballot EXCEPT ![r].tally = rows]
  /\ UNCHANGED <<policy, pin, epoch, events, draft, flow, votes, proposals>>

\* Every vote on the chunk goes, also one that was cast since the listing.
Clear(r) ==
  /\ At(r, "clear")
  /\ votes' = votes \ On(req[r].key)
  /\ LET next == IF QuorumMet(r, ballot[r].tally)
                   THEN IF req[r].kind \in Applies THEN "drop" ELSE "write"
                   ELSE IF Rejects(r) THEN "write" ELSE "done" IN
       IF next = "done" THEN Leaves(r) ELSE Goes(r, next) /\ UNCHANGED ballot
  /\ UNCHANGED <<policy, pin, epoch, events, draft, flow, proposals>>

DropProposal(r) ==
  /\ At(r, "drop")
  /\ proposals' = proposals \ {req[r].key}
  /\ Goes(r, "write")
  /\ UNCHANGED <<policy, pin, epoch, events, draft, flow, votes, ballot>>

(***************************************************************************)
(* The gateway's side of a decision: only a pending chunk can be decided,  *)
(* and the id of a proposed document is none of its chunks.                *)
(***************************************************************************)
Decided(q) ==
  {c \in Chunks : draft[c] = "pending" /\ (q.kind = "all" \/ c = q.key)}

Decide(chunks, verdict) ==
  /\ draft' = [c \in Chunks |-> IF c \in chunks THEN verdict ELSE draft[c]]
  /\ policy' = IF verdict = "approved" THEN policy \union chunks ELSE policy

WriteDraft(r) ==
  /\ At(r, "write")
  /\ req[r].kind \in Votes \union {"all"}
  /\ Outcome(r, Decide(Decided(req[r]), IF Rejects(r) THEN "rejected" ELSE "approved"),
                UNCHANGED <<draft, policy>>)
  /\ Leaves(r)
  /\ UNCHANGED <<pin, epoch, flow, votes, proposals>>

(***************************************************************************)
(* The other operations on the drafts, one gateway call each and none of   *)
(* them under the pin or the workflow: undo takes an approved rule out of  *)
(* the policy again, clear removes the pending chunks, and the gateway     *)
(* proposes.                                                               *)
(***************************************************************************)
Undo(c) ==
  /\ Event
  /\ draft[c] = "approved"
  /\ draft' = [draft EXCEPT ![c] = "pending"]
  /\ policy' = policy \ {c}
  /\ UNCHANGED <<pin, epoch, req, flow, votes, proposals, ballot>>

ClearDrafts ==
  /\ Event
  /\ draft' = [c \in Chunks |-> IF draft[c] = "pending" THEN "absent" ELSE draft[c]]
  /\ UNCHANGED <<policy, pin, epoch, req, flow, votes, proposals, ballot>>

Analyse(c) ==
  /\ Event
  /\ draft[c] = "absent"
  /\ draft' = [draft EXCEPT ![c] = "pending"]
  /\ UNCHANGED <<policy, pin, epoch, req, flow, votes, proposals, ballot>>

(***************************************************************************)
(* The workflow.  Replacing it keeps the row and the votes; a new row may  *)
(* get the id of a deleted one.                                            *)
(***************************************************************************)
SetWorkflow(f) ==
  /\ Event
  /\ \E id \in IF flow = NoFlow THEN {1, events + 2} ELSE {flow.id} :
       flow' = Row(id, f)
  /\ UNCHANGED <<policy, pin, epoch, req, draft, votes, proposals, ballot>>

DeleteWorkflow ==
  /\ Event
  /\ flow # NoFlow
  /\ flow' = NoFlow
  /\ votes' = {}
  /\ UNCHANGED <<policy, pin, epoch, req, draft, proposals, ballot>>

RequestStep(r) ==
  \/ ReadFlow(r)
  \/ Propose(r)
  \/ VoteRead(r)
  \/ Insert(r)
  \/ Tally(r)
  \/ Clear(r)
  \/ DropProposal(r)
  \/ WriteDraft(r)

Next ==
  \/ PolicyNext /\ UNCHANGED <<draft, flow, votes, proposals>>
                /\ ballot' = [r \in Requests |-> IF At(r, "done")' THEN NoBallot ELSE ballot[r]]
  \/ \E r \in Requests : RequestStep(r)
  \/ \E c \in Chunks : Undo(c) \/ Analyse(c)
  \/ ClearDrafts
  \/ \E f \in Flows : SetWorkflow(f)
  \/ DeleteWorkflow

Spec == Init /\ [][Next]_vars

-----------------------------------------------------------------------------
TypeOK ==
  /\ policy \subseteq Rules
  /\ pin \in {"none", "held", "expired"}
  /\ epoch \in 0 .. MaxEvents
  /\ req \in [Requests -> Request]
  /\ events \in 0 .. MaxEvents
  /\ draft \in [Chunks -> Draft]
  /\ flow \in Flow
  /\ votes \subseteq Vote
  /\ proposals \subseteq Docs
  /\ ballot \in [Requests -> Ballot]

(***************************************************************************)
(* Two votes of one actor are counted together only if the workflow let an *)
(* actor vote twice when one of them was cast, or if each was cast before  *)
(* the other could be seen: no constraint of the table keeps the second    *)
(* out, only the look at the votes before.                                 *)
(***************************************************************************)
DistinctVotes ==
  \A r \in Requests : \A v, w \in ballot[r].tally :
    v # w /\ v.actor = w.actor =>
      \/ ~ v.flow.distinct \/ ~ w.flow.distinct
      \/ v.by \in w.met \/ w.by \in v.met

(***************************************************************************)
(* A vote belongs to the workflow there is: a request that was on its way  *)
(* when the workflow was deleted leaves none behind.                       *)
(***************************************************************************)
VotesHaveWorkflow ==
  \A v \in votes : flow # NoFlow /\ v.flow.id = flow.id

LetInBefore(r) == req[r].epoch < epoch
Writes(r) == At(r, "write") /\ ~ At(r, "write")'

(***************************************************************************)
(* The paths that ask for the pin respect it.  Under a pin the policy      *)
(* changes only by a request that was let in before the pin was set, or by *)
(* one of the two paths that do not ask: a one-tap approval, which adds    *)
(* the rule of its link and nothing else (cast_one_tap_vote), and the undo *)
(* of a decision (undo_chunk).  The documents say more, that every path    *)
(* asks (docs/guides/policy-pinning.md:3-14,                               *)
(* docs/guides/approval-workflows.md:102-103, api/routes/approvals.py:14): *)
(* without the two exceptions the property is false of the code.           *)
(***************************************************************************)
TapWrites(r) == Writes(r) /\ req[r].kind = "tap" /\ policy' = policy \union {req[r].key}

PinHolds ==
  [][policy' # policy /\ Pinned =>
       \/ \E r \in Requests : (Writes(r) /\ LetInBefore(r)) \/ TapWrites(r)
       \/ \E c \in Chunks : Undo(c)]_vars

\* An apply that came with an etag writes over another document than the exported
\* one only if that was replaced after the apply had read it.
EtagGuards ==
  [][\A r \in Requests :
       /\ At(r, "write") /\ ~ At(r, "write")' /\ req[r].kind \in Applies
       /\ policy' # policy /\ req[r].claim # {}
       => policy \in req[r].claim \/ policy # req[r].base]_vars

(***************************************************************************)
(* What is asked before a document is written holds when it is written,    *)
(* but for what changed while the request was on its way: the pin, of the  *)
(* paths that ask for it, and the etag of an apply.                        *)
(***************************************************************************)
WriteGuards == PinHolds /\ EtagGuards

=============================================================================
