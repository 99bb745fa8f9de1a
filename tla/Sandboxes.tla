------------------------------ MODULE Sandboxes ------------------------------
(***************************************************************************)
(* One sandbox name on one gateway: the calls that create, delete, label   *)
(* and run hooks in the sandbox of that name (services/sandbox.py), the    *)
(* labels the server keeps about it (services/sandbox_meta.py) and the     *)
(* hooks around its creation (services/boot_hooks.py).  The gateway knows  *)
(* the sandbox only by its name: whatever the server keeps is tied to the  *)
(* name, and outlives the sandbox when a deletion is cut short.            *)
(*                                                                         *)
(* A sandbox is told from an earlier one of its name by a number.  Labels  *)
(* are the number of the sandbox that they were written for.               *)
(***************************************************************************)
EXTENDS Integers, Sequences, FiniteSetsExt, SequencesExt

CONSTANTS Requests,     \* calls of the API that may run at a time
          Hooks,        \* the ids of the hooks, numbers
          MaxBoxes,     \* bound: sandboxes created
          MaxAttempts,  \* RetryPolicy.max_attempts
          MaxEdits,     \* bound: edits of the hooks and runs by hand
          MaxBoxCrashes \* bound: crashes of the server

ASSUME HooksAssumption == Hooks \in SUBSET Int /\ IsFiniteSet(Hooks)

VARIABLES box,      \* the sandbox of the name on the gateway, 0 when there is none
          boxPhase, \* its phase on the gateway
          made,     \* how many sandboxes the name has had
          labelled, \* whether the present sandbox was given labels
          meta,     \* the row of sandbox_meta: the sandbox it is for, 0 when there is none
          hooks,    \* the rows of sandbox_boot_hooks
          req,      \* the calls in progress
          excused,  \* a fault or an overlap that the clean-up does not survive has happened
          edits,    \* how many edits of the hooks are left
          boxCrashes

sandboxVars == <<box, boxPhase, made, labelled, meta, hooks, req, excused, edits, boxCrashes>>
Edits == edits > 0 /\ edits' = edits - 1

NoHook == [phase |-> "none", order |-> 0, enabled |-> FALSE, goOn |-> FALSE, last |-> "never"]

NoRequest == [pc |-> "idle", box |-> 0, labels |-> FALSE, presets |-> FALSE, skip |-> FALSE,
              todo |-> <<>>, ran |-> {}, attempt |-> 1, throughout |-> {}]

Set(r, fields) == req' = [req EXCEPT ![r] = fields]
Goes(r, pc) == Set(r, [req[r] EXCEPT !.pc = pc])
Returns(r) == Set(r, NoRequest)

(* Hooks of a phase that take part, as they are when they are listed, in   *)
(* the order in which they are listed.                                     *)
Stored(phase) == {h \in Hooks : hooks[h] # NoHook /\ hooks[h].phase = phase}

(* Mutant of Taking: a hook that has succeeded before is not run again.    *)
TakingOnce(phase) == {h \in Stored(phase) : hooks[h].enabled /\ hooks[h].last # "success"}

Taking(phase) == {h \in Stored(phase) : hooks[h].enabled}
Before(a, b) == hooks[a].order < hooks[b].order \/ (hooks[a].order = hooks[b].order /\ a < b)
Listed(h) == [id |-> h, phase |-> hooks[h].phase, goOn |-> hooks[h].goOn]
InOrder(ids) == \A i, j \in DOMAIN ids : i < j => Before(ids[i], ids[j])
EnabledFor(phase) ==  \* the one list of them that is in order
    {[i \in DOMAIN ids |-> Listed(ids[i])] : ids \in {s \in SetToSeqs(Taking(phase)) : InOrder(s)}}

(* The hooks that a creation must get past: the pre-create hooks that are  *)
(* on and are not marked continue_on_failure.                              *)
Gates == {h \in Stored("pre") : hooks[h].enabled /\ ~hooks[h].goOn}

(* _persist_run: a hook that was deleted meanwhile is left alone. *)
Persist(h, status) ==
    hooks' = IF hooks[h] = NoHook THEN hooks ELSE [hooks EXCEPT ![h].last = status]

-----------------------------------------------------------------------------
(* Creation.  run_lro admits one creation of a name at a time. *)

Creating(r) == req[r].pc \in {"list", "pre", "make", "label", "wait", "presets", "service", "post"}

CreateStarts(r) ==
    /\ req[r].pc = "idle"
    /\ \A q \in Requests : ~Creating(q)
    /\ \E labels, presets, skip \in BOOLEAN :
        Set(r, [NoRequest EXCEPT !.pc = IF skip THEN "make" ELSE "list", !.labels = labels,
                               !.presets = presets, !.skip = skip, !.throughout = Gates])
    /\ UNCHANGED <<box, boxPhase, made, labelled, meta, hooks, excused, edits, boxCrashes>>

PreListed(r) ==
    /\ req[r].pc = "list"
    /\ \E todo \in EnabledFor("pre") : Set(r, [req[r] EXCEPT !.pc = "pre", !.todo = todo])
    /\ UNCHANGED <<box, boxPhase, made, labelled, meta, hooks, excused, edits, boxCrashes>>

PreSucceeds(r) ==
    /\ req[r].pc = "pre" /\ req[r].todo # <<>>
    /\ LET h == Head(req[r].todo).id
       IN  /\ Persist(h, "success")
           /\ Set(r, [req[r] EXCEPT !.todo = Tail(@), !.ran = @ \cup {h}])
    /\ UNCHANGED <<box, boxPhase, made, labelled, meta, excused, edits, boxCrashes>>

(* run_pre_create: the first failure aborts, whatever the hook says of failures. *)
PreFails(r) ==
    /\ req[r].pc = "pre" /\ req[r].todo # <<>>
    /\ Persist(Head(req[r].todo).id, "failure")
    /\ Returns(r)
    /\ UNCHANGED <<box, boxPhase, made, labelled, meta, excused, edits, boxCrashes>>

PreEnds(r) ==
    /\ req[r].pc = "pre" /\ req[r].todo = <<>>
    /\ Goes(r, "make")
    /\ UNCHANGED <<box, boxPhase, made, labelled, meta, hooks, excused, edits, boxCrashes>>

(* call_with_retry around CreateSandbox: a code that may be retried is, up *)
(* to max_attempts, whether or not the gateway had done what it was asked. *)
TriesAgain(r) ==
    IF req[r].attempt < MaxAttempts THEN Set(r, [req[r] EXCEPT !.attempt = @ + 1]) ELSE Returns(r)

Appears(r) ==
    /\ box = 0 /\ made < MaxBoxes
    /\ made' = made + 1 /\ box' = made + 1 /\ boxPhase' = "provisioning"
    /\ labelled' = req[r].labels

Made(r) ==
    /\ req[r].pc = "make"
    /\ Appears(r)
    /\ Set(r, [req[r] EXCEPT !.pc = "label", !.box = made + 1])
    /\ UNCHANGED <<meta, hooks, excused, edits, boxCrashes>>

MadeReplyLost(r) ==
    /\ req[r].pc = "make"
    /\ Appears(r)
    /\ TriesAgain(r)
    /\ excused' = (excused \/ req[r].labels)
    /\ UNCHANGED <<meta, hooks, edits, boxCrashes>>

MakeUnavailable(r) ==
    /\ req[r].pc = "make"
    /\ TriesAgain(r)
    /\ UNCHANGED <<box, boxPhase, made, labelled, meta, hooks, excused, edits, boxCrashes>>

(* ALREADY_EXISTS, or a code that is not retried. *)
MakeRefused(r) ==
    /\ req[r].pc = "make"
    /\ Returns(r)
    /\ UNCHANGED <<box, boxPhase, made, labelled, meta, hooks, excused, edits, boxCrashes>>

(* The labels, by the name: another sandbox may have it by now. *)
Labels(r) ==
    /\ req[r].pc = "label"
    /\ meta' = IF req[r].labels THEN req[r].box ELSE meta
    /\ excused' = (excused \/ (req[r].labels /\ box # req[r].box))
    /\ IF req[r].presets THEN Goes(r, "wait")
       ELSE IF req[r].skip THEN Returns(r) ELSE Goes(r, "service")
    /\ UNCHANGED <<box, boxPhase, made, labelled, hooks, edits, boxCrashes>>

(* wait_ready: without a ready sandbox the call returns, and no hook runs. *)
WaitEnds(r) ==
    /\ req[r].pc = "wait"
    /\ \/ /\ box # 0 /\ boxPhase = "ready"
          /\ Goes(r, "presets")
       \/ Returns(r)
    /\ UNCHANGED <<box, boxPhase, made, labelled, meta, hooks, excused, edits, boxCrashes>>

(* The presets are tried one by one, and a failure is only reported. *)
PresetsApplied(r) ==
    /\ req[r].pc = "presets"
    /\ IF req[r].skip THEN Returns(r) ELSE Goes(r, "service")
    /\ UNCHANGED <<box, boxPhase, made, labelled, meta, hooks, excused, edits, boxCrashes>>

(* run_post_create lists its hooks once it has the service of the gateway. *)
PostStarts(r) ==
    /\ req[r].pc = "service"
    /\ \/ \E todo \in EnabledFor("post") : Set(r, [req[r] EXCEPT !.pc = "post", !.todo = todo])
       \/ Returns(r)
    /\ UNCHANGED <<box, boxPhase, made, labelled, meta, hooks, excused, edits, boxCrashes>>

PostGoesOn(r) == Set(r, [req[r] EXCEPT !.todo = Tail(@)])

PostExits(r) ==
    /\ req[r].pc = "post" /\ req[r].todo # <<>> /\ box # 0
    /\ LET hook == Head(req[r].todo)
       IN  \/ Persist(hook.id, "success") /\ PostGoesOn(r)
           \/ /\ Persist(hook.id, "failure")
              /\ IF hook.goOn THEN PostGoesOn(r) ELSE Returns(r)
    /\ UNCHANGED <<box, boxPhase, made, labelled, meta, excused, edits, boxCrashes>>

(* exec raised: the failure is reported, and not written to the row. *)
PostRaises(r) ==
    /\ req[r].pc = "post" /\ req[r].todo # <<>>
    /\ IF Head(req[r].todo).goOn THEN PostGoesOn(r) ELSE Returns(r)
    /\ UNCHANGED <<box, boxPhase, made, labelled, meta, hooks, excused, edits, boxCrashes>>

PostEnds(r) ==
    /\ req[r].pc = "post" /\ req[r].todo = <<>>
    /\ Returns(r)
    /\ UNCHANGED <<box, boxPhase, made, labelled, meta, hooks, excused, edits, boxCrashes>>

-----------------------------------------------------------------------------
(* Deletion: the gateway, then the labels, then the hooks, each a commit of *)
(* its own, and only if the gateway says that it deleted something.         *)

DeleteStarts(r) ==
    /\ req[r].pc = "idle"
    /\ Set(r, [NoRequest EXCEPT !.pc = "delete"])
    /\ UNCHANGED <<box, boxPhase, made, labelled, meta, hooks, excused, edits, boxCrashes>>

Deleted(r) ==
    /\ req[r].pc = "delete" /\ box # 0
    /\ box' = 0 /\ boxPhase' = "none" /\ labelled' = FALSE
    /\ Goes(r, "unlabel")
    /\ UNCHANGED <<made, meta, hooks, excused, edits, boxCrashes>>

DeletedReplyLost(r) ==
    /\ req[r].pc = "delete" /\ box # 0
    /\ box' = 0 /\ boxPhase' = "none" /\ labelled' = FALSE
    /\ TriesAgain(r)
    /\ excused' = (excused \/ meta # 0)
    /\ UNCHANGED <<made, meta, hooks, edits, boxCrashes>>

DeleteUnavailable(r) ==
    /\ req[r].pc = "delete"
    /\ TriesAgain(r)
    /\ UNCHANGED <<box, boxPhase, made, labelled, meta, hooks, excused, edits, boxCrashes>>

NothingDeleted(r) ==
    /\ req[r].pc = "delete" /\ box = 0
    /\ Returns(r)
    /\ UNCHANGED <<box, boxPhase, made, labelled, meta, hooks, excused, edits, boxCrashes>>

(* By the name: the labels of a sandbox made meanwhile go too. *)
Unlabels(r) ==
    /\ meta' = 0
    /\ excused' = (excused \/ (box # 0 /\ meta = box))
    /\ Goes(r, "unhook")

DeleteUnlabels(r) ==
    /\ req[r].pc = "unlabel"
    /\ Unlabels(r)
    /\ UNCHANGED <<box, boxPhase, made, labelled, hooks, edits, boxCrashes>>

DeleteUnhooks(r) ==
    /\ req[r].pc = "unhook"
    /\ hooks' = [h \in Hooks |-> NoHook]
    /\ req' = [q \in Requests |-> IF q = r THEN NoRequest ELSE [req[q] EXCEPT !.throughout = {}]]
    /\ UNCHANGED <<box, boxPhase, made, labelled, meta, excused, edits, boxCrashes>>

(* update_metadata asks the gateway for the sandbox, then writes by the name. *)
UpdateChecks(r) ==
    /\ req[r].pc = "idle" /\ box # 0
    /\ Set(r, [NoRequest EXCEPT !.pc = "update", !.box = box])
    /\ UNCHANGED <<box, boxPhase, made, labelled, meta, hooks, excused, edits, boxCrashes>>

UpdateWrites(r) ==
    /\ req[r].pc = "update"
    /\ meta' = req[r].box
    /\ labelled' = (labelled \/ box = req[r].box)
    /\ excused' = (excused \/ box # req[r].box)
    /\ Returns(r)
    /\ UNCHANGED <<box, boxPhase, made, hooks, edits, boxCrashes>>

-----------------------------------------------------------------------------
(* The hooks.  Each edit commits on its own, except that a reordering has   *)
(* read the rows before it writes: only a changed order is written, and a   *)
(* row that is gone by then undoes the whole of it.                         *)

NextOrder(phase) == LET orders == {hooks[h].order : h \in Stored(phase)}
                    IN  IF orders = {} THEN 0 ELSE Max(orders) + 1

HookCreated(h) ==
    /\ hooks[h] = NoHook
    /\ \E phase \in {"pre", "post"}, goOn \in BOOLEAN :
        /\ NextOrder(phase) <= Cardinality(Hooks)
        /\ hooks' = [hooks EXCEPT ![h] = [phase |-> phase, order |-> NextOrder(phase), enabled |-> TRUE,
                                          goOn |-> goOn, last |-> "never"]]
    /\ Edits
    /\ UNCHANGED <<box, boxPhase, made, labelled, meta, req, excused, boxCrashes>>

(* A hook that was no gate for a moment of a call is not owed to it. *)
NotThroughout(h) == req' = [r \in Requests |-> [req[r] EXCEPT !.throughout = @ \ {h}]]

HookUpdated(h) ==
    /\ hooks[h] # NoHook
    /\ \E enabled, goOn \in BOOLEAN : hooks' = [hooks EXCEPT ![h].enabled = enabled, ![h].goOn = goOn]
    /\ IF h \in Gates' THEN UNCHANGED req ELSE NotThroughout(h)
    /\ Edits
    /\ UNCHANGED <<box, boxPhase, made, labelled, meta, excused, boxCrashes>>

HookDeleted(h) ==
    /\ hooks[h] # NoHook
    /\ hooks' = [hooks EXCEPT ![h] = NoHook]
    /\ NotThroughout(h)
    /\ Edits
    /\ UNCHANGED <<box, boxPhase, made, labelled, meta, excused, boxCrashes>>

ReorderReads(r) ==
    /\ req[r].pc = "idle"
    /\ \E phase \in {"pre", "post"} : \E ids \in SetToSeqs(Stored(phase)) :
        Set(r, [NoRequest EXCEPT !.pc = "reorder",
                               !.todo = [i \in DOMAIN ids |-> [id |-> ids[i], was |-> hooks[ids[i]].order]]])
    /\ Edits
    /\ UNCHANGED <<box, boxPhase, made, labelled, meta, hooks, excused, boxCrashes>>

Reordered(rows) ==
    [h \in Hooks |->
        LET at == {i \in DOMAIN rows : rows[i].id = h /\ rows[i].was # i - 1}
        IN  IF at = {} THEN hooks[h] ELSE [hooks[h] EXCEPT !.order = Max(at) - 1]]

ReorderWrites(r) ==
    /\ req[r].pc = "reorder"
    /\ LET rows == req[r].todo
       IN  hooks' = IF \E i \in DOMAIN rows : hooks[rows[i].id] = NoHook THEN hooks ELSE Reordered(rows)
    /\ Returns(r)
    /\ UNCHANGED <<box, boxPhase, made, labelled, meta, excused, edits, boxCrashes>>

(* run_one, by hand: any hook that is stored, enabled or not. *)
RunStarts(r) ==
    /\ req[r].pc = "idle"
    /\ \E h \in Hooks : hooks[h] # NoHook /\ Set(r, [NoRequest EXCEPT !.pc = "one", !.todo = <<Listed(h)>>])
    /\ Edits
    /\ UNCHANGED <<box, boxPhase, made, labelled, meta, hooks, excused, boxCrashes>>

RunEnds(r) ==
    /\ req[r].pc = "one"
    /\ LET h == Head(req[r].todo).id
       IN  \/ \E status \in {"success", "failure"} : Persist(h, status)
           \/ Head(req[r].todo).phase = "post" /\ UNCHANGED hooks
    /\ Returns(r)
    /\ UNCHANGED <<box, boxPhase, made, labelled, meta, excused, edits, boxCrashes>>

-----------------------------------------------------------------------------
(* The gateway, people who use it directly, and crashes of the server. *)

PhaseChanges ==
    /\ boxPhase = "provisioning"
    /\ boxPhase' \in {"ready", "error"}
    /\ UNCHANGED <<box, made, labelled, meta, hooks, req, excused, edits, boxCrashes>>

DeletedOutside ==
    /\ box # 0
    /\ box' = 0 /\ boxPhase' = "none" /\ labelled' = FALSE
    /\ excused' = (excused \/ meta # 0)
    /\ UNCHANGED <<made, meta, hooks, req, edits, boxCrashes>>

CutShort(r) == \/ req[r].pc = "label" /\ req[r].labels
               \/ req[r].pc = "unlabel" /\ meta # 0
ServerCrash ==
    /\ boxCrashes < MaxBoxCrashes
    /\ boxCrashes' = boxCrashes + 1
    /\ req' = [r \in Requests |-> NoRequest]
    /\ excused' = (excused \/ \E r \in Requests : CutShort(r))
    /\ UNCHANGED <<box, boxPhase, made, labelled, meta, hooks, edits>>

SandboxInit ==
    /\ box = 0 /\ boxPhase = "none" /\ made = 0 /\ labelled = FALSE /\ meta = 0
    /\ \E given \in SUBSET Hooks, phase \in {"pre", "post"}, goOn \in BOOLEAN :
        hooks = [h \in Hooks |-> IF h \notin given THEN NoHook
                                ELSE [phase |-> phase, order |-> h, enabled |-> TRUE, goOn |-> goOn, last |-> "never"]]
    /\ edits \in 0..MaxEdits
    /\ req = [r \in Requests |-> NoRequest]
    /\ excused = FALSE /\ boxCrashes = 0

SandboxNext ==
    \/ \E r \in Requests :
        \/ CreateStarts(r) \/ PreListed(r) \/ PreSucceeds(r) \/ PreFails(r) \/ PreEnds(r)
        \/ Made(r) \/ MadeReplyLost(r) \/ MakeUnavailable(r) \/ MakeRefused(r) \/ Labels(r)
        \/ WaitEnds(r) \/ PresetsApplied(r) \/ PostStarts(r) \/ PostExits(r) \/ PostRaises(r) \/ PostEnds(r)
        \/ DeleteStarts(r) \/ Deleted(r) \/ DeletedReplyLost(r) \/ DeleteUnavailable(r) \/ NothingDeleted(r)
        \/ DeleteUnlabels(r) \/ DeleteUnhooks(r) \/ UpdateChecks(r) \/ UpdateWrites(r)
        \/ ReorderReads(r) \/ ReorderWrites(r) \/ RunStarts(r) \/ RunEnds(r)
    \/ \E h \in Hooks : HookCreated(h) \/ HookUpdated(h) \/ HookDeleted(h)
    \/ PhaseChanges \/ DeletedOutside \/ ServerCrash

SandboxSpec == SandboxInit /\ [][SandboxNext]_sandboxVars

-----------------------------------------------------------------------------
(* A sandbox is made by a call that did not skip the hooks, although a      *)
(* pre-create hook that was a gate from the beginning of the call to this   *)
(* moment has not run for it, or has not succeeded.                         *)
MakesUngated(r) == /\ Made(r) \/ MadeReplyLost(r)
                   /\ ~req[r].skip
                   /\ ~(req[r].throughout \subseteq req[r].ran)
Ungated == \E r \in Requests : MakesUngated(r)

AllIdle == \A r \in Requests : req[r].pc = "idle"
LabelsFit == AllIdle /\ ~excused => meta = IF labelled THEN box ELSE 0

(* No sandbox is made past a pre-create hook that owed it a run, however    *)
(* the hooks were edited, reordered or run by hand before and meanwhile     *)
(* (run_pre_create).  It says nothing of a hook that was off, or marked     *)
(* continue_on_failure, for a moment of the call: the guide lets a creation *)
(* go on when one that is marked fails (docs/guides/boot-hooks.md:32-34),   *)
(* but run_pre_create does not look at the mark and ends it (PreFails).     *)
(* And when no call is in progress, the labels are the ones given to the    *)
(* present sandbox: there are none of an earlier one, and none is missing.  *)
(* The only exceptions: the server stopped, or a reply was lost, between    *)
(* the gateway's step and the one for the labels; the sandbox was deleted   *)
(* behind the server's back; or a call wrote or deleted labels by the name  *)
(* when it had changed hands (SandboxService.create, delete,                *)
(* update_metadata).                                                        *)
SandboxHolds == []LabelsFit /\ [][~Ungated]_sandboxVars
=============================================================================
