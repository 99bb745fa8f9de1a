------------------------------ MODULE Webhooks ------------------------------
(***************************************************************************)
(* Webhook delivery (services/webhooks.py, api/routes/webhooks.py).        *)
(*                                                                         *)
(* An event is fired in the request that caused it: the active webhooks    *)
(* are read, and each gets a delivery row and a task, one after the other. *)
(* A task posts, retries what may pass, and writes the outcome into its    *)
(* row.  Tasks live in memory only.  A delivery is known by its event and  *)
(* its webhook.  Every webhook subscribes to every event here.             *)
(***************************************************************************)
EXTENDS Naturals, FiniteSets

CONSTANTS
  Events,      \* events, each fired once
  Hooks,       \* webhooks
  OneShot,     \* those on a channel without retries: e-mail, MQTT, web push
  MaxAttempts, \* one more than the retry delays
  MaxTroubles  \* bound on what is not a step of an event or a task

ASSUME HookAssumption    == OneShot \subseteq Hooks
ASSUME EventAssumption   == IsFiniteSet(Events) /\ IsFiniteSet(Hooks)
ASSUME AttemptAssumption == MaxAttempts \in Nat \ {0} /\ MaxTroubles \in Nat

VARIABLES
  hook,     \* the webhook rows
  event,    \* the requests that fire: where they are, which targets are left
  row,      \* the webhook_deliveries rows
  sender,   \* the delivery tasks
  got,      \* history: how often the target took the message
  lost,     \* history: how often it did so and its answer did not arrive
  troubles  \* bound counter

webhookVars == <<hook, event, row, sender, got, lost, troubles>>

Delivery == Events \X Hooks

EventPc == {"new", "creating", "fired", "broken"}
RowState == {"none", "pending", "success", "failed", "removed"}
\* An abandoned task ended without writing an outcome.
SenderPc == {"none", "post", "sleep", "settle", "over", "abandoned"}
Verdict == {"none", "success", "failed"}

WebhookInit ==
  /\ hook \in [Hooks -> {"absent", "active"}]
  /\ event = [e \in Events |-> [pc |-> "new", todo |-> {}]]
  /\ row = [d \in Delivery |-> "none"]
  /\ sender = [d \in Delivery |-> [pc |-> "none", attempt |-> 1, verdict |-> "none"]]
  /\ got = [d \in Delivery |-> 0]
  /\ lost = [d \in Delivery |-> 0]
  /\ troubles = 0

Trouble == troubles < MaxTroubles /\ troubles' = troubles + 1

-----------------------------------------------------------------------------
(* Firing: fire, and fire_to for a single webhook.                         *)

ActiveHooks == {h \in Hooks : hook[h] = "active"}

Fire(e) ==
  /\ event[e].pc = "new"
  /\ event' = [event EXCEPT ![e] = [pc |-> "creating", todo |-> ActiveHooks]]
  /\ UNCHANGED <<hook, row, sender, got, lost, troubles>>

FireTo(e, h) ==
  /\ event[e].pc = "new"
  /\ event' = [event EXCEPT ![e] =
       IF h \in ActiveHooks THEN [pc |-> "creating", todo |-> {h}]
       ELSE [pc |-> "fired", todo |-> {}]]
  /\ UNCHANGED <<hook, row, sender, got, lost, troubles>>

(***************************************************************************)
(* The next row and its task.  The row of a webhook that was deleted since *)
(* the reading cannot be inserted, and the exception ends the loop.        *)
(***************************************************************************)
HookThere(h) == hook[h] \in {"active", "paused"}

CreateDelivery(e, h) ==
  /\ event[e].pc = "creating" /\ h \in event[e].todo
  /\ IF HookThere(h)
       THEN /\ event' = [event EXCEPT ![e].todo = @ \ {h}]
            /\ row' = [row EXCEPT ![<<e, h>>] = "pending"]
            /\ sender' = [sender EXCEPT ![<<e, h>>].pc = "post"]
       ELSE /\ event' = [event EXCEPT ![e].pc = "broken"]
            /\ UNCHANGED <<row, sender>>
  /\ UNCHANGED <<hook, got, lost, troubles>>

Fired(e) ==
  /\ event[e].pc = "creating" /\ event[e].todo = {}
  /\ event' = [event EXCEPT ![e].pc = "fired"]
  /\ UNCHANGED <<hook, row, sender, got, lost, troubles>>

-----------------------------------------------------------------------------
(* The task of a delivery.                                                 *)

At(d, pc) == sender[d].pc = pc
Settles(d, verdict) == sender' = [sender EXCEPT ![d].pc = "settle", ![d].verdict = verdict]

\* Mutant of Retries: running out of attempts counts as a success.
RetriesAnyway(d) ==
  IF sender[d].attempt < MaxAttempts
    THEN sender' = [sender EXCEPT ![d].pc = "sleep"]
    ELSE Settles(d, "success")

\* Mutant of Retries: one attempt more than the delays allow.
RetriesOnceMore(d) ==
  IF sender[d].attempt <= MaxAttempts
    THEN sender' = [sender EXCEPT ![d].pc = "sleep"]
    ELSE Settles(d, "failed")

\* After a 5xx, a time-out or a failed connection.
Retries(d) ==
  IF sender[d].attempt < MaxAttempts
    THEN sender' = [sender EXCEPT ![d].pc = "sleep"]
    ELSE Settles(d, "failed")

Taken(d, answered) ==
  /\ got' = [got EXCEPT ![d] = @ + 1]
  /\ lost' = IF answered THEN lost ELSE [lost EXCEPT ![d] = @ + 1]

NotTaken == UNCHANGED <<got, lost>>

\* At the target of a channel with retries.
AtPost(d) == At(d, "post") /\ d[2] \notin OneShot

\* Mutant of PostAccepted: an answer other than 200 is taken for a failure.
AcceptedRetried(d) ==
  /\ AtPost(d)
  /\ Taken(d, TRUE) /\ (Settles(d, "success") \/ Retries(d))
  /\ UNCHANGED <<hook, event, row, troubles>>

PostAccepted(d) ==
  /\ AtPost(d)
  /\ Taken(d, TRUE) /\ Settles(d, "success")
  /\ UNCHANGED <<hook, event, row, troubles>>

\* A 4xx, or a target that resolves to a private address.
PostRefused(d) ==
  /\ AtPost(d)
  /\ NotTaken /\ Settles(d, "failed")
  /\ UNCHANGED <<hook, event, row, troubles>>

PostFails(d) ==
  /\ AtPost(d)
  /\ NotTaken \/ Taken(d, FALSE)
  /\ Retries(d)
  /\ UNCHANGED <<hook, event, row, troubles>>

(***************************************************************************)
(* A connection that breaks after it was made, or a malformed answer, is   *)
(* none of the exceptions the HTTP channels catch: the task dies.          *)
(***************************************************************************)
PostRaises(d) ==
  /\ AtPost(d)
  /\ NotTaken \/ Taken(d, FALSE)
  /\ sender' = [sender EXCEPT ![d].pc = "abandoned"]
  /\ UNCHANGED <<hook, event, row, troubles>>

(***************************************************************************)
(* E-mail, MQTT and web push: one attempt, and any exception ends it.  Web *)
(* push counts as one target, and an exception after its sends, from the   *)
(* pruning, as a lost answer.                                              *)
(***************************************************************************)
SendOnce(d) ==
  /\ At(d, "post") /\ d[2] \in OneShot
  /\ \/ Taken(d, TRUE) /\ Settles(d, "success")
     \/ (NotTaken \/ Taken(d, FALSE)) /\ Settles(d, "failed")
  /\ UNCHANGED <<hook, event, row, troubles>>

\* Mutant of Wakes: the delays are counted from one.
WakesEarly(d) ==
  /\ At(d, "sleep") /\ sender[d].attempt + 1 < MaxAttempts
  /\ sender' = [sender EXCEPT ![d].pc = "post", ![d].attempt = @ + 1]
  /\ UNCHANGED <<hook, event, row, got, lost, troubles>>

Wakes(d) ==
  /\ At(d, "sleep")
  /\ sender' = [sender EXCEPT ![d].pc = "post", ![d].attempt = @ + 1]
  /\ UNCHANGED <<hook, event, row, got, lost, troubles>>

Updated(d) == IF row[d] = "pending" THEN [row EXCEPT ![d] = sender[d].verdict] ELSE row

Settle(d) ==
  /\ At(d, "settle")
  /\ row' = Updated(d)
  /\ sender' = [sender EXCEPT ![d].pc = "over"]
  /\ UNCHANGED <<hook, event, got, lost, troubles>>

\* The database fails; the error is logged and the outcome forgotten.
SettleFails(d) ==
  /\ At(d, "settle")
  /\ Trouble
  /\ sender' = [sender EXCEPT ![d].pc = "abandoned"]
  /\ UNCHANGED <<hook, event, row, got, lost>>

-----------------------------------------------------------------------------
(* The webhooks, the clean-up and the end of the process.                  *)

CreateHook(h) ==
  /\ Trouble
  /\ hook[h] = "absent"
  /\ hook' = [hook EXCEPT ![h] = "active"]
  /\ UNCHANGED <<event, row, sender, got, lost>>

UpdateHook(h) ==
  /\ Trouble
  /\ HookThere(h)
  /\ hook' = [hook EXCEPT ![h] = IF @ = "active" THEN "paused" ELSE "active"]
  /\ UNCHANGED <<event, row, sender, got, lost>>

HookGone(status) == IF status = "none" THEN "none" ELSE "removed"

\* The deliveries go with their webhook; their tasks do not.
DeleteHook(h) ==
  /\ Trouble
  /\ HookThere(h)
  /\ hook' = [hook EXCEPT ![h] = "deleted"]
  /\ row' = [d \in Delivery |-> IF d[2] = h THEN HookGone(row[d]) ELSE row[d]]
  /\ UNCHANGED <<event, sender, got, lost>>

\* Rows of an age no task reaches, whatever they say.
Cleanup ==
  /\ Trouble
  /\ \E old \in SUBSET {d \in Delivery : sender[d].pc \in {"over", "abandoned"}} :
       /\ old # {}
       /\ row' = [d \in Delivery |-> IF d \in old THEN HookGone(row[d]) ELSE row[d]]
  /\ UNCHANGED <<hook, event, sender, got, lost>>

\* shutdown cancels the tasks where they are; a crash does no less.
StopSending ==
  /\ Trouble
  /\ sender' = [d \in Delivery |->
       IF sender[d].pc \in {"post", "sleep", "settle"}
         THEN [sender[d] EXCEPT !.pc = "abandoned"] ELSE sender[d]]
  /\ event' = [e \in Events |->
       IF event[e].pc = "creating" THEN [event[e] EXCEPT !.pc = "broken"] ELSE event[e]]
  /\ \E took \in SUBSET {d \in Delivery : At(d, "post")} :
       /\ got' = [d \in Delivery |-> IF d \in took THEN got[d] + 1 ELSE got[d]]
       /\ lost' = [d \in Delivery |-> IF d \in took THEN lost[d] + 1 ELSE lost[d]]
  /\ UNCHANGED <<hook, row>>

EventStep(e) == Fired(e) \/ \E h \in Hooks : CreateDelivery(e, h)

SenderStep(d) ==
  \/ PostAccepted(d)
  \/ PostRefused(d)
  \/ PostFails(d)
  \/ PostRaises(d)
  \/ SendOnce(d)
  \/ Wakes(d)
  \/ Settle(d)
  \/ SettleFails(d)

WebhookNext ==
  \/ \E e \in Events : Fire(e) \/ EventStep(e)
  \/ \E e \in Events, h \in Hooks : FireTo(e, h)
  \/ \E d \in Delivery : SenderStep(d)
  \/ \E h \in Hooks : CreateHook(h) \/ UpdateHook(h) \/ DeleteHook(h)
  \/ Cleanup
  \/ StopSending

WebhookSpec == WebhookInit /\ [][WebhookNext]_webhookVars

\* The event loop goes on running what can run: a post has a time-out, a
\* sleep ends.
WebhookFairness ==
  /\ \A e \in Events : WF_webhookVars(EventStep(e))
  /\ \A d \in Delivery : WF_webhookVars(SenderStep(d))

-----------------------------------------------------------------------------
WebhookTypeOK ==
  /\ hook \in [Hooks -> {"absent", "active", "paused", "deleted"}]
  /\ event \in [Events -> [pc: EventPc, todo: SUBSET Hooks]]
  /\ row \in [Delivery -> RowState]
  /\ sender \in [Delivery -> [pc: SenderPc, attempt: 1 .. MaxAttempts, verdict: Verdict]]
  /\ got \in [Delivery -> Nat]
  /\ lost \in [Delivery -> Nat]
  /\ troubles \in 0 .. MaxTroubles

(***************************************************************************)
(* The target takes a message once, and once more for every answer that    *)
(* was lost: nothing is posted again after an answer.                      *)
(***************************************************************************)
TakenOnce == \A d \in Delivery : got[d] <= lost[d] + 1

(***************************************************************************)
(* What a row says is true: a success was taken by the target, a failure   *)
(* was not, unless an answer was lost, and what is pending is at work or   *)
(* its task was lost.                                                      *)
(***************************************************************************)
RowsTell ==
  \A d \in Delivery :
    /\ row[d] = "success" => got[d] > 0
    /\ row[d] = "failed"  => got[d] = lost[d]
    /\ row[d] = "pending" => sender[d].pc \in {"post", "sleep", "settle", "abandoned"}

(***************************************************************************)
(* A delivery whose task is not lost ends with an outcome, or its row is   *)
(* removed.                                                                *)
(***************************************************************************)
DeliveriesEnd ==
  \A d \in Delivery :
    row[d] = "pending" ~> row[d] # "pending" \/ sender[d].pc = "abandoned"

=============================================================================
