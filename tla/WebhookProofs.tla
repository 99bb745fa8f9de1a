---------------------------- MODULE WebhookProofs ----------------------------
(***************************************************************************)
(* Theorems about what the server goes on with in the background, without  *)
(* the bounds of the run: how often a target takes a message and what the  *)
(* row of a delivery says of it (Webhooks), what the readiness probe says  *)
(* of a task (Supervisor), what a viewer is sent (Streams), and that       *)
(* servers come up whole and go down in order (Startup).                   *)
(***************************************************************************)
EXTENDS Webhooks, Supervisor, Streams, Startup, FiniteSetTheorems, TLAPS

UnderWay == {"post", "sleep", "settle"}

(***************************************************************************)
(* A task that is still to post has taken part in nothing but lost         *)
(* answers; one about to settle knows whether the last was an answer.      *)
(***************************************************************************)
Counted(s, g, l) ==
  /\ g <= l + 1
  /\ s.pc \in {"none", "post", "sleep"} => g = l
  /\ s.pc = "settle" /\ s.verdict = "success" => g = l + 1
  /\ s.pc = "settle" /\ s.verdict = "failed" => g = l

\* The row and the task of a delivery belong together.
Paired(s, w) ==
  /\ w = "none" <=> s.pc = "none"
  /\ s.pc \in UnderWay => w \in {"pending", "removed"}
  /\ w = "pending" => s.pc \in UnderWay \union {"abandoned"}
  /\ w \in {"success", "failed"} => s.pc = "over"
  /\ s.pc = "settle" => s.verdict \in {"success", "failed"}
  /\ s.pc = "sleep" => s.attempt < MaxAttempts

Told(w, g, l) ==
  /\ w = "success" => g > 0
  /\ w = "failed" => g = l

Sound(d) ==
  Counted(sender[d], got[d], lost[d]) /\ Paired(sender[d], row[d]) /\ Told(row[d], got[d], lost[d])

\* What an event has still to create is not there yet.
Fresh ==
  \A e \in Events, h \in Hooks :
    event[e].pc = "new" \/ (event[e].pc = "creating" /\ h \in event[e].todo) => row[<<e, h>>] = "none"

DeliveryInv == WebhookTypeOK /\ Fresh /\ \A d \in Delivery : Sound(d)

Same(d) == sender'[d] = sender[d] /\ got'[d] = got[d] /\ lost'[d] = lost[d] /\ row'[d] = row[d]

LEMMA SameSound == ASSUME NEW d \in Delivery, Sound(d), Same(d) PROVE Sound(d)'
BY DEF Same, Sound

-----------------------------------------------------------------------------
LEMMA DeliveryInit == WebhookInit => DeliveryInv
<1> SUFFICES ASSUME WebhookInit PROVE DeliveryInv
  OBVIOUS
<1> USE DEF WebhookInit
<1>1. WebhookTypeOK
  BY AttemptAssumption DEF WebhookTypeOK, EventPc, RowState, SenderPc, Verdict
<1>2. Fresh
  BY DEF Fresh, Delivery
<1>3. \A d \in Delivery : Sound(d)
  BY DEF Sound, Counted, Paired, Told, UnderWay
<1> QED BY <1>1, <1>2, <1>3 DEF DeliveryInv

\* A step of one task that leaves the others, the events and the webhooks alone.
LEMMA OneStep ==
  ASSUME DeliveryInv, WebhookTypeOK', NEW d \in Delivery, event' = event,
         \A x \in Delivery : x # d => Same(x),
         Sound(d)', row[d] # "none" => row'[d] # "none", row[d] = "none" => row'[d] = "none"
  PROVE  DeliveryInv'
<1>1. \A x \in Delivery : Sound(x)'
  BY SameSound DEF DeliveryInv
<1>2. Fresh'
  <2> SUFFICES ASSUME NEW e \in Events, NEW h \in Hooks, row[<<e, h>>] = "none"
               PROVE  row'[<<e, h>>] = "none"
    BY DEF Fresh, DeliveryInv
  <2>1. <<e, h>> \in Delivery
    BY DEF Delivery
  <2> QED BY <2>1 DEF Same
<1> QED BY <1>1, <1>2 DEF DeliveryInv

\* How a task goes on.
LEMMA Settled ==
  ASSUME WebhookTypeOK, NEW d \in Delivery, NEW v \in {"success", "failed"}, Settles(d, v)
  PROVE  /\ sender' \in [Delivery -> [pc: SenderPc, attempt: 1 .. MaxAttempts, verdict: Verdict]]
         /\ sender'[d].pc = "settle" /\ sender'[d].verdict = v
         /\ \A x \in Delivery : x # d => sender'[x] = sender[x]
<1> DEFINE s == [sender[d] EXCEPT !.pc = "settle", !.verdict = v]
<1>1. /\ s \in [pc: SenderPc, attempt: 1 .. MaxAttempts, verdict: Verdict]
      /\ s.pc = "settle" /\ s.verdict = v
  BY DEF WebhookTypeOK, SenderPc, Verdict
<1>2. sender' = [sender EXCEPT ![d] = s]
  BY DEF Settles, WebhookTypeOK
<1> HIDE DEF s
<1> QED BY <1>1, <1>2 DEF WebhookTypeOK

LEMMA Retried ==
  ASSUME WebhookTypeOK, NEW d \in Delivery, Retries(d)
  PROVE  /\ sender' \in [Delivery -> [pc: SenderPc, attempt: 1 .. MaxAttempts, verdict: Verdict]]
         /\ \/ sender'[d].pc = "sleep" /\ sender'[d].attempt < MaxAttempts
            \/ sender'[d].pc = "settle" /\ sender'[d].verdict = "failed"
         /\ \A x \in Delivery : x # d => sender'[x] = sender[x]
<1>1. CASE Settles(d, "failed")
  BY <1>1, Settled
<1>2. CASE sender[d].attempt < MaxAttempts /\ sender' = [sender EXCEPT ![d].pc = "sleep"]
  <2> DEFINE s == [sender[d] EXCEPT !.pc = "sleep"]
  <2>1. /\ s \in [pc: SenderPc, attempt: 1 .. MaxAttempts, verdict: Verdict]
        /\ s.pc = "sleep" /\ s.attempt < MaxAttempts
    BY <1>2 DEF WebhookTypeOK, SenderPc
  <2>2. sender' = [sender EXCEPT ![d] = s]
    BY <1>2 DEF WebhookTypeOK
  <2> HIDE DEF s
  <2> QED BY <2>1, <2>2 DEF WebhookTypeOK
<1> QED BY <1>1, <1>2 DEF Retries

LEMMA Moved ==
  ASSUME WebhookTypeOK, NEW d \in Delivery, NEW pc \in SenderPc, sender' = [sender EXCEPT ![d].pc = pc]
  PROVE  /\ sender' \in [Delivery -> [pc: SenderPc, attempt: 1 .. MaxAttempts, verdict: Verdict]]
         /\ sender'[d].pc = pc
         /\ \A x \in Delivery : x # d => sender'[x] = sender[x]
<1> DEFINE s == [sender[d] EXCEPT !.pc = pc]
<1>1. s \in [pc: SenderPc, attempt: 1 .. MaxAttempts, verdict: Verdict] /\ s.pc = pc
  BY DEF WebhookTypeOK
<1>2. sender' = [sender EXCEPT ![d] = s]
  BY DEF WebhookTypeOK
<1> HIDE DEF s
<1> QED BY <1>1, <1>2 DEF WebhookTypeOK

LEMMA TakenCounts ==
  ASSUME WebhookTypeOK, NEW d \in Delivery, NEW answered \in BOOLEAN, Taken(d, answered)
  PROVE  /\ got' \in [Delivery -> Nat] /\ lost' \in [Delivery -> Nat]
         /\ got'[d] = got[d] + 1
         /\ answered => lost'[d] = lost[d]
         /\ ~ answered => lost'[d] = lost[d] + 1
         /\ \A x \in Delivery : x # d => got'[x] = got[x] /\ lost'[x] = lost[x]
BY DEF Taken, WebhookTypeOK

\* A task at its target: afterwards nobody knows less, and an answer settles it.
LEMMA Posted ==
  ASSUME DeliveryInv, NEW d \in Delivery, At(d, "post"), UNCHANGED <<hook, event, row, troubles>>,
         \/ Taken(d, TRUE) /\ Settles(d, "success")
         \/ (NotTaken \/ Taken(d, FALSE)) /\ (Settles(d, "failed") \/ Retries(d))
         \/ (NotTaken \/ Taken(d, FALSE)) /\ sender' = [sender EXCEPT ![d].pc = "abandoned"]
  PROVE  DeliveryInv'
<1>1. /\ WebhookTypeOK /\ Sound(d) /\ row[d] \in {"pending", "removed"} /\ got[d] = lost[d]
      /\ got[d] \in Nat /\ lost[d] \in Nat
  BY DEF DeliveryInv, Sound, Paired, Counted, At, UnderWay, WebhookTypeOK
<1>2. /\ got' \in [Delivery -> Nat] /\ lost' \in [Delivery -> Nat]
      /\ \A x \in Delivery : x # d => got'[x] = got[x] /\ lost'[x] = lost[x]
      /\ got'[d] = lost'[d] \/ (got'[d] = lost'[d] + 1 /\ Settles(d, "success"))
      /\ Settles(d, "success") => got'[d] = lost'[d] + 1
  <2>1. CASE Taken(d, TRUE) /\ Settles(d, "success")
    BY <1>1, <2>1, TakenCounts
  <2>2. CASE NotTaken \/ Taken(d, FALSE)
    <3>1. ~ Settles(d, "success") \/ (Taken(d, TRUE) /\ Settles(d, "success"))
      <4>1. Settles(d, "failed") => sender'[d].verdict = "failed"
        BY <1>1, Settled
      <4>2. Settles(d, "success") => sender'[d].verdict = "success" /\ sender'[d].pc = "settle"
        BY <1>1, Settled
      <4>3. Retries(d) => sender'[d].pc = "sleep" \/ sender'[d].verdict = "failed"
        BY <1>1, Retried
      <4>4. sender' = [sender EXCEPT ![d].pc = "abandoned"] => sender'[d].pc = "abandoned"
        BY <1>1, Moved DEF SenderPc
      <4> QED BY <4>1, <4>2, <4>3, <4>4
    <3>2. CASE NotTaken
      BY <1>1, <2>1, <3>1, <3>2 DEF NotTaken, WebhookTypeOK
    <3>3. CASE Taken(d, FALSE)
      BY <1>1, <2>1, <3>1, <3>3, TakenCounts
    <3> QED BY <2>2, <3>2, <3>3
  <2> QED BY <2>1, <2>2
<1>3. /\ sender' \in [Delivery -> [pc: SenderPc, attempt: 1 .. MaxAttempts, verdict: Verdict]]
      /\ \A x \in Delivery : x # d => sender'[x] = sender[x]
      /\ \/ Settles(d, "success") /\ sender'[d].pc = "settle" /\ sender'[d].verdict = "success"
         \/ ~ Settles(d, "success") /\ sender'[d].pc = "settle" /\ sender'[d].verdict = "failed"
         \/ ~ Settles(d, "success") /\ sender'[d].pc = "sleep" /\ sender'[d].attempt < MaxAttempts
         \/ ~ Settles(d, "success") /\ sender'[d].pc = "abandoned"
  <2>1. Settles(d, "success") => sender'[d].pc = "settle" /\ sender'[d].verdict = "success"
    BY <1>1, Settled
  <2>2. CASE Settles(d, "success") \/ Settles(d, "failed")
    BY <1>1, <2>1, <2>2, Settled
  <2>3. CASE Retries(d)
    BY <1>1, <2>1, <2>3, Retried
  <2>4. CASE sender' = [sender EXCEPT ![d].pc = "abandoned"]
    BY <1>1, <2>1, <2>4, Moved DEF SenderPc
  <2> QED BY <2>2, <2>3, <2>4
<1>4. WebhookTypeOK'
  BY <1>1, <1>2, <1>3 DEF WebhookTypeOK
<1>5. \A x \in Delivery : x # d => Same(x)
  BY <1>2, <1>3 DEF Same
<1>6. Sound(d)'
  <2>1. Counted(sender'[d], got'[d], lost'[d])
    BY <1>2, <1>3 DEF Counted
  <2>2. Paired(sender'[d], row'[d])
    BY <1>1, <1>3 DEF Paired, UnderWay
  <2>3. Told(row'[d], got'[d], lost'[d])
    BY <1>1 DEF Told
  <2> QED BY <2>1, <2>2, <2>3 DEF Sound
<1> QED BY <1>4, <1>5, <1>6, OneStep

LEMMA SenderSteps == ASSUME DeliveryInv, NEW d \in Delivery, SenderStep(d) PROVE DeliveryInv'
<1>t. WebhookTypeOK /\ Sound(d)
  BY DEF DeliveryInv
<1>1. CASE PostAccepted(d) \/ PostRefused(d) \/ PostFails(d) \/ PostRaises(d) \/ SendOnce(d)
  <2>1. /\ At(d, "post") /\ UNCHANGED <<hook, event, row, troubles>>
        /\ \/ Taken(d, TRUE) /\ Settles(d, "success")
           \/ (NotTaken \/ Taken(d, FALSE)) /\ (Settles(d, "failed") \/ Retries(d))
           \/ (NotTaken \/ Taken(d, FALSE)) /\ sender' = [sender EXCEPT ![d].pc = "abandoned"]
    BY <1>1 DEF PostAccepted, PostRefused, PostFails, PostRaises, SendOnce, AtPost
  <2> QED BY <2>1, Posted
<1>2. CASE Wakes(d)
  <2> DEFINE n == sender[d].attempt + 1
             s == [sender[d] EXCEPT !.pc = "post", !.attempt = n]
  <2>1. sender[d].attempt < MaxAttempts /\ sender[d].pc = "sleep"
    BY <1>2, <1>t DEF Wakes, At, Sound, Paired
  <2>a. n \in 1 .. MaxAttempts
    <3>1. sender[d].attempt \in 1 .. MaxAttempts
      BY <1>t DEF WebhookTypeOK
    <3> QED BY <2>1, <3>1, AttemptAssumption
  <2>3. sender' = [sender EXCEPT ![d] = s]
    BY <1>2, <1>t DEF Wakes, WebhookTypeOK
  <2> HIDE DEF n
  <2>2. s \in [pc: SenderPc, attempt: 1 .. MaxAttempts, verdict: Verdict] /\ s.pc = "post"
    BY <2>a, <1>t DEF WebhookTypeOK, SenderPc
  <2> HIDE DEF s
  <2>4. WebhookTypeOK'
    BY <1>2, <1>t, <2>2, <2>3 DEF Wakes, WebhookTypeOK
  <2>5. sender'[d] = s /\ \A x \in Delivery : x # d => sender'[x] = sender[x]
    BY <1>t, <2>3 DEF WebhookTypeOK
  <2>6. Sound(d)'
    BY <1>2, <1>t, <2>1, <2>2, <2>5 DEF Wakes, Sound, Counted, Paired, Told, UnderWay
  <2> QED BY <1>2, <2>4, <2>5, <2>6, OneStep DEF Wakes, Same
<1>3. CASE Settle(d)
  <2>1. /\ sender' \in [Delivery -> [pc: SenderPc, attempt: 1 .. MaxAttempts, verdict: Verdict]]
        /\ sender'[d].pc = "over" /\ \A x \in Delivery : x # d => sender'[x] = sender[x]
    BY <1>3, <1>t, Moved DEF Settle, SenderPc
  <2>2. /\ row[d] \in {"pending", "removed"} /\ sender[d].verdict \in {"success", "failed"}
        /\ sender[d].pc = "settle"
    BY <1>3, <1>t DEF Settle, At, Sound, Paired, UnderWay
  <2>3. /\ row' \in [Delivery -> RowState]
        /\ row'[d] = IF row[d] = "pending" THEN sender[d].verdict ELSE row[d]
        /\ \A x \in Delivery : x # d => row'[x] = row[x]
    BY <1>3, <1>t, <2>2 DEF Settle, Updated, WebhookTypeOK, RowState
  <2>4. WebhookTypeOK'
    BY <1>3, <1>t, <2>1, <2>3 DEF Settle, WebhookTypeOK
  <2>5. Sound(d)'
    <3>1. got[d] \in Nat /\ lost[d] \in Nat /\ got'[d] = got[d] /\ lost'[d] = lost[d]
      BY <1>3, <1>t DEF Settle, WebhookTypeOK
    <3>2. Counted(sender'[d], got'[d], lost'[d])
      BY <1>t, <2>1, <2>2, <3>1 DEF Sound, Counted
    <3>3. Paired(sender'[d], row'[d])
      BY <2>1, <2>2, <2>3 DEF Paired, UnderWay
    <3>4. Told(row'[d], got'[d], lost'[d])
      BY <1>t, <2>2, <2>3, <3>1 DEF Sound, Counted, Told
    <3> QED BY <3>2, <3>3, <3>4 DEF Sound
  <2> QED BY <1>3, <2>1, <2>2, <2>3, <2>4, <2>5, OneStep DEF Settle, Same
<1>4. CASE SettleFails(d)
  <2>1. /\ sender' \in [Delivery -> [pc: SenderPc, attempt: 1 .. MaxAttempts, verdict: Verdict]]
        /\ sender'[d].pc = "abandoned" /\ \A x \in Delivery : x # d => sender'[x] = sender[x]
    BY <1>4, <1>t, Moved DEF SettleFails, SenderPc
  <2>2. row[d] \in {"pending", "removed"} /\ UNCHANGED <<hook, event, row, got, lost>>
    BY <1>4, <1>t DEF SettleFails, At, Sound, Paired, UnderWay
  <2>3. WebhookTypeOK'
    BY <1>4, <1>t, <2>1, <2>2, AttemptAssumption DEF SettleFails, Trouble, WebhookTypeOK
  <2>4. Sound(d)'
    BY <1>t, <2>1, <2>2 DEF Sound, Counted, Paired, Told, UnderWay
  <2> QED BY <2>1, <2>2, <2>3, <2>4, OneStep DEF Same
<1> QED BY <1>1, <1>2, <1>3, <1>4 DEF SenderStep

-----------------------------------------------------------------------------
\* Steps of the events: only a delivery that is not there yet is created.
LEMMA EventSteps ==
  ASSUME DeliveryInv, NEW e \in Events, Fire(e) \/ EventStep(e) \/ \E h \in Hooks : FireTo(e, h)
  PROVE  DeliveryInv'
<1> USE DEF DeliveryInv
<1>1. ASSUME UNCHANGED <<hook, row, sender, got, lost, troubles>>, NEW v,
             event' = [event EXCEPT ![e] = v], v \in [pc: EventPc, todo: SUBSET Hooks], v.pc # "new",
             \/ event[e].pc = "new"
             \/ v.pc # "creating"
      PROVE  DeliveryInv'
  <2>1. WebhookTypeOK'
    BY <1>1 DEF WebhookTypeOK
  <2>2. Fresh'
    BY <1>1 DEF Fresh, WebhookTypeOK
  <2>3. \A d \in Delivery : Sound(d)'
    BY <1>1 DEF Sound
  <2> QED BY <2>1, <2>2, <2>3
<1>2. CASE Fire(e)
  <2> DEFINE v == [pc |-> "creating", todo |-> ActiveHooks]
  <2>1. v \in [pc: EventPc, todo: SUBSET Hooks] /\ v.pc = "creating"
    BY DEF ActiveHooks, EventPc
  <2>2. event' = [event EXCEPT ![e] = v] /\ event[e].pc = "new" /\ UNCHANGED <<hook, row, sender, got, lost, troubles>>
    BY <1>2 DEF Fire
  <2> HIDE DEF v
  <2> QED BY <1>1, <2>1, <2>2
<1>3. ASSUME NEW h \in Hooks, FireTo(e, h) PROVE DeliveryInv'
  <2> DEFINE v == IF h \in ActiveHooks THEN [pc |-> "creating", todo |-> {h}] ELSE [pc |-> "fired", todo |-> {}]
  <2>1. v \in [pc: EventPc, todo: SUBSET Hooks] /\ v.pc # "new"
    BY DEF EventPc
  <2>2. event' = [event EXCEPT ![e] = v] /\ event[e].pc = "new" /\ UNCHANGED <<hook, row, sender, got, lost, troubles>>
    BY <1>3 DEF FireTo
  <2> HIDE DEF v
  <2> QED BY <1>1, <2>1, <2>2
<1>4. CASE Fired(e)
  <2> DEFINE v == [event[e] EXCEPT !.pc = "fired"]
  <2>1. v \in [pc: EventPc, todo: SUBSET Hooks] /\ v.pc = "fired"
    BY DEF EventPc, WebhookTypeOK
  <2>2. event' = [event EXCEPT ![e] = v] /\ UNCHANGED <<hook, row, sender, got, lost, troubles>>
    BY <1>4 DEF Fired, WebhookTypeOK
  <2> HIDE DEF v
  <2> QED BY <1>1, <2>1, <2>2
<1>5. ASSUME NEW h \in Hooks, CreateDelivery(e, h) PROVE DeliveryInv'
  <2>1. CASE ~ HookThere(h)
    <3> DEFINE v == [event[e] EXCEPT !.pc = "broken"]
    <3>1. v \in [pc: EventPc, todo: SUBSET Hooks] /\ v.pc = "broken"
      BY DEF EventPc, WebhookTypeOK
    <3>2. event' = [event EXCEPT ![e] = v] /\ UNCHANGED <<hook, row, sender, got, lost, troubles>>
      BY <1>5, <2>1 DEF CreateDelivery, WebhookTypeOK
    <3> HIDE DEF v
    <3> QED BY <1>1, <3>1, <3>2
  <2>2. CASE HookThere(h)
    <3> DEFINE d == <<e, h>>
               v == [event[e] EXCEPT !.todo = @ \ {h}]
    <3>1. d \in Delivery /\ row[d] = "none" /\ sender[d].pc = "none" /\ got[d] = lost[d] /\ got[d] \in Nat
      BY <1>5 DEF Delivery, CreateDelivery, Fresh, Sound, Paired, Counted, WebhookTypeOK
    <3>2. /\ sender' \in [Delivery -> [pc: SenderPc, attempt: 1 .. MaxAttempts, verdict: Verdict]]
          /\ sender'[d].pc = "post" /\ \A x \in Delivery : x # d => sender'[x] = sender[x]
      BY <1>5, <2>2, <3>1, Moved DEF CreateDelivery, SenderPc
    <3>3. /\ row' \in [Delivery -> RowState] /\ row'[d] = "pending"
          /\ \A x \in Delivery : x # d => row'[x] = row[x]
      BY <1>5, <2>2, <3>1 DEF CreateDelivery, WebhookTypeOK, RowState
    <3>4. /\ v \in [pc: EventPc, todo: SUBSET Hooks] /\ v.pc = event[e].pc
          /\ v.todo = event[e].todo \ {h} /\ event' = [event EXCEPT ![e] = v]
      BY <1>5, <2>2 DEF CreateDelivery, WebhookTypeOK
    <3>5. UNCHANGED <<hook, got, lost, troubles>> /\ event[e].pc = "creating"
      BY <1>5 DEF CreateDelivery
    <3>6. WebhookTypeOK'
      <4> HIDE DEF v, d
      <4> QED BY <3>2, <3>3, <3>4, <3>5 DEF WebhookTypeOK
    <3>7. Fresh'
      <4> SUFFICES ASSUME NEW f \in Events, NEW k \in Hooks,
                          event'[f].pc = "new" \/ (event'[f].pc = "creating" /\ k \in event'[f].todo)
                   PROVE  row'[<<f, k>>] = "none"
        BY DEF Fresh
      <4>1. event'[e] = v /\ \A x \in Events : x # e => event'[x] = event[x]
        BY <3>4 DEF WebhookTypeOK
      <4> HIDE DEF v
      <4>2. <<f, k>> # d /\ (event[f].pc = "new" \/ (event[f].pc = "creating" /\ k \in event[f].todo))
        BY <3>4, <3>5, <4>1
      <4> QED BY <3>3, <4>2 DEF Fresh, Delivery
    <3>8. Sound(d)'
      BY <3>1, <3>2, <3>3, <3>5 DEF Sound, Counted, Paired, Told, UnderWay
    <3>9. \A x \in Delivery : x # d => Same(x)
      BY <3>2, <3>3, <3>5 DEF Same
    <3> QED BY <3>6, <3>7, <3>8, <3>9, SameSound
  <2> QED BY <2>1, <2>2
<1> QED BY <1>2, <1>3, <1>4, <1>5 DEF EventStep

\* Rows that go while nothing else of their delivery does.
LEMMA RowsGo ==
  ASSUME DeliveryInv, WebhookTypeOK', UNCHANGED <<event, sender, got, lost>>,
         \A d \in Delivery : row'[d] = row[d] \/ row'[d] = HookGone(row[d])
  PROVE  DeliveryInv'
<1>1. \A d \in Delivery : Sound(d)'
  BY DEF DeliveryInv, Sound, Paired, Told, UnderWay, HookGone
<1>2. Fresh'
  <2>1. \A e \in Events, h \in Hooks : <<e, h>> \in Delivery
    BY DEF Delivery
  <2> QED BY <2>1 DEF DeliveryInv, Fresh, HookGone
<1> QED BY <1>1, <1>2 DEF DeliveryInv

LEMMA HookSteps ==
  ASSUME DeliveryInv, Cleanup \/ \E h \in Hooks : CreateHook(h) \/ UpdateHook(h) \/ DeleteHook(h)
  PROVE  DeliveryInv'
<1>t. WebhookTypeOK
  BY DEF DeliveryInv
<1>e. troubles' \in 0 .. MaxTroubles
  BY <1>t, AttemptAssumption DEF Cleanup, CreateHook, UpdateHook, DeleteHook, Trouble, WebhookTypeOK
<1>g. \A d \in Delivery : row[d] \in RowState /\ HookGone(row[d]) \in RowState
  BY <1>t DEF WebhookTypeOK, HookGone, RowState
<1>1. CASE Cleanup
  <2>1. row' \in [Delivery -> RowState] /\ \A d \in Delivery : row'[d] = row[d] \/ row'[d] = HookGone(row[d])
    BY <1>1, <1>g DEF Cleanup
  <2>2. WebhookTypeOK'
    BY <1>1, <1>t, <1>e, <2>1 DEF Cleanup, WebhookTypeOK
  <2> QED BY <1>1, <2>1, <2>2, RowsGo DEF Cleanup
<1>2. ASSUME NEW h \in Hooks, CreateHook(h) \/ UpdateHook(h) PROVE DeliveryInv'
  <2>1. WebhookTypeOK'
    BY <1>2, <1>t, <1>e DEF CreateHook, UpdateHook, HookThere, WebhookTypeOK
  <2> QED BY <1>2, <2>1, RowsGo DEF CreateHook, UpdateHook
<1>3. ASSUME NEW h \in Hooks, DeleteHook(h) PROVE DeliveryInv'
  <2>1. row' \in [Delivery -> RowState] /\ \A d \in Delivery : row'[d] = row[d] \/ row'[d] = HookGone(row[d])
    BY <1>3, <1>g DEF DeleteHook
  <2>2. WebhookTypeOK'
    BY <1>3, <1>t, <1>e, <2>1 DEF DeleteHook, WebhookTypeOK
  <2> QED BY <1>3, <2>1, <2>2, RowsGo DEF DeleteHook
<1> QED BY <1>1, <1>2, <1>3

\* The end of the process: what was posted just then counts as a lost answer.
LEMMA SendingStops == ASSUME DeliveryInv, StopSending PROVE DeliveryInv'
<1>t. WebhookTypeOK
  BY DEF DeliveryInv
<1>1. PICK took \in SUBSET {d \in Delivery : At(d, "post")} :
        /\ got' = [d \in Delivery |-> IF d \in took THEN got[d] + 1 ELSE got[d]]
        /\ lost' = [d \in Delivery |-> IF d \in took THEN lost[d] + 1 ELSE lost[d]]
  BY DEF StopSending
<1>2. \A d \in Delivery : /\ got[d] \in Nat /\ lost[d] \in Nat /\ got'[d] \in Nat /\ lost'[d] \in Nat
                          /\ got'[d] - lost'[d] = got[d] - lost[d] /\ got'[d] >= got[d]
                          /\ sender[d].pc # "post" => got'[d] = got[d] /\ lost'[d] = lost[d]
  BY <1>1, <1>t DEF WebhookTypeOK, At
<1>3. \A d \in Delivery :
        /\ sender'[d] \in [pc: SenderPc, attempt: 1 .. MaxAttempts, verdict: Verdict]
        /\ IF sender[d].pc \in UnderWay THEN sender'[d].pc = "abandoned" ELSE sender'[d] = sender[d]
  BY <1>t, SMTT(30) DEF StopSending, UnderWay, WebhookTypeOK, SenderPc
<1>4. \A e \in Events : /\ event'[e] \in [pc: EventPc, todo: SUBSET Hooks]
                        /\ event'[e] = event[e] \/ event'[e].pc = "broken"
  BY <1>t DEF StopSending, WebhookTypeOK, EventPc
<1>5. /\ got' \in [Delivery -> Nat] /\ lost' \in [Delivery -> Nat]
      /\ sender' \in [Delivery -> [pc: SenderPc, attempt: 1 .. MaxAttempts, verdict: Verdict]]
      /\ event' \in [Events -> [pc: EventPc, todo: SUBSET Hooks]]
      /\ hook' = hook /\ row' = row /\ troubles' \in 0 .. MaxTroubles
  <2>1. got' \in [Delivery -> Nat] /\ lost' \in [Delivery -> Nat]
    BY <1>1, <1>2
  <2>2. sender' \in [Delivery -> [pc: SenderPc, attempt: 1 .. MaxAttempts, verdict: Verdict]]
    BY <1>3 DEF StopSending
  <2>3. event' \in [Events -> [pc: EventPc, todo: SUBSET Hooks]]
    <3>1. event' = [e \in Events |-> event'[e]]
      BY DEF StopSending
    <3> QED BY <1>4, <3>1
  <2>4. hook' = hook /\ row' = row /\ troubles < MaxTroubles /\ troubles' = troubles + 1
    BY DEF StopSending, Trouble
  <2>5. troubles' \in 0 .. MaxTroubles
    BY <1>t, <2>4, AttemptAssumption DEF WebhookTypeOK
  <2> QED BY <2>1, <2>2, <2>3, <2>4, <2>5
<1>6. WebhookTypeOK'
  BY <1>5, <1>t DEF WebhookTypeOK
<1>7. Fresh'
  BY <1>4, <1>5 DEF DeliveryInv, Fresh
<1>8. ASSUME NEW d \in Delivery PROVE Sound(d)'
  <2>1. Sound(d)
    BY DEF DeliveryInv
  <2>2. CASE sender[d].pc \in UnderWay
    <3>1. Counted(sender'[d], got'[d], lost'[d])
      BY <2>1, <2>2, <1>2, <1>3 DEF Sound, Counted
    <3>2. Paired(sender'[d], row[d]) /\ row[d] \in {"pending", "removed"}
      BY <2>1, <2>2, <1>3 DEF Sound, Paired, UnderWay
    <3> QED BY <1>5, <3>1, <3>2 DEF Sound, Told
  <2>3. CASE sender[d].pc \notin UnderWay
    BY <2>1, <2>3, <1>2, <1>3, <1>5 DEF Sound, UnderWay
  <2> QED BY <2>2, <2>3
<1> QED BY <1>6, <1>7, <1>8 DEF DeliveryInv

LEMMA DeliveryStep == DeliveryInv /\ [WebhookNext]_webhookVars => DeliveryInv'
<1> SUFFICES ASSUME DeliveryInv, [WebhookNext]_webhookVars PROVE DeliveryInv'
  OBVIOUS
<1>1. CASE UNCHANGED webhookVars
  BY <1>1 DEF webhookVars, DeliveryInv, WebhookTypeOK, Fresh, Sound
<1> QED BY <1>1, EventSteps, SenderSteps, HookSteps, SendingStops DEF WebhookNext

-----------------------------------------------------------------------------
\* Every variable keeps its type: a task makes no more attempts than the delays allow.
THEOREM WebhooksTyped == WebhookSpec => []WebhookTypeOK
<1>1. DeliveryInv => WebhookTypeOK
  BY DEF DeliveryInv
<1> QED BY <1>1, DeliveryInit, DeliveryStep, PTL DEF WebhookSpec

\* A target takes a message once, and once more for every answer that was lost.
THEOREM MessagesTakenOnce == WebhookSpec => []TakenOnce
<1>1. DeliveryInv => TakenOnce
  BY DEF DeliveryInv, TakenOnce, Sound, Counted
<1> QED BY <1>1, DeliveryInit, DeliveryStep, PTL DEF WebhookSpec

\* What the row of a delivery says is so, whatever happens to its webhook, to the
\* process and to the database in between.
THEOREM RowsAreTrue == WebhookSpec => []RowsTell
<1>1. DeliveryInv => RowsTell
  BY DEF DeliveryInv, RowsTell, Sound, Paired, Told, UnderWay
<1> QED BY <1>1, DeliveryInit, DeliveryStep, PTL DEF WebhookSpec

-----------------------------------------------------------------------------
(***************************************************************************)
(* The loop of a periodic task.  While none of its runs failed, what is    *)
(* left of the sleep and the time since the last success are one interval. *)
(***************************************************************************)
SupervisorInv ==
  /\ loop \in [pc: {"sleep", "run", "dead"}, left: Nat]
  /\ interval \in Nat /\ failures \in Nat /\ since \in Nat
  /\ loop.pc = "sleep" /\ failures = 0 => since + loop.left <= Interval
  /\ SnapshotTells

\* What the readiness probe says of a task is so: it is stalled only while it
\* fails, hangs or is dead, and its interval grows only by failures.
THEOREM SnapshotsTell == SupervisorSpec => []SnapshotTells
<1>1. SupervisorInit => SupervisorInv
  BY IntervalAssumption DEF SupervisorInit, SupervisorInv, SnapshotTells, Stalled
<1>2. SupervisorInv /\ [SupervisorNext]_supervisorVars => SupervisorInv'
  <2> SUFFICES ASSUME SupervisorInv, [SupervisorNext]_supervisorVars PROVE SupervisorInv'
    OBVIOUS
  <2> USE IntervalAssumption, ThresholdAssumption DEF SupervisorInv, SnapshotTells, Stalled
  <2>1. CASE TimePasses
    BY <2>1 DEF TimePasses, Smaller, Ceiling
  <2>2. CASE RunStarts
    BY <2>2 DEF RunStarts
  <2>3. CASE Succeeds
    BY <2>3 DEF Succeeds
  <2>4. CASE Fails
    BY <2>4 DEF Fails, BackedOff, Smaller
  <2>5. CASE Cancelled
    BY <2>5 DEF Cancelled
  <2>6. CASE UNCHANGED supervisorVars
    BY <2>6 DEF supervisorVars
  <2> QED BY <2>1, <2>2, <2>3, <2>4, <2>5, <2>6 DEF SupervisorNext
<1>3. SupervisorInv => SnapshotTells
  BY DEF SupervisorInv
<1> QED BY <1>1, <1>2, <1>3, PTL DEF SupervisorSpec

-----------------------------------------------------------------------------
(***************************************************************************)
(* Servers come up whole and go down in order.  Tables never go away, so   *)
(* what a server has found there or created still is there; what its       *)
(* revision needs is there, or among what it has still to look at.         *)
(***************************************************************************)
StartupSpec == StartupInit /\ [][StartupNext]_startupVars

Tables == TablesTo(Newest)
Revision == {Squashed, Foreign} \union Known
Work == [lro: BOOLEAN, periodic: BOOLEAN, delivery: BOOLEAN, late: SUBSET {"lro", "periodic", "delivery"}]

Climbing == {"inspect", "create", "index", "version", "commit"}
Up == {"build", "serving", "lros", "hooks", "tasks", "disposed"}

Database ==
  [up: BOOLEAN, atomic: BOOLEAN, found: Revision, version: Revision,
   tables: SUBSET Tables, indexed: SUBSET Tables, torn: SUBSET Tables]
Server ==
  [pc: {"off", "check", "stamp", "upgrade"} \union Climbing \union Up,
   todo: Seq(Tables), rev: Known, left: Nat, made: SUBSET Tables,
   written: Known \union {Unwritten}, work: Work]

Todo(r) == {r.todo[i] : i \in 1..Len(r.todo)}

\* What a server that climbs the revisions knows of the tables.
Climbs(r, d) ==
  /\ r.pc \in Climbing \ {"commit"} => r.rev < Newest
  /\ r.pc \in Climbing /\ 0 <= r.rev => TablesTo(r.rev) \subseteq d.tables \union r.made
  /\ r.pc = "commit" => r.rev = Newest
  /\ r.pc \in {"inspect", "create", "index"} =>
       TablesTo(r.rev + 1) \subseteq d.tables \union r.made \union Todo(r)
  /\ r.pc = "version" => TablesTo(r.rev + 1) \subseteq d.tables \union r.made
  /\ r.pc \in {"create", "index"} => r.todo # <<>>
  /\ r.pc = "index" => Head(r.todo) \in d.tables \union r.made
  /\ r.written # Unwritten => r.pc \in Climbing /\ r.written = r.rev
  /\ ~ d.atomic => r.made = {} /\ r.written = Unwritten

\* What a server has that is up, or may not come up.
Stands(r, d) ==
  /\ r.pc = "stamp" => Core \in d.tables
  /\ r.pc \in Up => Tables \subseteq d.tables
  /\ d.found = Foreign => r.pc \in {"off", "check", "upgrade"}

\* What was not stopped in time is known to be late.
InOrder(r) ==
  /\ r.pc \in {"hooks", "tasks", "disposed"} /\ r.work.lro => "lro" \in r.work.late
  /\ r.pc \in {"tasks", "disposed"} /\ r.work.delivery => "delivery" \in r.work.late
  /\ r.pc = "disposed" /\ r.work.periodic => "periodic" \in r.work.late

ServerFits(r, d) == r \in Server /\ Climbs(r, d) /\ Stands(r, d) /\ InOrder(r)

DatabaseFits(d) ==
  /\ d \in Database
  /\ d.version = Squashed => Core \in d.tables
  /\ d.version \in 0..Newest => TablesTo(d.version) \subseteq d.tables
  /\ d.found = Foreign => d.version = Foreign /\ d.tables = {Core}

\* An index is missing only where its creation is in progress or was torn apart.
Indexes ==
  \A t \in db.tables \ db.indexed :
    \/ t \in db.torn
    \/ ~ db.atomic /\ \E s \in Servers : server[s].pc = "index" /\ Head(server[s].todo) = t

StartupInv ==
  /\ startFaults \in Nat
  /\ server \in [Servers -> Server]
  /\ DatabaseFits(db) /\ Indexes
  /\ \A s \in Servers : ServerFits(server[s], db)

\* The tables of a later revision are more.
LEMMA TablesGrow ==
  ASSUME NEW v \in Int, NEW w \in Int, v <= w
  PROVE  TablesTo(v) \subseteq TablesTo(w)
BY DEF TablesTo

LEMMA PairOf ==
  ASSUME NEW S, NEW a \in S, NEW b \in S
  PROVE  <<a, b>> \in Seq(S) /\ Len(<<a, b>>) = 2 /\ <<a, b>>[1] = a /\ <<a, b>>[2] = b
OBVIOUS

LEMMA PutBefore ==
  ASSUME NEW S, NEW a \in S, NEW q \in Seq(S)
  PROVE  <<a>> \o q \in Seq(S) /\ Len(<<a>> \o q) >= 1 /\ (<<a>> \o q)[1] = a
OBVIOUS

\* What a revision creates is all it needs beyond those before it.
LEMMA CreatesEnough ==
  ASSUME NEW v \in Known, v < Newest
  PROVE  /\ Creates(v + 1) \in Seq(Tables)
         /\ LET t == Creates(v + 1)
            IN  IF 0 <= v THEN TablesTo(v + 1) \subseteq TablesTo(v) \union {t[i] : i \in 1..Len(t)}
                ELSE TablesTo(v + 1) \subseteq {t[i] : i \in 1..Len(t)}
<1> USE StartupAssumption
<1>1. CASE v = -1
  <2> DEFINE rest == [i \in 1..(2 * Newest) |-> << (i + 1) \div 2, 2 - (i % 2) >>]
  <2>1. rest \in Seq(Tables) /\ Len(rest) = 2 * Newest
    <3>1. ASSUME NEW i \in 1..(2 * Newest) PROVE << (i + 1) \div 2, 2 - (i % 2) >> \in Tables
      <4>1. (i + 1) \div 2 \in 1..Newest /\ 2 - (i % 2) \in 1..2
        OBVIOUS
      <4> QED BY <4>1 DEF Tables, TablesTo
    <3> QED BY <3>1
  <2> HIDE DEF rest
  <2>2. Creates(v + 1) = <<Core>> \o rest
    BY <1>1 DEF Creates, AllTables, Own, rest
  <2>3. Core \in Tables
    BY DEF Tables, TablesTo
  <2>4. TablesTo(v + 1) \subseteq {Core}
    BY <1>1 DEF TablesTo
  <2>5. Creates(v + 1) \in Seq(Tables) /\ Len(Creates(v + 1)) >= 1 /\ Creates(v + 1)[1] = Core
    BY <2>1, <2>2, <2>3, PutBefore
  <2>6. 1 \in 1..Len(Creates(v + 1))
    BY <2>5
  <2> QED BY <1>1, <2>4, <2>5, <2>6
<1>2. CASE 0 <= v
  <2> DEFINE one == <<v + 1, 1>>
             two == <<v + 1, 2>>
  <2>1. Creates(v + 1) = << one, two >>
    BY <1>2 DEF Creates, Own, Known, Empty
  <2>2. one \in Tables /\ two \in Tables
    BY <1>2 DEF Tables, TablesTo, Known, Empty
  <2>3. ASSUME NEW t \in TablesTo(v + 1)
        PROVE  t \in TablesTo(v) \/ t = one \/ t = two
    <3>1. CASE t = Core
      BY <3>1 DEF TablesTo
    <3>2. ASSUME NEW w \in 1..(v + 1), NEW n \in 1..2, t = <<w, n>>
          PROVE  t \in TablesTo(v) \/ t = one \/ t = two
      <4>1. w \in 1..v \/ w = v + 1
        BY <1>2 DEF Known, Empty
      <4>2. n = 1 \/ n = 2
        OBVIOUS
      <4> QED BY <3>2, <4>1, <4>2 DEF TablesTo
    <3> QED BY <3>1, <3>2 DEF TablesTo
  <2> HIDE DEF one, two
  <2>4. /\ Creates(v + 1) \in Seq(Tables) /\ Len(Creates(v + 1)) = 2
        /\ Creates(v + 1)[1] = one /\ Creates(v + 1)[2] = two
    <3>1. /\ <<one, two>> \in Seq(Tables) /\ Len(<<one, two>>) = 2
          /\ <<one, two>>[1] = one /\ <<one, two>>[2] = two
      BY <2>2, PairOf
    <3> QED BY <2>1, <3>1, Zenon
  <2>5. 1 \in 1..Len(Creates(v + 1)) /\ 2 \in 1..Len(Creates(v + 1))
    BY <2>4
  <2> QED BY <1>2, <2>3, <2>4, <2>5
<1> QED BY <1>1, <1>2 DEF Known, Empty

\* What has been looked at is off the list, and nothing else.
LEMMA TodoTail ==
  ASSUME NEW q \in Seq(Tables), q # <<>>
  PROVE  /\ Head(q) \in Tables /\ Tail(q) \in Seq(Tables)
         /\ {q[i] : i \in 1..Len(q)} \subseteq {Head(q)} \union {Tail(q)[i] : i \in 1..Len(Tail(q))}
<1>1. ASSUME NEW i \in 1..Len(q), i # 1 PROVE i - 1 \in 1..Len(Tail(q)) /\ Tail(q)[i - 1] = q[i]
  BY <1>1
<1> QED BY <1>1

\* Tables only come, so what a server knows stays true.
LEMMA StaysFit ==
  ASSUME NEW r, NEW d, NEW e, ServerFits(r, d),
         d.tables \subseteq e.tables, e.atomic = d.atomic, e.found = d.found
  PROVE  ServerFits(r, e)
BY DEF ServerFits, Climbs, Stands

\* A step of one server that leaves what the others know.
LEMMA OneMoves ==
  ASSUME StartupInv, NEW s \in Servers, NEW r, server' = [server EXCEPT ![s] = r],
         ServerFits(r, db'), DatabaseFits(db'), Indexes', startFaults' \in Nat,
         db.tables \subseteq db'.tables, db'.atomic = db.atomic, db'.found = db.found
  PROVE  StartupInv'
<1>1. server' \in [Servers -> Server]
  BY DEF StartupInv, ServerFits
<1>2. ASSUME NEW o \in Servers PROVE ServerFits(server'[o], db')
  <2>1. CASE o = s
    BY <2>1 DEF StartupInv
  <2>2. CASE o # s
    <3>1. server'[o] = server[o] /\ ServerFits(server[o], db)
      BY <2>2 DEF StartupInv
    <3> QED BY <3>1, StaysFit
  <2> QED BY <2>1, <2>2
<1> QED BY <1>1, <1>2 DEF StartupInv

\* What was waiting for its index still is, when another server moves.
LEMMA IndexesStay ==
  ASSUME StartupInv, NEW s \in Servers, NEW r, server' = [server EXCEPT ![s] = r],
         server[s].pc # "index" \/ db.atomic,
         db'.tables \ db'.indexed \subseteq db.tables \ db.indexed,
         db'.torn = db.torn, db'.atomic = db.atomic
  PROVE  Indexes'
<1> SUFFICES ASSUME NEW t \in db'.tables \ db'.indexed, t \notin db'.torn
             PROVE  ~ db'.atomic /\ \E o \in Servers : server'[o].pc = "index" /\ Head(server'[o].todo) = t
  BY DEF Indexes
<1>1. ~ db.atomic /\ \E o \in Servers : server[o].pc = "index" /\ Head(server[o].todo) = t
  BY DEF StartupInv, Indexes
<1>2. PICK o \in Servers : server[o].pc = "index" /\ Head(server[o].todo) = t
  BY <1>1
<1>3. server'[o] = server[o]
  BY <1>1, <1>2 DEF StartupInv
<1> QED BY <1>1, <1>2, <1>3

LEMMA ServerMoves ==
  ASSUME StartupInv, NEW s \in Servers, NEW r, server' = [server EXCEPT ![s] = r],
         server[s].pc # "index" \/ db.atomic, db' = db, startFaults' \in Nat,
         ServerFits(r, db)
  PROVE  StartupInv'
<1>1. Indexes'
  BY IndexesStay
<1> QED BY <1>1, OneMoves DEF StartupInv

LEMMA OffFits == ASSUME NEW d PROVE ServerFits(NoServer, d)
<1>1. NoServer \in Server
  BY StartupAssumption DEF NoServer, Server, Work, Idle, Known, Unwritten, Empty
<1> QED BY <1>1 DEF NoServer, ServerFits, Climbs, Stands, InOrder, Climbing, Up

Upgrading(n) == [NoServer EXCEPT !.pc = "upgrade", !.left = n]

LEMMA UpgradeFits ==
  ASSUME NEW d, NEW n \in Nat
  PROVE  ServerFits(Upgrading(n), d)
<1> DEFINE r == Upgrading(n)
<1>1. NoServer \in Server
  BY OffFits DEF ServerFits
<1>2. r \in Server /\ r.pc = "upgrade" /\ r.written = Unwritten /\ r.made = {}
  BY <1>1 DEF Server, NoServer, Upgrading
<1> HIDE DEF r
<1>3. ServerFits(r, d)
  BY <1>2 DEF ServerFits, Climbs, Stands, InOrder, Climbing, Up
<1> QED BY <1>3 DEF r

\* A server that only goes on to another step.
LEMMA GoesOn ==
  ASSUME StartupInv, NEW s \in Servers, NEW pc \in {"check", "stamp", "create", "version", "lros"}
  PROVE  LET r == [server[s] EXCEPT !.pc = pc]
         IN  r \in Server /\ r.pc = pc /\ r.todo = server[s].todo /\ r.rev = server[s].rev
             /\ r.made = server[s].made /\ r.written = server[s].written /\ r.work = server[s].work
BY DEF StartupInv, Server, Climbing, Up

LEMMA DatabaseSteps == StartupInv /\ (DbLeaves \/ DbReturns) => StartupInv'
<1> SUFFICES ASSUME StartupInv, DbLeaves \/ DbReturns PROVE StartupInv'
  OBVIOUS
<1>1. /\ server' = server /\ startFaults' \in Nat
      /\ db' = [db EXCEPT !.up = FALSE] \/ db' = [db EXCEPT !.up = TRUE]
  BY DEF DbLeaves, DbReturns, StartupInv
<1>2. /\ db' \in Database /\ db'.tables = db.tables /\ db'.indexed = db.indexed /\ db'.torn = db.torn
      /\ db'.atomic = db.atomic /\ db'.found = db.found /\ db'.version = db.version
  BY <1>1 DEF StartupInv, DatabaseFits, Database
<1>3. Indexes' /\ DatabaseFits(db')
  BY <1>1, <1>2 DEF StartupInv, Indexes, DatabaseFits
<1>4. ASSUME NEW s \in Servers PROVE ServerFits(server'[s], db')
  BY <1>1, <1>2, StaysFit DEF StartupInv
<1> QED BY <1>1, <1>3, <1>4 DEF StartupInv

LEMMA CheckSteps ==
  ASSUME NEW s \in Servers
  PROVE  StartupInv /\ (Start(s) \/ Check(s) \/ Stamp(s)) => StartupInv'
<1> SUFFICES ASSUME StartupInv, Start(s) \/ Check(s) \/ Stamp(s) PROVE StartupInv'
  OBVIOUS
<1> USE DEF In, Go, Becomes, GivesUp
<1>a. startFaults' \in Nat /\ ServerFits(server[s], db) /\ DatabaseFits(db)
  BY DEF Start, Check, Stamp, StartupInv
<1>b. StartAttempts \in Nat
  BY StartupAssumption
<1>1. CASE Start(s)
  <2> DEFINE r == [server[s] EXCEPT !.pc = "check"]
  <2>1. server' = [server EXCEPT ![s] = r] /\ db' = db /\ server[s].pc = "off"
    BY <1>1 DEF Start
  <2>2. r \in Server /\ r.pc = "check" /\ r.made = server[s].made /\ r.written = server[s].written
    BY GoesOn
  <2> HIDE DEF r
  <2>3. ServerFits(r, db)
    BY <1>a, <2>1, <2>2 DEF ServerFits, Climbs, Stands, InOrder, Climbing, Up
  <2> QED BY <1>a, <2>1, <2>3, ServerMoves
<1>2. CASE Check(s) \/ Stamp(s)
  <2>1. CASE server' = [server EXCEPT ![s] = NoServer] /\ db' = db
    BY <1>a, <1>2, <2>1, OffFits, ServerMoves DEF Check, Stamp
  <2>2. CASE server' = [server EXCEPT ![s] = [NoServer EXCEPT !.pc = "upgrade", !.left = StartAttempts]] /\ db' = db
    <3>1. server' = [server EXCEPT ![s] = Upgrading(StartAttempts)] /\ db' = db /\ server[s].pc # "index"
      BY <1>2, <2>2 DEF Check, Stamp, Upgrading
    <3>2. ServerFits(Upgrading(StartAttempts), db)
      BY <1>b, UpgradeFits
    <3> QED BY <1>a, <3>1, <3>2, ServerMoves
  <2>3. CASE Check(s) /\ db.version = Squashed /\ Go(s, "stamp")
    <3> DEFINE r == [server[s] EXCEPT !.pc = "stamp"]
    <3>1. server' = [server EXCEPT ![s] = r] /\ db' = db /\ server[s].pc = "check"
      BY <2>3 DEF Check
    <3>2. r \in Server /\ r.pc = "stamp" /\ r.made = server[s].made /\ r.written = server[s].written
      BY GoesOn
    <3> HIDE DEF r
    <3>3. db.found # Foreign /\ Core \in db.tables
      BY <1>a, <2>3 DEF DatabaseFits, Squashed, Foreign
    <3>4. ServerFits(r, db)
      BY <1>a, <3>1, <3>2, <3>3 DEF ServerFits, Climbs, Stands, InOrder, Climbing, Up
    <3> QED BY <1>a, <3>1, <3>4, ServerMoves
  <2>4. CASE Stamp(s) /\ Upgrade(s, StartAttempts) /\ db' = [db EXCEPT !.version = 0]
    <3>1. server' = [server EXCEPT ![s] = Upgrading(StartAttempts)] /\ server[s].pc = "stamp"
      BY <2>4 DEF Stamp, Upgrade, Upgrading
    <3>2. ServerFits(Upgrading(StartAttempts), db')
      BY <1>b, UpgradeFits
    <3>3. /\ db' \in Database /\ db'.tables = db.tables /\ db'.indexed = db.indexed /\ db'.torn = db.torn
          /\ db'.atomic = db.atomic /\ db'.found = db.found /\ db'.version = 0
      BY <1>a, <2>4, StartupAssumption DEF DatabaseFits, Database, Revision, Known, Empty
    <3>4. db.found # Foreign /\ Core \in db.tables
      BY <1>a, <3>1 DEF ServerFits, Stands
    <3>5. TablesTo(0) = {Core}
      BY DEF TablesTo
    <3>6. DatabaseFits(db')
      BY <3>3, <3>4, <3>5 DEF DatabaseFits, Squashed
    <3>7. Indexes'
      BY <3>1, <3>3, IndexesStay
    <3> QED BY <1>a, <3>1, <3>2, <3>3, <3>6, <3>7, OneMoves
  <2> QED BY <1>2, <2>1, <2>2, <2>3, <2>4 DEF Check, Stamp, Upgrade
<1> QED BY <1>1, <1>2

\* The creation that a crash or a lost connection breaks off is torn apart.
LEMMA TearSteps ==
  ASSUME StartupInv, NEW s \in Servers, NEW r, server' = [server EXCEPT ![s] = r],
         db' = Tears(s), startFaults' \in Nat, \A d : ServerFits(r, d)
  PROVE  StartupInv'
<1> USE DEF In
<1>1. CASE server[s].pc = "index" /\ ~ db.atomic
  <2> DEFINE h == Head(server[s].todo)
  <2>1. db' = [db EXCEPT !.torn = @ \union {h}]
    BY <1>1 DEF Tears
  <2>2. h \in Tables
    BY <1>1, TodoTail DEF StartupInv, ServerFits, Climbs, Server
  <2> HIDE DEF h
  <2>3. /\ db' \in Database /\ db'.tables = db.tables /\ db'.indexed = db.indexed
        /\ db'.torn = db.torn \union {h} /\ db'.version = db.version
        /\ db'.atomic = db.atomic /\ db'.found = db.found
    BY <2>1, <2>2 DEF StartupInv, DatabaseFits, Database
  <2>4. DatabaseFits(db')
    BY <2>3 DEF StartupInv, DatabaseFits
  <2>5. Indexes'
    <3> SUFFICES ASSUME NEW t \in db'.tables \ db'.indexed, t \notin db'.torn
                 PROVE  \E o \in Servers : server'[o].pc = "index" /\ Head(server'[o].todo) = t
      BY <1>1, <2>3 DEF Indexes
    <3>1. t \in db.tables \ db.indexed /\ t \notin db.torn /\ t # h
      BY <2>3
    <3>2. PICK o \in Servers : server[o].pc = "index" /\ Head(server[o].todo) = t
      BY <3>1 DEF StartupInv, Indexes
    <3>3. server'[o] = server[o]
      BY <3>1, <3>2 DEF StartupInv, h
    <3> QED BY <3>2, <3>3
  <2> QED BY <2>3, <2>4, <2>5, OneMoves
<1>2. CASE ~ (server[s].pc = "index" /\ ~ db.atomic)
  <2>1. db' = db
    BY <1>2 DEF Tears
  <2>2. db.atomic \in BOOLEAN
    BY DEF StartupInv, DatabaseFits, Database
  <2> QED BY <1>2, <2>1, <2>2, ServerMoves
<1> QED BY <1>1, <1>2

LEMMA LossSteps ==
  ASSUME NEW s \in Servers
  PROVE  StartupInv /\ (ConnectionLost(s) \/ ServerCrash(s) \/ Exits(s)) => StartupInv'
<1> SUFFICES ASSUME StartupInv, ConnectionLost(s) \/ ServerCrash(s) \/ Exits(s) PROVE StartupInv'
  OBVIOUS
<1> USE DEF In, Becomes, GivesUp
<1>1. startFaults' \in Nat
  BY DEF StartupInv, ConnectionLost, ServerCrash, Exits
<1>2. CASE Exits(s)
  BY <1>1, <1>2, OffFits, ServerMoves DEF Exits
<1>3. CASE ServerCrash(s)
  BY <1>1, <1>3, OffFits, TearSteps DEF ServerCrash
<1>4. CASE ConnectionLost(s)
  <2>1. server[s].left \in Nat
    BY DEF StartupInv, Server
  <2>2. CASE server[s].left > 1
    <3> DEFINE n == server[s].left - 1
    <3>1. n \in Nat
      BY <2>1, <2>2
    <3>2. server' = [server EXCEPT ![s] = Upgrading(n)]
      BY <1>4, <2>2 DEF ConnectionLost, AttemptFails, Upgrade, Upgrading
    <3> HIDE DEF n
    <3>3. \A d : ServerFits(Upgrading(n), d)
      BY <3>1, UpgradeFits
    <3> QED BY <1>1, <1>4, <3>2, <3>3, TearSteps DEF ConnectionLost
  <2>3. CASE ~ server[s].left > 1
    BY <1>1, <1>4, <2>3, OffFits, TearSteps DEF ConnectionLost, AttemptFails
  <2> QED BY <2>2, <2>3
<1> QED BY <1>2, <1>3, <1>4

\* The record of a server that comes to a revision.
LEMMA AtRevisionIs ==
  ASSUME StartupInv, NEW s \in Servers, NEW v \in Known
  PROVE  LET r == AtRevision(s, v)
         IN  /\ r \in Server
             /\ r.pc = (IF v = Newest THEN "commit" ELSE "inspect") /\ r.rev = v
             /\ r.todo = (IF v = Newest THEN <<>> ELSE Creates(v + 1))
             /\ r.made = server[s].made /\ r.written = server[s].written /\ r.work = server[s].work
<1>1. v <= Newest /\ (v # Newest => v < Newest)
  BY StartupAssumption DEF Known, Empty
<1> DEFINE todo == IF v = Newest THEN <<>> ELSE Creates(v + 1)
<1>2. todo \in Seq(Tables)
  BY <1>1, CreatesEnough
<1> HIDE DEF todo
<1> DEFINE r == [server[s] EXCEPT !.pc = IF v = Newest THEN "commit" ELSE "inspect", !.rev = v, !.todo = todo]
<1>3. AtRevision(s, v) = r
  BY DEF AtRevision, todo
<1>4. /\ r \in Server /\ r.pc = (IF v = Newest THEN "commit" ELSE "inspect") /\ r.rev = v /\ r.todo = todo
      /\ r.made = server[s].made /\ r.written = server[s].written /\ r.work = server[s].work
  BY <1>2 DEF StartupInv, Server, Climbing
<1> HIDE DEF r
<1> QED BY <1>3, <1>4 DEF todo

\* What a server knows when it comes to a revision whose tables it has.
LEMMA ArrivesFit ==
  ASSUME NEW v \in Known, NEW d, NEW r \in Server,
         r.pc = (IF v = Newest THEN "commit" ELSE "inspect"), r.rev = v,
         r.todo = (IF v = Newest THEN <<>> ELSE Creates(v + 1)),
         0 <= v => TablesTo(v) \subseteq d.tables \union r.made,
         r.written \in {Unwritten, v}, ~ d.atomic => r.made = {} /\ r.written = Unwritten,
         d.found # Foreign
  PROVE  ServerFits(r, d)
<1>1. v <= Newest /\ (v # Newest => v < Newest)
  BY StartupAssumption DEF Known, Empty
<1>2. v < Newest => TablesTo(v + 1) \subseteq d.tables \union r.made \union Todo(r)
  <2> SUFFICES ASSUME v < Newest PROVE TablesTo(v + 1) \subseteq d.tables \union r.made \union Todo(r)
    OBVIOUS
  <2> DEFINE t == Creates(v + 1)
  <2>1. r.todo = t
    <3>1. v # Newest
      BY StartupAssumption DEF Known, Empty
    <3> QED BY <3>1
  <2>2. IF 0 <= v THEN TablesTo(v + 1) \subseteq TablesTo(v) \union {t[i] : i \in 1..Len(t)}
        ELSE TablesTo(v + 1) \subseteq {t[i] : i \in 1..Len(t)}
    BY CreatesEnough
  <2> HIDE DEF t
  <2> QED BY <2>1, <2>2 DEF Todo
<1> QED BY <1>1, <1>2 DEF ServerFits, Climbs, Stands, InOrder, Climbing, Up

LEMMA UpgradeStep ==
  ASSUME NEW s \in Servers
  PROVE  StartupInv /\ UpgradeStarts(s) => StartupInv'
<1> SUFFICES ASSUME StartupInv, UpgradeStarts(s) PROVE StartupInv'
  OBVIOUS
<1> USE DEF In, Becomes, GivesUp
<1>1. startFaults' \in Nat /\ db' = db /\ server[s].pc = "upgrade" /\ server[s].pc # "index"
  BY DEF UpgradeStarts, StartupInv
<1>2. CASE db.version \notin Known
  BY <1>1, <1>2, OffFits, ServerMoves DEF UpgradeStarts
<1>3. CASE db.version \in Known
  <2> DEFINE v == db.version
             r == AtRevision(s, v)
  <2>1. server' = [server EXCEPT ![s] = r]
    BY <1>3 DEF UpgradeStarts
  <2>2. /\ r \in Server
        /\ r.pc = (IF v = Newest THEN "commit" ELSE "inspect") /\ r.rev = v
        /\ r.todo = (IF v = Newest THEN <<>> ELSE Creates(v + 1))
        /\ r.made = server[s].made /\ r.written = server[s].written
    BY <1>3, AtRevisionIs
  <2>3. /\ 0 <= v => TablesTo(v) \subseteq db.tables
        /\ db.found # Foreign
    BY <1>3, StartupAssumption DEF StartupInv, DatabaseFits, Known, Empty, Foreign
  <2>4. server[s].written = Unwritten /\ (~ db.atomic => server[s].made = {})
    BY <1>1 DEF StartupInv, ServerFits, Climbs, Climbing
  <2> HIDE DEF r
  <2>5. ServerFits(r, db)
    BY <1>3, <2>2, <2>3, <2>4, ArrivesFit
  <2> QED BY <1>1, <2>1, <2>5, ServerMoves
<1> QED BY <1>2, <1>3

LEMMA InspectStep ==
  ASSUME NEW s \in Servers
  PROVE  StartupInv /\ Inspect(s) => StartupInv'
<1> SUFFICES ASSUME StartupInv, Inspect(s) PROVE StartupInv'
  OBVIOUS
<1> USE DEF In, Becomes, Go
<1>1. startFaults' \in Nat /\ db' = db /\ server[s].pc = "inspect" /\ server[s].pc # "index"
  BY DEF Inspect, StartupInv
<1>2. server[s] \in Server /\ ServerFits(server[s], db) /\ server[s].todo \in Seq(Tables)
  BY DEF StartupInv, Server
<1>3. CASE server[s].todo = <<>>
  <2> DEFINE r == [server[s] EXCEPT !.pc = "version"]
  <2>1. server' = [server EXCEPT ![s] = r]
    BY <1>3 DEF Inspect
  <2>2. r \in Server /\ r.pc = "version" /\ r.rev = server[s].rev /\ r.made = server[s].made
        /\ r.written = server[s].written /\ r.work = server[s].work
    BY GoesOn
  <2> HIDE DEF r
  <2>3. Todo(server[s]) = {}
    BY <1>3 DEF Todo
  <2>4. ServerFits(r, db)
    BY <1>1, <1>2, <2>2, <2>3 DEF ServerFits, Climbs, Stands, InOrder, Climbing, Up
  <2> QED BY <1>1, <2>1, <2>4, ServerMoves
<1>4. CASE server[s].todo # <<>> /\ Head(server[s].todo) \in db.tables \union server[s].made
  <2> DEFINE r == [server[s] EXCEPT !.todo = Tail(server[s].todo)]
  <2>1. server' = [server EXCEPT ![s] = r]
    BY <1>4 DEF Inspect, Skips
  <2>2. Tail(server[s].todo) \in Seq(Tables)
    BY <1>2, <1>4, TodoTail
  <2>3. r \in Server /\ r.pc = "inspect" /\ r.rev = server[s].rev /\ r.made = server[s].made
        /\ r.written = server[s].written /\ r.work = server[s].work /\ r.todo = Tail(server[s].todo)
    BY <1>1, <1>2, <2>2 DEF Server
  <2> HIDE DEF r
  <2>4. Todo(server[s]) \subseteq {Head(server[s].todo)} \union Todo(r)
    BY <1>2, <1>4, <2>3, TodoTail DEF Todo
  <2>5. ServerFits(r, db)
    BY <1>1, <1>2, <1>4, <2>3, <2>4 DEF ServerFits, Climbs, Stands, InOrder, Climbing, Up
  <2> QED BY <1>1, <2>1, <2>5, ServerMoves
<1>5. CASE server[s].todo # <<>> /\ Head(server[s].todo) \notin db.tables \union server[s].made
  <2> DEFINE r == [server[s] EXCEPT !.pc = "create"]
  <2>1. server' = [server EXCEPT ![s] = r]
    BY <1>5 DEF Inspect
  <2>2. r \in Server /\ r.pc = "create" /\ r.rev = server[s].rev /\ r.made = server[s].made
        /\ r.written = server[s].written /\ r.work = server[s].work /\ r.todo = server[s].todo
    BY GoesOn
  <2> HIDE DEF r
  <2>3. Todo(r) = Todo(server[s])
    BY <2>2 DEF Todo
  <2>4. ServerFits(r, db)
    BY <1>1, <1>2, <1>5, <2>2, <2>3 DEF ServerFits, Climbs, Stands, InOrder, Climbing, Up
  <2> QED BY <1>1, <2>1, <2>4, ServerMoves
<1> QED BY <1>3, <1>4, <1>5


LEMMA CreateSteps ==
  ASSUME NEW s \in Servers
  PROVE  StartupInv /\ (CreateTable(s) \/ CreateIndex(s)) => StartupInv'
<1> SUFFICES ASSUME StartupInv, CreateTable(s) \/ CreateIndex(s) PROVE StartupInv'
  OBVIOUS
<1> USE DEF In, Becomes, Go, GivesUp
<1> DEFINE h == Head(server[s].todo)
<1>1. startFaults' \in Nat
  BY DEF CreateTable, CreateIndex, StartupInv
<1>2. server[s] \in Server /\ ServerFits(server[s], db) /\ server[s].todo \in Seq(Tables) /\ DatabaseFits(db)
  BY DEF StartupInv, Server
<1>3. server[s].pc \in {"create", "index"} /\ server[s].todo # <<>>
  BY <1>2 DEF CreateTable, CreateIndex, ServerFits, Climbs
<1>4. h \in Tables
  BY <1>2, <1>3, TodoTail
<1>5. db.found # Foreign
  BY <1>2, <1>3 DEF ServerFits, Stands
<1>6. CASE CreateTable(s) /\ h \in db.tables
  BY <1>1, <1>6, OffFits, ServerMoves DEF CreateTable
<1>7. CASE CreateTable(s) /\ h \notin db.tables /\ db.atomic
  <2> DEFINE r == [server[s] EXCEPT !.pc = "index", !.made = @ \union {h}]
  <2>1. server' = [server EXCEPT ![s] = r] /\ db' = db /\ server[s].pc = "create"
    BY <1>7 DEF CreateTable
  <2>2. r \in Server /\ r.pc = "index" /\ r.rev = server[s].rev /\ r.made = server[s].made \union {h}
        /\ r.written = server[s].written /\ r.work = server[s].work /\ r.todo = server[s].todo
    BY <1>2, <1>4 DEF Server, Climbing
  <2>3. h = Head(r.todo)
    BY <2>2
  <2> HIDE DEF r, h
  <2>4. Todo(r) = Todo(server[s])
    BY <2>2 DEF Todo
  <2>5. ServerFits(r, db)
    BY <1>2, <1>3, <1>5, <1>7, <2>1, <2>2, <2>3, <2>4 DEF ServerFits, Climbs, Stands, InOrder, Climbing, Up
  <2> QED BY <1>1, <2>1, <2>5, ServerMoves
<1>8. CASE CreateTable(s) /\ h \notin db.tables /\ ~ db.atomic
  <2> DEFINE r == [server[s] EXCEPT !.pc = "index"]
  <2>1. server' = [server EXCEPT ![s] = r] /\ db' = [db EXCEPT !.tables = @ \union {h}] /\ server[s].pc = "create"
    BY <1>8 DEF CreateTable
  <2>2. r \in Server /\ r.pc = "index" /\ r.rev = server[s].rev /\ r.made = server[s].made
        /\ r.written = server[s].written /\ r.work = server[s].work /\ r.todo = server[s].todo
    BY <1>2 DEF Server, Climbing
  <2>3. h = Head(r.todo)
    BY <2>2
  <2> HIDE DEF r, h
  <2>4. /\ db' \in Database /\ db'.tables = db.tables \union {h} /\ db'.indexed = db.indexed
        /\ db'.torn = db.torn /\ db'.version = db.version /\ db'.atomic = db.atomic /\ db'.found = db.found
    BY <1>2, <1>4, <2>1 DEF DatabaseFits, Database
  <2>5. DatabaseFits(db')
    BY <1>2, <1>5, <2>4 DEF DatabaseFits
  <2>6. Todo(r) = Todo(server[s])
    BY <2>2 DEF Todo
  <2>7. ServerFits(r, db')
    BY <1>2, <1>3, <1>5, <1>8, <2>1, <2>2, <2>3, <2>4, <2>6
      DEF ServerFits, Climbs, Stands, InOrder, Climbing, Up
  <2>8. Indexes'
    <3> SUFFICES ASSUME NEW t \in db'.tables \ db'.indexed, t \notin db'.torn
                 PROVE  \E o \in Servers : server'[o].pc = "index" /\ Head(server'[o].todo) = t
      BY <1>8, <2>4 DEF Indexes
    <3>1. CASE t = h
      BY <2>1, <2>2, <2>3, <3>1 DEF StartupInv
    <3>2. CASE t # h
      <4>1. PICK o \in Servers : server[o].pc = "index" /\ Head(server[o].todo) = t
        BY <2>4, <3>2 DEF StartupInv, Indexes
      <4>2. server'[o] = server[o]
        BY <2>1, <4>1 DEF StartupInv
      <4> QED BY <4>1, <4>2
    <3> QED BY <3>1, <3>2
  <2> QED BY <1>1, <2>1, <2>4, <2>5, <2>7, <2>8, OneMoves
<1>9. CASE CreateIndex(s)
  <2> DEFINE r == [server[s] EXCEPT !.pc = "inspect", !.todo = Tail(@)]
  <2>1. server' = [server EXCEPT ![s] = r] /\ server[s].pc = "index"
        /\ db' = (IF db.atomic THEN db ELSE [db EXCEPT !.indexed = @ \union {h}])
    BY <1>9 DEF CreateIndex
  <2>2. Tail(server[s].todo) \in Seq(Tables)
    BY <1>2, <1>3, TodoTail
  <2>3. r \in Server /\ r.pc = "inspect" /\ r.rev = server[s].rev /\ r.made = server[s].made
        /\ r.written = server[s].written /\ r.work = server[s].work /\ r.todo = Tail(server[s].todo)
    BY <1>2, <2>2 DEF Server, Climbing
  <2> HIDE DEF r
  <2>4. Todo(server[s]) \subseteq {h} \union Todo(r)
    BY <1>2, <1>3, <2>3, TodoTail DEF Todo
  <2>5. h \in db.tables \union server[s].made
    BY <1>2, <2>1 DEF ServerFits, Climbs
  <2> HIDE DEF h
  <2>6. ServerFits(r, db)
    BY <1>2, <1>5, <2>1, <2>3, <2>4, <2>5 DEF ServerFits, Climbs, Stands, InOrder, Climbing, Up
  <2>7. CASE db.atomic
    BY <1>1, <2>1, <2>6, <2>7, ServerMoves
  <2>8. CASE ~ db.atomic
    <3>1. /\ db' \in Database /\ db'.tables = db.tables /\ db'.indexed = db.indexed \union {h}
          /\ db'.torn = db.torn /\ db'.version = db.version /\ db'.atomic = db.atomic /\ db'.found = db.found
      BY <1>2, <1>4, <2>1, <2>8 DEF DatabaseFits, Database
    <3>2. DatabaseFits(db') /\ ServerFits(r, db')
      BY <1>2, <2>6, <3>1, StaysFit DEF DatabaseFits
    <3>3. Indexes'
      <4> SUFFICES ASSUME NEW t \in db'.tables \ db'.indexed, t \notin db'.torn
                   PROVE  \E o \in Servers : server'[o].pc = "index" /\ Head(server'[o].todo) = t
        BY <2>8, <3>1 DEF Indexes
      <4>1. t # h
        BY <3>1
      <4>2. PICK o \in Servers : server[o].pc = "index" /\ Head(server[o].todo) = t
        BY <3>1 DEF StartupInv, Indexes
      <4>3. server'[o] = server[o]
        BY <2>1, <4>1, <4>2 DEF StartupInv, h
      <4> QED BY <4>2, <4>3
    <3> QED BY <1>1, <2>1, <3>1, <3>2, <3>3, OneMoves
  <2> QED BY <2>7, <2>8
<1> QED BY <1>6, <1>7, <1>8, <1>9

LEMMA VersionStep ==
  ASSUME NEW s \in Servers
  PROVE  StartupInv /\ WriteVersion(s) => StartupInv'
<1> SUFFICES ASSUME StartupInv, WriteVersion(s) PROVE StartupInv'
  OBVIOUS
<1> USE DEF In, Becomes, GivesUp
<1> DEFINE next == server[s].rev + 1
           a == AtRevision(s, next)
<1>1. startFaults' \in Nat /\ server[s].pc = "version"
  BY DEF WriteVersion, StartupInv
<1>2. server[s] \in Server /\ ServerFits(server[s], db) /\ DatabaseFits(db)
  BY DEF StartupInv
<1>3. server[s].rev \in Known /\ server[s].rev < Newest
  BY <1>1, <1>2 DEF ServerFits, Climbs, Climbing, Server
<1>4. next \in Known /\ next \in 0..Newest
  BY <1>3, StartupAssumption DEF Known, Empty
<1>5. db.found # Foreign /\ TablesTo(next) \subseteq db.tables \union server[s].made
  BY <1>1, <1>2 DEF ServerFits, Climbs, Stands
<1>6. /\ a \in Server
      /\ a.pc = (IF next = Newest THEN "commit" ELSE "inspect") /\ a.rev = next
      /\ a.todo = (IF next = Newest THEN <<>> ELSE Creates(next + 1))
      /\ a.made = server[s].made /\ a.written = server[s].written
  BY <1>4, AtRevisionIs
<1>7. \/ server' = [server EXCEPT ![s] = NoServer] /\ db' = db
      \/ db.atomic /\ server' = [server EXCEPT ![s] = [a EXCEPT !.written = next]] /\ db' = db
      \/ ~ db.atomic /\ server' = [server EXCEPT ![s] = a] /\ db' = [db EXCEPT !.version = next]
  BY DEF WriteVersion
<1> HIDE DEF next
<1>8. CASE server' = [server EXCEPT ![s] = NoServer] /\ db' = db
  BY <1>1, <1>8, OffFits, ServerMoves
<1>9. CASE db.atomic /\ server' = [server EXCEPT ![s] = [a EXCEPT !.written = next]] /\ db' = db
  <2> HIDE DEF a
  <2> DEFINE r == [a EXCEPT !.written = next]
  <2>1. /\ r \in Server /\ r.pc = a.pc /\ r.rev = next /\ r.todo = a.todo
        /\ r.made = server[s].made /\ r.written = next
    BY <1>4, <1>6 DEF Server
  <2> HIDE DEF r
  <2>2. ServerFits(r, db)
    BY <1>4, <1>5, <1>6, <1>9, <2>1, ArrivesFit
  <2> QED BY <1>1, <1>9, <2>2, ServerMoves DEF r
<1>10. CASE ~ db.atomic /\ server' = [server EXCEPT ![s] = a] /\ db' = [db EXCEPT !.version = next]
  <2> HIDE DEF a
  <2>1. server[s].made = {} /\ server[s].written = Unwritten
    BY <1>2, <1>10 DEF ServerFits, Climbs
  <2>2. /\ db' \in Database /\ db'.tables = db.tables /\ db'.indexed = db.indexed
        /\ db'.torn = db.torn /\ db'.version = next /\ db'.atomic = db.atomic /\ db'.found = db.found
    BY <1>2, <1>4, <1>10 DEF DatabaseFits, Database, Revision
  <2>3. next # Squashed
    BY <1>4, StartupAssumption DEF Squashed
  <2>4. DatabaseFits(db')
    BY <1>5, <2>1, <2>2, <2>3 DEF DatabaseFits
  <2>5. ServerFits(a, db')
    BY <1>4, <1>5, <1>6, <2>1, <2>2, ArrivesFit
  <2>6. Indexes'
    BY <1>1, <1>10, <2>2, IndexesStay
  <2> QED BY <1>1, <1>10, <2>2, <2>4, <2>5, <2>6, OneMoves
<1> QED BY <1>7, <1>8, <1>9, <1>10

LEMMA CommitStep ==
  ASSUME NEW s \in Servers
  PROVE  StartupInv /\ Commit(s) => StartupInv'
<1> SUFFICES ASSUME StartupInv, Commit(s) PROVE StartupInv'
  OBVIOUS
<1> USE DEF In, Becomes
<1> DEFINE r == [NoServer EXCEPT !.pc = "build"]
           made == server[s].made
           written == server[s].written
<1>1. /\ startFaults' \in Nat /\ server[s].pc = "commit" /\ server' = [server EXCEPT ![s] = r]
      /\ db' = [db EXCEPT !.tables = @ \union made, !.indexed = @ \union made,
                          !.version = IF written = Unwritten THEN @ ELSE written]
  BY DEF Commit, StartupInv
<1>2. server[s] \in Server /\ ServerFits(server[s], db) /\ DatabaseFits(db)
  BY DEF StartupInv
<1>3. /\ made \subseteq Tables /\ Tables \subseteq db.tables \union made /\ db.found # Foreign
      /\ written \in {Unwritten, Newest}
  <2>1. Newest \in Nat
    BY StartupAssumption
  <2>2. server[s].rev = Newest /\ made \in SUBSET Tables /\ db.found # Foreign
    BY <1>1, <1>2 DEF ServerFits, Climbs, Stands, Climbing, Server
  <2>3. TablesTo(server[s].rev) \subseteq db.tables \union made /\ written \in {Unwritten, server[s].rev}
    BY <1>1, <1>2, <2>1, <2>2 DEF ServerFits, Climbs, Climbing
  <2> HIDE DEF made, written
  <2> QED BY <2>2, <2>3 DEF Tables
<1>4. r \in Server /\ r.pc = "build" /\ r.made = {} /\ r.written = Unwritten
  BY OffFits DEF ServerFits, Server, NoServer, Up
<1> HIDE DEF r, made, written
<1>5. /\ db' \in Database /\ db'.tables = db.tables \union made /\ db'.indexed = db.indexed \union made
      /\ db'.torn = db.torn /\ db'.version \in {db.version, Newest}
      /\ db'.atomic = db.atomic /\ db'.found = db.found
  <2>1. Newest \in Revision
    BY StartupAssumption DEF Revision, Known, Empty
  <2> DEFINE v == IF written = Unwritten THEN db.version ELSE written
  <2>2. v \in Revision /\ v \in {db.version, Newest}
    BY <1>2, <1>3, <2>1 DEF DatabaseFits, Database
  <2>3. db' = [db EXCEPT !.tables = @ \union made, !.indexed = @ \union made, !.version = v]
    BY <1>1
  <2> HIDE DEF v
  <2> QED BY <1>2, <1>3, <2>2, <2>3 DEF DatabaseFits, Database
<1>6. db'.tables = Tables
  BY <1>3, <1>5 DEF Database
<1>7. DatabaseFits(db')
  <2>1. Newest # Squashed
    BY StartupAssumption DEF Squashed
  <2>2. TablesTo(Newest) \subseteq db'.tables
    BY <1>6 DEF Tables
  <2> QED BY <1>2, <1>3, <1>5, <2>1, <2>2 DEF DatabaseFits
<1>8. ServerFits(r, db')
  BY <1>3, <1>4, <1>5, <1>6 DEF ServerFits, Climbs, Stands, InOrder, Climbing, Up
<1>9. Indexes'
  BY <1>1, <1>5, IndexesStay
<1> QED BY <1>1, <1>5, <1>7, <1>8, <1>9, OneMoves

\* The steps of a server that is up: only where it is and its work change.
Doing(s, pc, w) == [server[s] EXCEPT !.pc = pc, !.work = w]

LEMMA WorkMoves ==
  ASSUME StartupInv, NEW s \in Servers, server[s].pc \in Up, NEW pc \in Up, NEW w \in Work,
         pc \in {"hooks", "tasks", "disposed"} /\ w.lro => "lro" \in w.late,
         pc \in {"tasks", "disposed"} /\ w.delivery => "delivery" \in w.late,
         pc = "disposed" /\ w.periodic => "periodic" \in w.late,
         server' = [server EXCEPT ![s] = Doing(s, pc, w)], db' = db, startFaults' \in Nat
  PROVE  StartupInv'
<1> DEFINE r == Doing(s, pc, w)
<1>1. ServerFits(server[s], db) /\ server[s].pc # "index"
  BY DEF StartupInv, Up
<1>2. r \in Server /\ r.pc = pc /\ r.work = w /\ r.made = server[s].made /\ r.written = server[s].written
  BY <1>1 DEF ServerFits, Server, Doing
<1> HIDE DEF r
<1>3. ServerFits(r, db)
  BY <1>1, <1>2 DEF ServerFits, Climbs, Stands, Climbing, Up, InOrder
<1> QED BY <1>1, <1>3, ServerMoves DEF r

LEMMA WorkSteps ==
  ASSUME NEW s \in Servers
  PROVE  StartupInv /\ (LroStarts(s) \/ LroEnds(s) \/ Fires(s) \/ DeliveryEnds(s)) => StartupInv'
<1> SUFFICES ASSUME StartupInv, LroStarts(s) \/ LroEnds(s) \/ Fires(s) \/ DeliveryEnds(s)
             PROVE  StartupInv'
  OBVIOUS
<1> USE DEF In, Becomes
<1> DEFINE pc == server[s].pc
           o == server[s].work
<1>1. startFaults' \in Nat /\ db' = db /\ pc \in Up /\ pc # "disposed"
  BY DEF LroStarts, LroEnds, Fires, DeliveryEnds, StartupInv, Working, Up
<1>2. server[s] \in Server /\ InOrder(server[s]) /\ o \in Work
  BY DEF StartupInv, ServerFits, Server
<1>3. CASE LroStarts(s)
  <2> DEFINE w == [o EXCEPT !.lro = TRUE]
  <2>1. server' = [server EXCEPT ![s] = Doing(s, pc, w)] /\ pc = "serving"
    BY <1>2, <1>3 DEF LroStarts, Doing, Server
  <2>2. w \in Work
    BY <1>2 DEF Work
  <2> HIDE DEF w
  <2> QED BY <1>1, <2>1, <2>2, WorkMoves
<1>4. CASE LroEnds(s)
  <2> DEFINE w == [o EXCEPT !.lro = FALSE]
  <2>1. server' = [server EXCEPT ![s] = Doing(s, pc, w)]
    BY <1>2, <1>4 DEF LroEnds, Doing, Server
  <2>2. w \in Work /\ w.lro = FALSE /\ w.delivery = o.delivery /\ w.late = o.late
    BY <1>2 DEF Work
  <2> HIDE DEF w
  <2> QED BY <1>1, <1>2, <2>1, <2>2, WorkMoves DEF InOrder
<1>5. CASE Fires(s)
  <2> DEFINE late == IF pc = "tasks" THEN o.late \union {"delivery"} ELSE o.late
             w == [o EXCEPT !.delivery = TRUE, !.late = late]
  <2>1. server' = [server EXCEPT ![s] = Doing(s, pc, w)]
    BY <1>2, <1>5 DEF Fires, Doing, Server
  <2>2. w \in Work /\ w.lro = o.lro /\ o.late \subseteq w.late /\ (pc = "tasks" => "delivery" \in w.late)
    BY <1>2 DEF Work
  <2> HIDE DEF w
  <2> QED BY <1>1, <1>2, <2>1, <2>2, WorkMoves DEF InOrder
<1>6. CASE DeliveryEnds(s)
  <2> DEFINE w == [o EXCEPT !.delivery = FALSE, !.late = @ \ {"delivery"}]
  <2>1. server' = [server EXCEPT ![s] = Doing(s, pc, w)]
    BY <1>2, <1>6 DEF DeliveryEnds, Doing, Server
  <2>2. w \in Work /\ w.lro = o.lro /\ w.delivery = FALSE /\ ("lro" \in o.late => "lro" \in w.late)
    BY <1>2 DEF Work
  <2> HIDE DEF w
  <2> QED BY <1>1, <1>2, <2>1, <2>2, WorkMoves DEF InOrder
<1> QED BY <1>3, <1>4, <1>5, <1>6

LEMMA StopSteps ==
  ASSUME NEW s \in Servers
  PROVE  StartupInv /\ (Builds(s) \/ Stops(s) \/ LrosStopped(s) \/ HooksStopped(s) \/ TasksStopped(s))
         => StartupInv'
<1> SUFFICES ASSUME StartupInv, Builds(s) \/ Stops(s) \/ LrosStopped(s) \/ HooksStopped(s) \/ TasksStopped(s)
             PROVE  StartupInv'
  OBVIOUS
<1> USE DEF In, Becomes, Go, GivesUp
<1> DEFINE o == server[s].work
<1>a. TasksStopped(s) => server[s].pc = "tasks" /\ UNCHANGED <<db, startFaults>>
  BY Zenon DEF TasksStopped
<1>b. TasksStopped(s) =>
        \E overdue \in BOOLEAN :
          server' = [server EXCEPT ![s] =
            [server[s] EXCEPT !.pc = "disposed", !.work.periodic = overdue,
                              !.work.late = IF overdue THEN @ \union {"periodic"} ELSE @]]
  BY Zenon DEF TasksStopped
<1>1. startFaults' \in Nat /\ db' = db
  BY <1>a DEF Builds, Stops, LrosStopped, HooksStopped, StartupInv
<1>2. server[s] \in Server /\ InOrder(server[s]) /\ o \in Work
  BY DEF StartupInv, ServerFits, Server
<1>3. server[s].pc \in Up /\ server[s].pc # "index"
  BY <1>a DEF Builds, Stops, LrosStopped, HooksStopped, Up
<1>4. CASE Builds(s) /\ ~ db.up
  BY <1>1, <1>3, <1>4, OffFits, ServerMoves DEF Builds
<1>5. CASE Builds(s) /\ db.up
  <2> DEFINE w == [o EXCEPT !.periodic = TRUE]
  <2>1. server' = [server EXCEPT ![s] = Doing(s, "serving", w)]
    BY <1>2, <1>5 DEF Builds, Doing, Server
  <2>2. w \in Work
    BY <1>2 DEF Work
  <2> HIDE DEF w
  <2> QED BY <1>1, <1>3, <2>1, <2>2, WorkMoves DEF Up
<1>6. CASE Stops(s)
  <2>1. server' = [server EXCEPT ![s] = Doing(s, "lros", o)]
    BY <1>2, <1>6 DEF Stops, Doing, Server
  <2> QED BY <1>1, <1>2, <1>3, <2>1, WorkMoves DEF Up
<1>7. CASE LrosStopped(s)
  <2> DEFINE late == IF o.lro THEN o.late \union {"lro"} ELSE o.late
             w == [o EXCEPT !.late = late]
  <2>1. server' = [server EXCEPT ![s] = Doing(s, "hooks", w)]
    BY <1>2, <1>7 DEF LrosStopped, Doing, Server
  <2>2. w \in Work /\ (w.lro => "lro" \in w.late)
    BY <1>2 DEF Work
  <2> HIDE DEF w
  <2> QED BY <1>1, <1>3, <2>1, <2>2, WorkMoves DEF Up
<1>8. CASE HooksStopped(s)
  <2> DEFINE late == IF o.delivery THEN o.late \union {"delivery"} ELSE o.late
             w == [o EXCEPT !.late = late]
  <2>1. server' = [server EXCEPT ![s] = Doing(s, "tasks", w)] /\ server[s].pc = "hooks"
    BY <1>2, <1>8 DEF HooksStopped, Doing, Server
  <2>2. w \in Work /\ w.lro = o.lro /\ o.late \subseteq w.late /\ (w.delivery => "delivery" \in w.late)
    BY <1>2 DEF Work
  <2> HIDE DEF w
  <2> QED BY <1>1, <1>2, <1>3, <2>1, <2>2, WorkMoves DEF Up, InOrder
<1>9. CASE TasksStopped(s)
  <2>1. PICK overdue \in BOOLEAN :
          server' = [server EXCEPT ![s] =
            [server[s] EXCEPT !.pc = "disposed", !.work.periodic = overdue,
                              !.work.late = IF overdue THEN @ \union {"periodic"} ELSE @]]
    BY <1>b, <1>9, Zenon
  <2> DEFINE late == IF overdue THEN o.late \union {"periodic"} ELSE o.late
             w == [o EXCEPT !.periodic = overdue, !.late = late]
  <2>2. server' = [server EXCEPT ![s] = Doing(s, "disposed", w)] /\ server[s].pc = "tasks"
    <3>1. CASE overdue = TRUE
      BY <1>a, <1>2, <1>9, <2>1, <3>1 DEF Doing, Server
    <3>2. CASE overdue = FALSE
      BY <1>a, <1>2, <1>9, <2>1, <3>2 DEF Doing, Server
    <3> QED BY <3>1, <3>2
  <2>3. w \in Work /\ w.lro = o.lro /\ w.delivery = o.delivery /\ o.late \subseteq w.late
        /\ (w.periodic => "periodic" \in w.late)
    BY <1>2 DEF Work
  <2> HIDE DEF w
  <2> QED BY <1>1, <1>2, <1>3, <2>2, <2>3, WorkMoves DEF Up, InOrder
<1> QED BY <1>4, <1>5, <1>6, <1>7, <1>8, <1>9

LEMMA StartupBegins == StartupInit => StartupInv
<1> SUFFICES ASSUME StartupInit PROVE StartupInv
  OBVIOUS
<1>1. PICK found \in {Empty, Squashed, Foreign} \union 0..Newest, atomic \in BOOLEAN :
        LET tables == IF found = Empty THEN {} ELSE IF found \in 0..Newest THEN TablesTo(found) ELSE {Core}
        IN  db = [up |-> TRUE, atomic |-> atomic, found |-> found, version |-> found,
                  tables |-> tables, indexed |-> tables, torn |-> {}]
  BY DEF StartupInit
<1> DEFINE tables == IF found = Empty THEN {} ELSE IF found \in 0..Newest THEN TablesTo(found) ELSE {Core}
<1>2. found \in Revision /\ found \in Int /\ Newest \in Int
  BY StartupAssumption DEF Revision, Known, Empty, Squashed, Foreign
<1>3. Core \in Tables
  BY DEF Tables, TablesTo
<1>4. found \in 0..Newest => TablesTo(found) \subseteq Tables
  BY <1>2, TablesGrow DEF Tables
<1>5. /\ tables \subseteq Tables
      /\ found = Squashed => Core \in tables
      /\ found \in 0..Newest => TablesTo(found) \subseteq tables
      /\ found = Foreign => tables = {Core}
  BY <1>3, <1>4, StartupAssumption DEF Empty, Squashed, Foreign
<1>6. db = [up |-> TRUE, atomic |-> atomic, found |-> found, version |-> found,
            tables |-> tables, indexed |-> tables, torn |-> {}]
  BY <1>1
<1> HIDE DEF tables
<1>7. DatabaseFits(db) /\ Indexes
  BY <1>2, <1>5, <1>6 DEF DatabaseFits, Database, Indexes
<1>8. server = [s \in Servers |-> NoServer] /\ startFaults = 0
  BY DEF StartupInit
<1>9. server \in [Servers -> Server] /\ \A s \in Servers : ServerFits(server[s], db)
  BY <1>8, OffFits DEF ServerFits
<1> QED BY <1>7, <1>8, <1>9 DEF StartupInv

LEMMA StartupStep == StartupInv /\ [StartupNext]_startupVars => StartupInv'
<1> SUFFICES ASSUME StartupInv, [StartupNext]_startupVars PROVE StartupInv'
  OBVIOUS
<1>1. CASE DbLeaves \/ DbReturns
  BY <1>1, DatabaseSteps
<1>2. ASSUME NEW s \in Servers, ServerStep(s) PROVE StartupInv'
  BY <1>2, CheckSteps, LossSteps, UpgradeStep, InspectStep, CreateSteps, VersionStep, CommitStep, StopSteps
    DEF ServerStep
<1>3. ASSUME NEW s \in Servers,
             Stops(s) \/ ServerCrash(s) \/ LroStarts(s) \/ LroEnds(s) \/ Fires(s) \/ DeliveryEnds(s)
      PROVE  StartupInv'
  BY <1>3, LossSteps, WorkSteps, StopSteps
<1>4. CASE UNCHANGED startupVars
  BY <1>4 DEF startupVars, StartupInv, Indexes
<1> QED BY <1>1, <1>2, <1>3, <1>4 DEF StartupNext

\* A server that is up finds all its tables, wherever an earlier start broke off; an
\* index is missing only where a creation was torn apart (init_db, alembic/versions).
THEOREM ServersFindTables == StartupSpec => []ServesComplete
<1>1. StartupInv => ServesComplete
  <2> SUFFICES ASSUME StartupInv PROVE ServesComplete
    OBVIOUS
  <2>1. ASSUME NEW s \in Servers, server[s].pc \in {"build", "serving", "lros", "hooks", "tasks"}
        PROVE  TablesTo(Newest) \subseteq db.tables /\ db.found # Foreign
    BY <2>1 DEF StartupInv, ServerFits, Stands, Up, Tables
  <2>2. ASSUME NEW t \in db.tables \ db.indexed
        PROVE  t \in db.torn \/ \E s \in Servers : In(s, "index") /\ Head(server[s].todo) = t
    BY DEF StartupInv, Indexes, In
  <2> QED BY <2>1, <2>2 DEF StartupInv, DatabaseFits, ServesComplete
<1> QED BY <1>1, StartupBegins, StartupStep, PTL DEF StartupSpec

\* What still works when a server lets go of its database is known to be late (lifespan).
THEOREM ShutdownsSettle == StartupSpec => []ShutdownSettles
<1>1. StartupInv => ShutdownSettles
  BY DEF StartupInv, ServerFits, InOrder, ShutdownSettles, In
<1> QED BY <1>1, StartupBegins, StartupStep, PTL DEF StartupSpec

-----------------------------------------------------------------------------
(***************************************************************************)
(* The streams.  What was sent is less than what is queued, and all that   *)
(* is no more than what was read, so what is read next goes to the end; as *)
(* the queued events differ, taking one leaves one less.                   *)
(***************************************************************************)
StreamSpec == StreamInit /\ [][StreamNext]_streamVars

View ==
  [producer: {"off", "reading", "ending", "done"}, consumer: {"off", "waiting", "closed"},
   queue: Seq(Int), read: Nat, dropped: Nat, inARow: Nat, sent: Seq(Int), from: Nat]

Ascends(s, k) == \A i, j \in 1..k : i < j /\ ~ IsMarker(s[i]) /\ ~ IsMarker(s[j]) => s[i] < s[j]

\* The k events sent and the m queued ascend, one after the other, as far as n.
InStep(s, k, q, m, n) ==
  /\ \A i \in 1..k : s[i] <= n
  /\ \A i \in 1..m : q[i] <= n
  /\ Ascends(s, k) /\ Ascends(q, m)
  /\ \A i \in 1..k, j \in 1..m : ~ IsMarker(s[i]) /\ ~ IsMarker(q[j]) => s[i] < q[j]

LEMMA PutLast ==
  ASSUME NEW k \in Nat, NEW m \in Nat, NEW s \in [1..k -> Int], NEW q \in [1..m -> Int],
         NEW n \in Nat, InStep(s, k, q, m, n), NEW e \in Int, NEW o \in Nat, n <= o, e <= o, IsMarker(e) \/ n < e,
         NEW t \in [1..(m + 1) -> Int], t[m + 1] = e, \A i \in 1..m : t[i] = q[i]
  PROVE  InStep(s, k, t, m + 1, o)
<1>1. Ascends(t, m + 1)
  <2>1. ASSUME NEW i \in 1..(m + 1), NEW j \in 1..(m + 1), i < j, ~ IsMarker(t[i]), ~ IsMarker(t[j])
        PROVE  t[i] < t[j]
    <3>1. i \in 1..m /\ t[i] = q[i] /\ q[i] <= n
      BY <2>1 DEF InStep
    <3>2. CASE j = m + 1
      BY <2>1, <3>1, <3>2
    <3>3. CASE j \in 1..m
      BY <2>1, <3>1, <3>3 DEF InStep, Ascends
    <3> QED BY <3>2, <3>3
  <2> QED BY <2>1 DEF Ascends
<1>2. \A i \in 1..k, j \in 1..(m + 1) : ~ IsMarker(s[i]) /\ ~ IsMarker(t[j]) => s[i] < t[j]
  BY DEF InStep
<1>3. ASSUME NEW i \in 1..k PROVE s[i] <= o
  BY DEF InStep
<1>4. ASSUME NEW i \in 1..(m + 1) PROVE t[i] <= o
  BY DEF InStep
<1> QED BY <1>1, <1>2, <1>3, <1>4 DEF InStep

LEMMA TakeFirst ==
  ASSUME NEW k \in Nat, NEW m \in Nat, NEW s \in [1..k -> Int], NEW q \in [1..(m + 1) -> Int],
         NEW n \in Nat, InStep(s, k, q, m + 1, n),
         NEW t \in [1..m -> Int], \A i \in 1..m : t[i] = q[i + 1],
         NEW u \in [1..(k + 1) -> Int], u[k + 1] = q[1], \A i \in 1..k : u[i] = s[i]
  PROVE  InStep(s, k, t, m, n) /\ InStep(u, k + 1, t, m, n)
<1>0. \A i \in 1..m : i + 1 \in 1..(m + 1)
  OBVIOUS
<1>1. 1 \in 1..(m + 1)
  OBVIOUS
<1>2. Ascends(t, m) /\ \A i \in 1..m : t[i] <= n
  BY <1>0 DEF InStep, Ascends
<1>3. \A i \in 1..k, j \in 1..m : ~ IsMarker(s[i]) /\ ~ IsMarker(t[j]) => s[i] < t[j]
  BY <1>0 DEF InStep
<1>4. Ascends(u, k + 1) /\ \A i \in 1..(k + 1) : u[i] <= n
  BY <1>1 DEF InStep, Ascends
<1>5. \A j \in 1..m : ~ IsMarker(q[1]) /\ ~ IsMarker(t[j]) => q[1] < t[j]
  BY <1>0, <1>1 DEF InStep, Ascends
<1>6. \A i \in 1..(k + 1), j \in 1..m : ~ IsMarker(u[i]) /\ ~ IsMarker(t[j]) => u[i] < t[j]
  BY <1>3, <1>5
<1> QED BY <1>2, <1>3, <1>4, <1>6 DEF InStep

LEMMA JoinAscends ==
  ASSUME NEW k \in Nat, NEW m \in Nat, NEW s \in [1..k -> Int], NEW q \in [1..m -> Int],
         NEW n \in Nat, InStep(s, k, q, m, n),
         NEW t \in [1..(k + m) -> Int], \A i \in 1..(k + m) : t[i] = IF i <= k THEN s[i] ELSE q[i - k]
  PROVE  Ascends(t, k + m)
<1>1. ASSUME NEW i \in 1..(k + m), NEW j \in 1..(k + m), i < j, ~ IsMarker(t[i]), ~ IsMarker(t[j])
      PROVE  t[i] < t[j]
  <2>1. CASE j <= k
    BY <1>1, <2>1 DEF InStep, Ascends
  <2>2. CASE i <= k /\ k < j
    <3>1. i \in 1..k /\ j - k \in 1..m /\ t[i] = s[i] /\ t[j] = q[j - k]
      BY <2>2
    <3> QED BY <1>1, <3>1 DEF InStep
  <2>3. CASE k < i
    <3>1. i - k \in 1..m /\ j - k \in 1..m /\ i - k < j - k /\ t[i] = q[i - k] /\ t[j] = q[j - k]
      BY <1>1, <2>3
    <3> QED BY <1>1, <3>1 DEF InStep, Ascends
  <2> QED BY <2>1, <2>2, <2>3
<1> QED BY <1>1 DEF Ascends

EventsTo(q, m) == {e \in {q[i] : i \in 1..m} : ~ IsMarker(e)}

LEMMA EventPut ==
  ASSUME NEW m \in Nat, NEW q \in [1..m -> Int], NEW e \in Int, ~ IsMarker(e), \A i \in 1..m : q[i] < e,
         NEW t \in [1..(m + 1) -> Int], t[m + 1] = e, \A i \in 1..m : t[i] = q[i],
         IsFiniteSet(EventsTo(q, m))
  PROVE  /\ IsFiniteSet(EventsTo(t, m + 1))
         /\ Cardinality(EventsTo(t, m + 1)) = Cardinality(EventsTo(q, m)) + 1
<1>1. EventsTo(t, m + 1) = EventsTo(q, m) \union {e}
  <2>1. {t[i] : i \in 1..(m + 1)} = {q[i] : i \in 1..m} \union {e}
    OBVIOUS
  <2> QED BY <2>1 DEF EventsTo
<1>2. e \notin EventsTo(q, m)
  BY DEF EventsTo
<1> QED BY <1>1, <1>2, FS_AddElement

LEMMA EventSent ==
  ASSUME NEW m \in Nat, NEW q \in [1..(m + 1) -> Int],
         NEW t \in [1..m -> Int], \A i \in 1..m : t[i] = q[i + 1],
         Ascends(q, m + 1), IsFiniteSet(EventsTo(q, m + 1))
  PROVE  /\ IsFiniteSet(EventsTo(t, m))
         /\ Cardinality(EventsTo(t, m)) =
              Cardinality(EventsTo(q, m + 1)) - (IF IsMarker(q[1]) THEN 0 ELSE 1)
<1> DEFINE e == q[1]
<1>1. {q[i] : i \in 1..(m + 1)} = {t[i] : i \in 1..m} \union {e}
  <2>1. \A i \in 1..m : i + 1 \in 1..(m + 1)
    OBVIOUS
  <2>2. \A i \in 1..(m + 1) : i = 1 \/ (i - 1 \in 1..m /\ t[i - 1] = q[i])
    OBVIOUS
  <2> QED BY <2>1, <2>2
<1>2. CASE IsMarker(e)
  <2>1. EventsTo(t, m) = EventsTo(q, m + 1)
    BY <1>1, <1>2 DEF EventsTo
  <2>2. Cardinality(EventsTo(q, m + 1)) \in Nat
    BY FS_CardinalityType
  <2> QED BY <1>2, <2>1, <2>2
<1>3. CASE ~ IsMarker(e)
  <2>1. ASSUME NEW i \in 1..m, ~ IsMarker(t[i]) PROVE t[i] # e
    <3>1. i + 1 \in 1..(m + 1) /\ 1 \in 1..(m + 1) /\ 1 < i + 1 /\ t[i] = q[i + 1]
      OBVIOUS
    <3> QED BY <1>3, <2>1, <3>1 DEF Ascends
  <2>2. EventsTo(t, m) = EventsTo(q, m + 1) \ {e}
    BY <1>1, <2>1 DEF EventsTo
  <2>3. e \in EventsTo(q, m + 1)
    BY <1>1, <1>3 DEF EventsTo
  <2>4. /\ IsFiniteSet(EventsTo(t, m))
        /\ Cardinality(EventsTo(t, m)) = Cardinality(EventsTo(q, m + 1)) - 1
    <3> HIDE DEF e
    <3> QED BY <2>2, <2>3, FS_RemoveElement
  <2> QED BY <1>3, <2>4
<1> QED BY <1>2, <1>3

\* The a events of the ring are the last of the b that it was fed.
RingTo(r, a, f, b) ==
  /\ a = IF b < RingSize THEN b ELSE RingSize
  /\ \A i \in 1..a : r[i] = f[b - a + i]

LEMMA RingGrows ==
  ASSUME NEW a \in Nat, NEW b \in Nat, NEW r \in [1..a -> Int], NEW f \in [1..b -> Int], RingTo(r, a, f, b),
         NEW e \in Int, NEW g \in [1..(b + 1) -> Int], g[b + 1] = e, \A i \in 1..b : g[i] = f[i]
  PROVE  /\ \A t \in [1..(a + 1) -> Int] :
              a < RingSize /\ t[a + 1] = e /\ (\A i \in 1..a : t[i] = r[i]) => RingTo(t, a + 1, g, b + 1)
         /\ \A t \in [1..a -> Int] :
              a >= RingSize /\ t[a] = e /\ (\A i \in 1..(a - 1) : t[i] = r[i + 1]) => RingTo(t, a, g, b + 1)
<1> USE StreamsAssumption
<1>1. ASSUME NEW t \in [1..(a + 1) -> Int], a < RingSize, t[a + 1] = e, \A i \in 1..a : t[i] = r[i]
      PROVE  RingTo(t, a + 1, g, b + 1)
  <2>1. a = b
    BY <1>1 DEF RingTo
  <2> QED BY <1>1, <2>1 DEF RingTo
<1>2. ASSUME NEW t \in [1..a -> Int], a >= RingSize, t[a] = e, \A i \in 1..(a - 1) : t[i] = r[i + 1]
      PROVE  RingTo(t, a, g, b + 1)
  <2>1. a = RingSize /\ b >= a
    BY <1>2 DEF RingTo
  <2>2. ASSUME NEW i \in 1..a PROVE t[i] = g[b + 1 - a + i]
    <3>1. CASE i = a
      BY <1>2, <3>1
    <3>2. CASE i # a
      <4>1. i + 1 \in 1..a /\ t[i] = r[i + 1] /\ b - a + i + 1 \in 1..b
        BY <1>2, <2>1, <3>2
      <4>2. r[i + 1] = f[b - a + (i + 1)]
        BY <4>1 DEF RingTo
      <4>3. b - a + (i + 1) = b - a + i + 1 /\ b + 1 - a + i = b - a + i + 1
        OBVIOUS
      <4> QED BY <4>1, <4>2, <4>3
    <3> QED BY <3>1, <3>2
  <2> QED BY <2>1, <2>2 DEF RingTo
<1> QED BY <1>1, <1>2

Fits(s, q, n) == InStep(s, Len(s), q, Len(q), n)

ViewFits(w) ==
  /\ w \in View
  /\ Fits(w.sent, w.queue, w.read)
  /\ IsFiniteSet(EventsIn(w.queue))
  /\ w.consumer = "waiting" => Len(w.sent) + Cardinality(EventsIn(w.queue)) + w.dropped = w.read - w.from

RingFits(r, f) == r \in Seq(Int) /\ f \in Seq(Int) /\ RingTo(r, Len(r), f, Len(f))

StreamInv ==
  /\ emitted \in Nat
  /\ view = [v \in Viewers |-> view[v]] /\ \A v \in Viewers : ViewFits(view[v])
  /\ RingFits(ring, fed)

LEMMA QueueIs ==
  ASSUME NEW q \in Seq(Int)
  PROVE  /\ Len(q) \in Nat /\ q \in [1..Len(q) -> Int] /\ EventsIn(q) = EventsTo(q, Len(q))
         /\ Ascending(q) <=> Ascends(q, Len(q))
BY DEF EventsIn, EventsTo, Range, Ascending, Ascends

LEMMA AppendIs ==
  ASSUME NEW q \in Seq(Int), NEW e \in Int
  PROVE  /\ Append(q, e) \in Seq(Int) /\ Len(Append(q, e)) = Len(q) + 1
         /\ Append(q, e)[Len(q) + 1] = e /\ \A i \in 1..Len(q) : Append(q, e)[i] = q[i]
OBVIOUS

LEMMA TailIs ==
  ASSUME NEW q \in Seq(Int), q # <<>>
  PROVE  /\ Tail(q) \in Seq(Int) /\ Len(q) = Len(Tail(q)) + 1 /\ Head(q) = q[1] /\ Head(q) \in Int
         /\ \A i \in 1..Len(Tail(q)) : Tail(q)[i] = q[i + 1]
OBVIOUS

\* What is put last is a marker, or an event after all others.
LEMMA FitsPut ==
  ASSUME NEW s \in Seq(Int), NEW q \in Seq(Int), NEW n \in Nat, Fits(s, q, n), NEW e \in Int, NEW o \in Nat,
         n <= o, e <= o, IsMarker(e) \/ n < e
  PROVE  Fits(s, Append(q, e), o)
<1> DEFINE k == Len(s)
           m == Len(q)
           t == Append(q, e)
<1>1. k \in Nat /\ m \in Nat /\ s \in [1..k -> Int] /\ q \in [1..m -> Int]
  BY QueueIs
<1>2. t \in [1..(m + 1) -> Int] /\ Len(t) = m + 1 /\ t[m + 1] = e /\ \A i \in 1..m : t[i] = q[i]
  BY AppendIs, QueueIs
<1>3. InStep(s, k, q, m, n)
  BY DEF Fits
<1> HIDE DEF k, m, t
<1>4. InStep(s, k, t, m + 1, o)
  BY <1>1, <1>2, <1>3, PutLast
<1> QED BY <1>2, <1>4 DEF Fits, k, m, t

LEMMA FitsSend ==
  ASSUME NEW s \in Seq(Int), NEW q \in Seq(Int), q # <<>>, NEW n \in Nat, Fits(s, q, n)
  PROVE  Fits(s, Tail(q), n) /\ Fits(Append(s, Head(q)), Tail(q), n)
<1> DEFINE k == Len(s)
           t == Tail(q)
           m == Len(t)
           e == Head(q)
           u == Append(s, e)
<1>1. k \in Nat /\ m \in Nat /\ s \in [1..k -> Int] /\ q \in [1..(m + 1) -> Int] /\ t \in [1..m -> Int]
      /\ e = q[1] /\ Len(q) = m + 1 /\ \A i \in 1..m : t[i] = q[i + 1]
  BY QueueIs, TailIs
<1>2. u \in [1..(k + 1) -> Int] /\ Len(u) = k + 1 /\ u[k + 1] = e /\ \A i \in 1..k : u[i] = s[i]
  BY AppendIs, TailIs, QueueIs
<1>3. InStep(s, k, q, m + 1, n)
  BY <1>1 DEF Fits
<1> HIDE DEF k, m, t, e, u
<1>4. InStep(s, k, t, m, n) /\ InStep(u, k + 1, t, m, n)
  BY <1>1, <1>2, <1>3, TakeFirst
<1> QED BY <1>2, <1>4 DEF Fits, k, m, t, e, u

LEMMA FitsFurther ==
  ASSUME NEW s \in Seq(Int), NEW q \in Seq(Int), NEW n \in Nat, Fits(s, q, n), NEW o \in Nat, n <= o
  PROVE  Fits(s, q, o)
<1>1. ASSUME NEW i \in 1..Len(s) PROVE s[i] <= o
  <2>1. s[i] \in Int /\ s[i] <= n
    BY DEF Fits, InStep
  <2> QED BY <2>1
<1>2. ASSUME NEW i \in 1..Len(q) PROVE q[i] <= o
  <2>1. q[i] \in Int /\ q[i] <= n
    BY DEF Fits, InStep
  <2> QED BY <2>1
<1> QED BY <1>1, <1>2 DEF Fits, InStep

LEMMA FitsMark ==
  ASSUME NEW s \in Seq(Int), NEW q \in Seq(Int), NEW n \in Nat, Fits(s, q, n), NEW e, IsMarker(e)
  PROVE  Fits(s, Put(q, e), n) /\ Put(q, e) \in Seq(Int) /\ EventsIn(Put(q, e)) = EventsIn(q)
<1>1. e \in Int /\ e <= n
  BY DEF IsMarker, End, Broken
<1>2. EventsIn(Append(q, e)) = EventsIn(q)
  <2> DEFINE m == Len(q)
             t == Append(q, e)
  <2>1. m \in Nat /\ DOMAIN q = 1..m /\ DOMAIN t = 1..(m + 1) /\ t[m + 1] = e /\ \A i \in 1..m : t[i] = q[i]
    BY <1>1, AppendIs, QueueIs
  <2> HIDE DEF m, t
  <2>2. Range(t) = {t[i] : i \in 1..(m + 1)} /\ Range(q) = {q[i] : i \in 1..m}
    BY <2>1 DEF Range
  <2>3. {t[i] : i \in 1..(m + 1)} = {q[i] : i \in 1..m} \union {e}
    BY <2>1
  <2>4. Range(t) = Range(q) \union {e}
    BY <2>2, <2>3
  <2>5. EventsIn(t) = EventsIn(q)
    BY <2>4 DEF EventsIn
  <2> QED BY <2>5 DEF t
<1>3. Fits(s, Append(q, e), n) /\ Append(q, e) \in Seq(Int)
  BY <1>1, FitsPut, AppendIs
<1> QED BY <1>2, <1>3 DEF Put

LEMMA EventsPut ==
  ASSUME NEW q \in Seq(Int), NEW e \in Int, ~ IsMarker(e), \A i \in 1..Len(q) : q[i] < e,
         IsFiniteSet(EventsIn(q))
  PROVE  /\ IsFiniteSet(EventsIn(Append(q, e)))
         /\ Cardinality(EventsIn(Append(q, e))) = Cardinality(EventsIn(q)) + 1
<1> DEFINE m == Len(q)
           t == Append(q, e)
<1>1. m \in Nat /\ q \in [1..m -> Int] /\ EventsIn(q) = EventsTo(q, m)
  BY QueueIs
<1>2. /\ t \in [1..(m + 1) -> Int] /\ t[m + 1] = e /\ \A i \in 1..m : t[i] = q[i]
      /\ EventsIn(t) = EventsTo(t, m + 1)
  BY AppendIs, QueueIs
<1>3. \A i \in 1..m : q[i] < e
  OBVIOUS
<1> HIDE DEF m, t
<1>4. IsFiniteSet(EventsTo(t, m + 1)) /\ Cardinality(EventsTo(t, m + 1)) = Cardinality(EventsTo(q, m)) + 1
  BY <1>1, <1>2, <1>3, EventPut
<1> QED BY <1>1, <1>2, <1>4 DEF t

LEMMA EventsSent ==
  ASSUME NEW q \in Seq(Int), q # <<>>, IsFiniteSet(EventsIn(q)), Ascends(q, Len(q))
  PROVE  /\ IsFiniteSet(EventsIn(Tail(q)))
         /\ Cardinality(EventsIn(Tail(q))) =
              Cardinality(EventsIn(q)) - (IF IsMarker(Head(q)) THEN 0 ELSE 1)
<1> DEFINE t == Tail(q)
           m == Len(t)
<1>1. /\ m \in Nat /\ q \in [1..(m + 1) -> Int] /\ t \in [1..m -> Int] /\ Head(q) = q[1]
      /\ \A i \in 1..m : t[i] = q[i + 1]
  BY QueueIs, TailIs
<1>2. EventsIn(q) = EventsTo(q, m + 1) /\ EventsIn(t) = EventsTo(t, m) /\ Ascends(q, m + 1)
  BY QueueIs, TailIs
<1> HIDE DEF m, t
<1>3. /\ IsFiniteSet(EventsTo(t, m))
      /\ Cardinality(EventsTo(t, m)) = Cardinality(EventsTo(q, m + 1)) - (IF IsMarker(q[1]) THEN 0 ELSE 1)
  BY <1>1, <1>2, EventSent
<1> QED BY <1>1, <1>2, <1>3 DEF t

LEMMA FitsAscend ==
  ASSUME NEW s \in Seq(Int), NEW q \in Seq(Int), NEW n \in Nat, Fits(s, q, n)
  PROVE  Ascending(s \o q)
<1> DEFINE k == Len(s)
           m == Len(q)
           t == s \o q
<1>1. k \in Nat /\ m \in Nat /\ s \in [1..k -> Int] /\ q \in [1..m -> Int]
  BY QueueIs
<1>2. t \in Seq(Int) /\ Len(t) = k + m /\ \A i \in 1..(k + m) : t[i] = IF i <= k THEN s[i] ELSE q[i - k]
  OBVIOUS
<1>3. InStep(s, k, q, m, n) /\ t \in [1..(k + m) -> Int]
  BY <1>2, QueueIs DEF Fits
<1> HIDE DEF k, m, t
<1>4. Ascends(t, k + m)
  BY <1>1, <1>2, <1>3, JoinAscends
<1> QED BY <1>2, <1>4, QueueIs DEF t

LEMMA RingFed ==
  ASSUME RingFits(ring, fed), NEW e \in Int
  PROVE  RingFits(Ringed(e), Append(fed, e))
<1> DEFINE a == Len(ring)
           b == Len(fed)
           g == Append(fed, e)
<1>1. a \in Nat /\ b \in Nat /\ ring \in [1..a -> Int] /\ fed \in [1..b -> Int] /\ RingTo(ring, a, fed, b)
      /\ ring \in Seq(Int) /\ fed \in Seq(Int)
  BY QueueIs DEF RingFits
<1>2. /\ g \in Seq(Int) /\ g \in [1..(b + 1) -> Int] /\ Len(g) = b + 1 /\ g[b + 1] = e
      /\ \A i \in 1..b : g[i] = fed[i]
  BY <1>1, AppendIs, QueueIs
<1>3. CASE a < RingSize
  <2> DEFINE t == Append(ring, e)
  <2>1. /\ t \in Seq(Int) /\ t \in [1..(a + 1) -> Int] /\ Len(t) = a + 1 /\ t[a + 1] = e
        /\ \A i \in 1..a : t[i] = ring[i]
    BY <1>1, AppendIs, QueueIs
  <2>2. Ringed(e) = t
    BY <1>3 DEF Ringed
  <2> HIDE DEF a, b, g, t
  <2>3. RingTo(t, a + 1, g, b + 1)
    BY <1>1, <1>2, <1>3, <2>1, RingGrows
  <2> QED BY <1>2, <2>1, <2>2, <2>3 DEF RingFits, g
<1>4. CASE ~ (a < RingSize)
  <2> DEFINE r == Tail(ring)
             t == Append(r, e)
  <2>1. ring # <<>> /\ a >= RingSize
    BY <1>1, <1>4, StreamsAssumption
  <2>2. r \in Seq(Int) /\ Len(r) = a - 1 /\ \A i \in 1..(a - 1) : r[i] = ring[i + 1]
    BY <1>1, <2>1, TailIs, QueueIs
  <2>3. /\ t \in Seq(Int) /\ t \in [1..a -> Int] /\ Len(t) = a /\ t[a] = e
        /\ \A i \in 1..(a - 1) : t[i] = ring[i + 1]
    <3> HIDE DEF r, a
    <3>1. /\ t \in Seq(Int) /\ t \in [1..Len(t) -> Int] /\ Len(t) = Len(r) + 1 /\ t[Len(r) + 1] = e
          /\ \A i \in 1..Len(r) : t[i] = r[i]
      BY <2>2, AppendIs, QueueIs
    <3> HIDE DEF t
    <3> QED BY <1>1, <2>2, <3>1
  <2>4. Ringed(e) = t
    BY <1>4 DEF Ringed
  <2> HIDE DEF a, b, g, t
  <2>5. RingTo(t, a, g, b + 1)
    BY <1>1, <1>2, <2>1, <2>3, RingGrows
  <2> QED BY <1>2, <2>3, <2>4, <2>5 DEF RingFits, g
<1> QED BY <1>3, <1>4

\* One view changes, and the ring does not.
LEMMA ViewMoves ==
  ASSUME StreamInv, NEW v \in Viewers, NEW w, ViewFits(w), view' = [view EXCEPT ![v] = w],
         UNCHANGED emitted, RingFits(ring', fed')
  PROVE  StreamInv'
<1>1. /\ view' = [o \in Viewers |-> view'[o]] /\ view'[v] = w
      /\ \A o \in Viewers : o # v => view'[o] = view[o]
  BY DEF StreamInv
<1> QED BY <1>1 DEF StreamInv

LEMMA LargerOfTwo == ASSUME NEW a \in Int, NEW b \in Int PROVE Max({a, b}) = IF a >= b THEN a ELSE b
BY DEF Max

LEMMA NothingQueued ==
  /\ \A n \in Nat : Fits(<<>>, <<>>, n)
  /\ EventsIn(<<>>) = {} /\ IsFiniteSet({}) /\ Cardinality({}) = 0
  /\ <<>> \in Seq(Int) /\ Len(<<>>) = 0
<1>1. \A n : Fits(<<>>, <<>>, n)
  BY DEF Fits, InStep, Ascends
<1>2. EventsIn(<<>>) = {}
  BY DEF EventsIn, Range
<1> QED BY <1>1, <1>2, FS_EmptySet

LEMMA OpenStep == ASSUME StreamInv, NEW v \in Viewers, Opens(v) PROVE StreamInv'
<1> DEFINE n == Max({0, emitted - TailLines})
           w == [NoView EXCEPT !.producer = "reading", !.consumer = "waiting", !.read = n, !.from = n]
<1>1. view' = [view EXCEPT ![v] = w] /\ UNCHANGED <<emitted, ring, fed>>
  BY DEF Opens
<1>2. n \in Nat
  <2> DEFINE x == emitted - TailLines
  <2>1. x \in Int
    BY StreamsAssumption DEF StreamInv
  <2> HIDE DEF x
  <2>2. Max({0, x}) = IF 0 >= x THEN 0 ELSE x
    BY <2>1, LargerOfTwo
  <2>3. Max({0, x}) \in Nat
    BY <2>1, <2>2
  <2> QED BY <2>3 DEF x
<1> HIDE DEF n
<1>3. /\ w \in View /\ w.queue = <<>> /\ w.sent = <<>> /\ w.read = n /\ w.from = n /\ w.dropped = 0
  BY <1>2, NothingQueued DEF View, NoView
<1> HIDE DEF w
<1>4. ViewFits(w)
  <2>1. Len(w.sent) + Cardinality(EventsIn(w.queue)) + w.dropped = w.read - w.from
    <3>1. Len(w.sent) = 0 /\ Cardinality(EventsIn(w.queue)) = 0
      BY <1>3, NothingQueued
    <3> QED BY <1>2, <1>3, <3>1
  <2>2. Fits(w.sent, w.queue, w.read) /\ IsFiniteSet(EventsIn(w.queue))
    BY <1>2, <1>3, NothingQueued
  <2> QED BY <1>3, <2>1, <2>2 DEF ViewFits
<1> QED BY <1>1, <1>4, ViewMoves DEF StreamInv

LEMMA ReadStep == ASSUME StreamInv, NEW v \in Viewers, Reads(v) PROVE StreamInv'
<1> DEFINE o == view[v]
           e == o.read + 1
           fits == Len(o.queue) < QueueSize
           inARow == IF fits THEN 0 ELSE o.inARow + 1
           queue == Put(o.queue, e)
           dropped == IF fits THEN o.dropped ELSE o.dropped + 1
           producer == IF inARow >= DropLimit THEN "ending" ELSE "reading"
           w == [o EXCEPT !.read = e, !.queue = queue, !.dropped = dropped, !.inARow = inARow, !.producer = producer]
<1>0. ViewFits(o) /\ o \in View
  BY DEF StreamInv, ViewFits
<1>1. view' = [view EXCEPT ![v] = w] /\ ring' = Ringed(e) /\ fed' = Append(fed, e) /\ UNCHANGED emitted
  BY DEF Reads, StreamInv
<1>2. e \in Nat /\ inARow \in Nat /\ dropped \in Nat /\ producer \in {"ending", "reading"} /\ queue \in Seq(Int)
      /\ o.queue \in Seq(Int) /\ o.sent \in Seq(Int) /\ o.read \in Nat /\ o.dropped \in Nat /\ o.from \in Nat
  BY <1>0 DEF View, Put
<1>3. ~ IsMarker(e) /\ Fits(o.sent, queue, e)
  <2>1. Fits(o.sent, o.queue, o.read) /\ ~ IsMarker(e) /\ o.read < e
    BY <1>0, <1>2 DEF ViewFits, IsMarker, End, Broken
  <2>2. Fits(o.sent, o.queue, e)
    <3> HIDE DEF e, o
    <3>1. e \in Nat /\ o.read <= e
      BY <1>2, <2>1
    <3> QED BY <1>2, <2>1, <3>1, FitsFurther
  <2>3. Fits(o.sent, Append(o.queue, e), e)
    <3> HIDE DEF e, o
    <3> QED BY <1>2, <2>1, FitsPut
  <2> QED BY <2>1, <2>2, <2>3 DEF Put
<1>4. \A i \in 1..Len(o.queue) : o.queue[i] < e
  BY <1>0, <1>2, QueueIs DEF ViewFits, Fits, InStep
<1>5. /\ IsFiniteSet(EventsIn(queue))
      /\ Cardinality(EventsIn(queue)) + dropped = Cardinality(EventsIn(o.queue)) + o.dropped + 1
  <2>1. IsFiniteSet(EventsIn(o.queue)) /\ Cardinality(EventsIn(o.queue)) \in Nat
    BY <1>0, FS_CardinalityType DEF ViewFits
  <2>2. CASE fits
    <3>1. queue = Append(o.queue, e) /\ dropped = o.dropped
      BY <2>2 DEF Put
    <3> HIDE DEF e, queue, dropped, o
    <3>0. e \in Int /\ o.queue \in Seq(Int) /\ ~ IsMarker(e)
      BY <1>2, <1>3
    <3>2. Cardinality(EventsIn(Append(o.queue, e))) = Cardinality(EventsIn(o.queue)) + 1
          /\ IsFiniteSet(EventsIn(Append(o.queue, e)))
      BY <1>4, <2>1, <3>0, EventsPut
    <3> QED BY <1>2, <2>1, <3>1, <3>2
  <2>3. CASE ~ fits
    <3>1. queue = o.queue /\ dropped = o.dropped + 1
      BY <2>3 DEF Put
    <3> HIDE DEF queue, dropped
    <3> QED BY <1>2, <2>1, <3>1
  <2> QED BY <2>2, <2>3
<1>6. e = o.read + 1
  OBVIOUS
<1> HIDE DEF e, inARow, dropped, producer, queue
<1>7. /\ w \in View /\ w.queue = queue /\ w.sent = o.sent /\ w.read = e /\ w.from = o.from /\ w.dropped = dropped
      /\ w.consumer = o.consumer
  BY <1>0, <1>2 DEF View
<1> HIDE DEF w, o
<1>8. Cardinality(EventsIn(queue)) \in Nat /\ Cardinality(EventsIn(o.queue)) \in Nat /\ Len(o.sent) \in Nat
  BY <1>0, <1>2, <1>5, FS_CardinalityType DEF ViewFits
<1>9. ViewFits(w)
  <2>1. o.consumer = "waiting" => Len(o.sent) + Cardinality(EventsIn(queue)) + dropped = e - o.from
    <3> DEFINE c == Cardinality(EventsIn(queue))
               d == Cardinality(EventsIn(o.queue))
               k == Len(o.sent)
    <3>1. o.consumer = "waiting" => k + d + o.dropped = o.read - o.from
      BY <1>0 DEF ViewFits
    <3>2. c \in Nat /\ d \in Nat /\ k \in Nat /\ c + dropped = d + o.dropped + 1
      BY <1>5, <1>8
    <3> HIDE DEF c, d, k
    <3>3. o.dropped \in Nat /\ dropped \in Nat /\ o.read \in Nat /\ o.from \in Nat
      BY <1>2
    <3>4. o.consumer = "waiting" => k + c + dropped = e - o.from
      BY <1>6, <3>1, <3>2, <3>3
    <3> QED BY <3>4 DEF c, k
  <2> QED BY <1>3, <1>5, <1>7, <2>1 DEF ViewFits
<1>10. RingFits(ring', fed')
  BY <1>1, <1>2, RingFed DEF StreamInv
<1> QED BY <1>1, <1>9, <1>10, ViewMoves

\* A producer ends: all it puts into the queue are markers.
LEMMA EndFits ==
  ASSUME StreamInv, NEW v \in Viewers, NEW m, IsMarker(m), NEW p \in {"ending", "done"}, NEW queue,
         queue \in {view[v].queue, Put(view[v].queue, m)},
         view' = [view EXCEPT ![v] = [view[v] EXCEPT !.producer = p, !.queue = queue]],
         UNCHANGED <<emitted, ring, fed>>
  PROVE  StreamInv'
<1> DEFINE o == view[v]
           w == [o EXCEPT !.producer = p, !.queue = queue]
<1>0. ViewFits(o) /\ o \in View /\ o.queue \in Seq(Int) /\ o.sent \in Seq(Int) /\ o.read \in Nat
  BY DEF StreamInv, ViewFits, View
<1>1. queue \in Seq(Int) /\ Fits(o.sent, queue, o.read) /\ EventsIn(queue) = EventsIn(o.queue)
  BY <1>0, FitsMark DEF ViewFits
<1>2. /\ w \in View /\ w.queue = queue /\ w.sent = o.sent /\ w.read = o.read /\ w.from = o.from
      /\ w.dropped = o.dropped /\ w.consumer = o.consumer
  BY <1>0, <1>1 DEF View
<1>3. view' = [view EXCEPT ![v] = w]
  OBVIOUS
<1> HIDE DEF w, o
<1>4. ViewFits(w)
  BY <1>0, <1>1, <1>2 DEF ViewFits
<1> QED BY <1>3, <1>4, ViewMoves DEF StreamInv

LEMMA EndSteps == ASSUME StreamInv, NEW v \in Viewers, StreamEnds(v) \/ Leaves(v) PROVE StreamInv'
<1>1. CASE StreamEnds(v)
  <2> DEFINE queue == IF streamUp = "failed" THEN Put(view[v].queue, Broken) ELSE view[v].queue
  <2>1. /\ view' = [view EXCEPT ![v] = [view[v] EXCEPT !.producer = "ending", !.queue = queue]]
        /\ UNCHANGED <<emitted, ring, fed>>
    BY <1>1 DEF StreamEnds, StreamInv
  <2>2. queue \in {view[v].queue, Put(view[v].queue, Broken)} /\ IsMarker(Broken)
    BY DEF IsMarker
  <2> HIDE DEF queue
  <2> QED BY <2>1, <2>2, EndFits
<1>2. CASE Leaves(v)
  <2> DEFINE queue == Put(view[v].queue, End)
  <2>1. /\ view' = [view EXCEPT ![v] = [view[v] EXCEPT !.producer = "done", !.queue = queue]]
        /\ UNCHANGED <<emitted, ring, fed>>
    BY <1>2 DEF Leaves, StreamInv
  <2>2. queue \in {view[v].queue, Put(view[v].queue, End)} /\ IsMarker(End)
    BY DEF IsMarker
  <2> HIDE DEF queue
  <2> QED BY <2>1, <2>2, EndFits
<1> QED BY <1>1, <1>2

LEMMA CloseFits == ASSUME StreamInv, NEW v \in Viewers, Closes(v), UNCHANGED <<emitted, ring, fed>> PROVE StreamInv'
<1> DEFINE o == view[v]
           w == [o EXCEPT !.consumer = "closed", !.producer = "done", !.queue = <<>>]
<1>0. ViewFits(o) /\ o \in View
  BY DEF StreamInv, ViewFits
<1>1. view' = [view EXCEPT ![v] = w]
  BY DEF Closes, StreamInv
<1>2. w \in View /\ w.queue = <<>> /\ w.sent = o.sent /\ w.read = o.read /\ w.consumer = "closed"
  BY <1>0, NothingQueued DEF View
<1> HIDE DEF w
<1>3. Fits(o.sent, <<>>, o.read)
  BY <1>0 DEF ViewFits, Fits, InStep, Ascends
<1>4. ViewFits(w)
  BY <1>2, <1>3, NothingQueued DEF ViewFits
<1> QED BY <1>1, <1>4, ViewMoves DEF StreamInv

LEMMA SendStep == ASSUME StreamInv, NEW v \in Viewers, Sends(v) PROVE StreamInv'
<1> DEFINE o == view[v]
           e == Head(o.queue)
           t == Tail(o.queue)
           sent == IF e = Broken THEN o.sent ELSE Append(o.sent, e)
           w == [o EXCEPT !.queue = t, !.sent = sent]
<1>0. ViewFits(o) /\ o \in View /\ o.queue \in Seq(Int) /\ o.queue # <<>> /\ o.sent \in Seq(Int)
      /\ o.read \in Nat /\ o.dropped \in Nat /\ o.from \in Nat
  BY DEF StreamInv, ViewFits, View, Sends
<1>1. UNCHANGED <<emitted, ring, fed>>
  BY DEF Sends
<1>2. CASE e = End
  BY <1>1, <1>2, CloseFits DEF Sends
<1>3. CASE e # End
  <2>1. view' = [view EXCEPT ![v] = w]
    BY <1>3 DEF Sends, StreamInv
  <2>2. e \in Int /\ t \in Seq(Int) /\ sent \in Seq(Int)
        /\ Len(sent) = Len(o.sent) + (IF IsMarker(e) THEN 0 ELSE 1)
    <3>1. e \in Int /\ t \in Seq(Int)
      BY <1>0, TailIs
    <3>2. IsMarker(e) <=> e = Broken
      BY <1>3 DEF IsMarker
    <3>3. Append(o.sent, e) \in Seq(Int) /\ Len(Append(o.sent, e)) = Len(o.sent) + 1 /\ Len(o.sent) \in Nat
      <4> HIDE DEF e, t, o
      <4> QED BY <1>0, <3>1, AppendIs, QueueIs
    <3> HIDE DEF e, t, o
    <3>4. CASE e = Broken
      <4>1. sent = o.sent
        BY <3>4
      <4> QED BY <1>0, <3>1, <3>2, <3>3, <3>4, <4>1
    <3>5. CASE e # Broken
      <4>1. sent = Append(o.sent, e)
        BY <3>5
      <4> HIDE DEF sent
      <4> QED BY <3>1, <3>2, <3>3, <3>5, <4>1
    <3> QED BY <3>4, <3>5
  <2>3. Fits(o.sent, o.queue, o.read) /\ Ascends(o.queue, Len(o.queue)) /\ IsFiniteSet(EventsIn(o.queue))
    BY <1>0 DEF ViewFits, Fits, InStep
  <2>4. Fits(sent, t, o.read)
    BY <1>0, <2>3, FitsSend
  <2>5. /\ IsFiniteSet(EventsIn(t))
        /\ Cardinality(EventsIn(t)) = Cardinality(EventsIn(o.queue)) - (IF IsMarker(e) THEN 0 ELSE 1)
    BY <1>0, <2>3, EventsSent
  <2>6. Cardinality(EventsIn(o.queue)) \in Nat /\ Len(o.sent) \in Nat
    BY <1>0, <2>3, FS_CardinalityType
  <2> HIDE DEF t, sent, e
  <2>7. /\ w \in View /\ w.queue = t /\ w.sent = sent /\ w.read = o.read /\ w.from = o.from
        /\ w.dropped = o.dropped /\ w.consumer = o.consumer
    BY <1>0, <2>2 DEF View
  <2> HIDE DEF w, o
  <2>8. ViewFits(w)
    <3>1. o.consumer = "waiting" => Len(sent) + Cardinality(EventsIn(t)) + o.dropped = o.read - o.from
      <4> DEFINE c == Cardinality(EventsIn(t))
                 d == Cardinality(EventsIn(o.queue))
                 k == Len(o.sent)
      <4>1. o.consumer = "waiting" => k + d + o.dropped = o.read - o.from
        BY <1>0 DEF ViewFits
      <4>2. d \in Nat /\ k \in Nat
            /\ \E x \in {0, 1} : c = d - x /\ Len(sent) = k + x
        BY <2>2, <2>5, <2>6
      <4> HIDE DEF c, d, k
      <4>3. o.consumer = "waiting" => Len(sent) + c + o.dropped = o.read - o.from
        BY <1>0, <4>1, <4>2
      <4> QED BY <4>3 DEF c
    <3> QED BY <2>4, <2>5, <2>7, <3>1 DEF ViewFits
  <2> QED BY <1>1, <2>1, <2>8, ViewMoves DEF StreamInv
<1> QED BY <1>2, <1>3

LEMMA StreamStep == StreamInv /\ [StreamNext]_streamVars => StreamInv'
<1> SUFFICES ASSUME StreamInv, [StreamNext]_streamVars PROVE StreamInv'
  OBVIOUS
<1>1. CASE Emits
  BY <1>1 DEF Emits, StreamInv
<1>2. CASE StreamBreaks \/ SessionNext \/ UNCHANGED streamVars
  BY <1>2 DEF StreamBreaks, SessionNext, SessionStarts, ClientGone, CallEnds, PumpEnds, streamVars, StreamInv
<1>3. ASSUME NEW v \in Viewers, \/ Opens(v) \/ Reads(v) \/ StreamEnds(v) \/ Leaves(v)
                                \/ Sends(v) \/ TimesOut(v) \/ Disconnects(v)
      PROVE  StreamInv'
  <2>1. CASE TimesOut(v) \/ Disconnects(v)
    BY <2>1, CloseFits DEF TimesOut, Disconnects
  <2> QED BY <1>3, <2>1, OpenStep, ReadStep, EndSteps, SendStep
<1> QED BY <1>1, <1>2, <1>3 DEF StreamNext, ViewerNext

\* What a viewer was sent is in order, and together with what is queued and what was
\* dropped it accounts for all that was read for it (sandbox_events); the ring holds
\* the newest of what it was fed (BypassService.ingest_log).
THEOREM EventsAccounted == StreamSpec => []Accounted
<1>1. StreamInit => StreamInv
  <2> SUFFICES ASSUME StreamInit PROVE StreamInv
    OBVIOUS
  <2>1. ViewFits(NoView)
    BY NothingQueued DEF ViewFits, NoView, View
  <2>2. RingFits(<<>>, <<>>)
    BY StreamsAssumption DEF RingFits, RingTo
  <2> QED BY <2>1, <2>2 DEF StreamInit, StreamInv
<1>2. StreamInv => Accounted
  <2> SUFFICES ASSUME StreamInv PROVE Accounted
    OBVIOUS
  <2>1. ASSUME NEW v \in Viewers PROVE Ascending(view[v].sent \o view[v].queue)
    BY FitsAscend DEF StreamInv, ViewFits, View
  <2>2. /\ ring = SubSeq(fed, Len(fed) - Len(ring) + 1, Len(fed))
        /\ Len(ring) <= RingSize /\ (Len(fed) >= RingSize => Len(ring) = RingSize)
    <3>1. ring \in Seq(Int) /\ fed \in Seq(Int) /\ Len(ring) \in Nat /\ Len(fed) \in Nat /\ Len(ring) <= Len(fed)
      BY StreamsAssumption, QueueIs DEF StreamInv, RingFits, RingTo
    <3> DEFINE s == SubSeq(fed, Len(fed) - Len(ring) + 1, Len(fed))
    <3>2. s \in Seq(Int) /\ Len(s) = Len(ring)
      BY <3>1
    <3>3. \A i \in 1..Len(ring) : s[i] = fed[Len(fed) - Len(ring) + i]
      BY <3>1
    <3>4. \A i \in 1..Len(ring) : s[i] = ring[i]
      BY <3>3 DEF StreamInv, RingFits, RingTo
    <3> HIDE DEF s
    <3>5. ring = s
      <4> DEFINE a == Len(ring)
      <4>1. ring \in [1..a -> Int] /\ s \in [1..a -> Int]
        BY <3>1, <3>2, QueueIs
      <4> HIDE DEF a
      <4> QED BY <3>4, <4>1 DEF a
    <3>6. Len(ring) = IF Len(fed) < RingSize THEN Len(fed) ELSE RingSize
      BY DEF StreamInv, RingFits, RingTo
    <3>7. Len(ring) <= RingSize /\ (Len(fed) >= RingSize => Len(ring) = RingSize)
      <4> DEFINE a == Len(ring)
                 b == Len(fed)
      <4>1. a \in Nat /\ b \in Nat /\ a = IF b < RingSize THEN b ELSE RingSize
        BY <3>1, <3>6
      <4> HIDE DEF a, b
      <4>2. a <= RingSize /\ (b >= RingSize => a = RingSize)
        BY <4>1, StreamsAssumption
      <4> QED BY <4>2 DEF a, b
    <3> QED BY <3>5, <3>7 DEF s
  <2> QED BY <2>1, <2>2 DEF StreamInv, ViewFits, Accounted
<1> QED BY <1>1, <1>2, StreamStep, PTL DEF StreamSpec

=============================================================================
