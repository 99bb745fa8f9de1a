----------------------------- MODULE PolicyWrites -----------------------------
(***************************************************************************)
(* The policy document of one sandbox and the requests that write it: the  *)
(* GitOps apply, the whole-document update, the edits of one rule and the  *)
(* presets (api/routes/policies.py, services/policy.py), under the pins of *)
(* services/policy_pin.py.                                                 *)
(*                                                                         *)
(* The gateway holds the document and takes whatever is written last; the  *)
(* service reads it in one awaited call and writes it in another.  A rule  *)
(* stands for any part of the document that one request can set.  The hash *)
(* of a document is its contents.                                          *)
(***************************************************************************)
EXTENDS Integers, FiniteSets

CONSTANTS
  Requests,  \* HTTP requests, each made once
  Actors,    \* who makes them
  OneTap,    \* the actor all one-tap links act as
  Chunks,    \* rules a draft chunk proposes; the chunk's id is its rule
  Keys,      \* the other rules
  Docs,      \* YAML documents and presets
  Content,   \* the rules of a document
  Kinds,     \* the kinds of requests that are made
  MaxEvents  \* bound on all that is not a step of a request: pins, failed
             \* calls, crashes, changes of the workflow and of the drafts

Rules == Chunks \union Keys

Direct  == {"put"}                         \* writes a document it has not read
RuleEdits    == {"add", "remove"}          \* of one network rule
PathEdits    == {"addPath", "removePath"}  \* of one filesystem path
ProcessEdits == {"process"}                \* of the user and the landlock mode
PresetEdits  == {"preset"}                 \* adds the rules of a preset
\* These read the document, change it and write it.
Edits == RuleEdits \union PathEdits \union ProcessEdits \union PresetEdits
Applies == {"replace", "merge"}            \* the two modes of apply
Votes   == {"approve", "tap", "reject", "tapReject"}
AllKinds == Direct \union Edits \union Applies \union Votes \union {"all"}

\* Mutant of Checked: the bulk approval does not look at the pin.
BulkUnchecked == AllKinds \ {"tap", "reject", "tapReject", "all"}

\* Kinds that ask for the pin before they do anything.
Checked == AllKinds \ {"tap", "reject", "tapReject"}

ASSUME RequestAssumption == IsFiniteSet(Requests)
ASSUME ActorAssumption == OneTap \in Actors
ASSUME KindAssumption    == Kinds \subseteq AllKinds
ASSUME ContentAssumption == Content \in [Docs -> SUBSET Rules]
ASSUME BoundAssumption   == MaxEvents \in Nat

VARIABLES
  policy,  \* the rules of the gateway's document
  pin,     \* the row of policy_pins: none, held, or expired and not yet removed
  epoch,   \* history: how many pins have been set
  req,     \* what each request is doing and remembers
  events   \* bound counter

policyVars == <<policy, pin, epoch, req, events>>

Pc == {"new", "read", "flow", "propose", "vote", "insert", "tally", "clear",
       "drop", "write", "done"}

(***************************************************************************)
(* base:  the document as the request read it                              *)
(* claim: the etag it came with, if any: the document its author exported  *)
(* epoch: history, the pins there had been when the request was let in     *)
(***************************************************************************)
Request == [pc: Pc, kind: Kinds \union {"none"}, actor: Actors \union {"nobody"},
            key: Rules \union Docs \union {"nothing"},
            base: SUBSET Rules, claim: SUBSET SUBSET Rules, epoch: Nat]

NewRequest == [pc |-> "new", kind |-> "none", actor |-> "nobody", key |-> "nothing",
               base |-> {}, claim |-> {}, epoch |-> 0]

PolicyInit ==
  /\ policy \in SUBSET Keys
  /\ pin = "none"
  /\ epoch = 0
  /\ req = [r \in Requests |-> NewRequest]
  /\ events = 0

Event == events < MaxEvents /\ events' = events + 1

At(r, pc) == req[r].pc = pc
Goes(r, pc) == req' = [req EXCEPT ![r].pc = pc]

\* A request returns, and its locals are gone.
Gone == [NewRequest EXCEPT !.pc = "done"]
Returns(r) == req' = [req EXCEPT ![r] = Gone]

Pinned == pin = "held"

\* Who makes a request, what it can be about, and the etag it can carry.
Makers(kind) == IF kind \in {"tap", "tapReject"} THEN {OneTap} ELSE Actors \ {OneTap}

Subjects(kind) ==
  CASE kind \in {"put", "preset"}   -> Docs
    [] kind \in Applies             -> Docs
    [] kind \in Edits \ PresetEdits -> Keys
    [] kind = "all"                 -> {"nothing"}
    [] OTHER                        -> Chunks \union Docs

Claims(kind) == IF kind \in Applies THEN {{}, {policy}} ELSE {{}}

(***************************************************************************)
(* A request arrives.  check_pin removes an expired pin and refuses under  *)
(* a held one.  An etag is the hash of an earlier export: the current      *)
(* document's here, which others may change before the request reads it.   *)
(***************************************************************************)
FirstStep(kind) ==
  CASE kind \in Direct                  -> "write"
    [] kind \in Edits \union Applies    -> "read"
    [] OTHER                            -> "flow"

Arrives(r, kind, actor, key, claim) ==
  /\ At(r, "new")
  /\ IF kind \in Checked /\ Pinned
       THEN Returns(r)
       ELSE req' = [req EXCEPT ![r] = [pc |-> FirstStep(kind), kind |-> kind, actor |-> actor,
                                       key |-> key, base |-> {}, claim |-> claim,
                                       epoch |-> epoch]]
  /\ pin' = IF kind \in Checked /\ pin = "expired" THEN "none" ELSE pin
  /\ UNCHANGED <<policy, epoch, events>>

\* The version check of apply, and its comparison of the two documents.
Matches(q) == q.claim \subseteq {policy}
Differs(q) == Content[q.key] # policy

ReadPolicy(r) ==
  /\ At(r, "read")
  /\ \/ /\ req[r].kind \in Applies
        /\ ~ (Matches(req[r]) /\ Differs(req[r]))
        /\ Returns(r)
     \/ /\ req[r].kind \in Applies => Matches(req[r]) /\ Differs(req[r])
        /\ req' = [req EXCEPT ![r].base = policy,
                              ![r].pc = IF req[r].kind \in Applies THEN "flow" ELSE "write"]
  /\ UNCHANGED <<policy, pin, epoch, events>>

(***************************************************************************)
(* The document a request leaves at the gateway.  An edit writes what it   *)
(* read, changed; a merge sends the difference of the two documents, which *)
(* the gateway applies to its own.                                         *)
(***************************************************************************)
Added(q)       == q.base \union {q.key}
Removed(q)     == q.base \ {q.key}
PresetAdded(q) == q.base \union Content[q.key]
Merged(q)      == (policy \ (q.base \ Content[q.key])) \union (Content[q.key] \ q.base)

Written(q) ==
  CASE q.kind \in {"put", "replace"}         -> Content[q.key]
    [] q.kind = "merge"                      -> Merged(q)
    [] q.kind \in {"remove", "removePath"}   -> Removed(q)
    [] q.kind \in PresetEdits                -> PresetAdded(q)
    [] OTHER                                 -> Added(q)

\* The write call answers, or raises with or without having done it.
Outcome(r, did, undone) ==
  \/ did /\ UNCHANGED events
  \/ Event /\ (did \/ undone)

WritePolicy(r) ==
  /\ At(r, "write")
  /\ req[r].kind \in Direct \union Edits \union Applies
  /\ Outcome(r, policy' = Written(req[r]), policy' = policy)
  /\ Returns(r)
  /\ UNCHANGED <<pin, epoch>>

\* Pins.  An expiry passes by itself; the row goes with the next look at it.
SetPin ==
  /\ Event
  /\ pin' = "held"
  /\ epoch' = epoch + 1
  /\ UNCHANGED <<policy, req>>

Unpin ==
  /\ pin # "none"
  /\ pin' = "none"
  /\ UNCHANGED <<policy, epoch, req, events>>

PinExpires ==
  /\ pin = "held"
  /\ pin' = "expired"
  /\ UNCHANGED <<policy, epoch, req, events>>

\* The process stops; what the requests remember is lost, the tables stay.
Crash ==
  /\ Event
  /\ req' = [r \in Requests |->
       IF req[r].pc \in {"new", "done"} THEN req[r] ELSE Gone]
  /\ UNCHANGED <<policy, pin, epoch>>

PolicyNext ==
  \/ \E r \in Requests : \/ \E kind \in Kinds :
                              \E actor \in Makers(kind), key \in Subjects(kind), claim \in Claims(kind) :
                                Arrives(r, kind, actor, key, claim)
                         \/ ReadPolicy(r)
                         \/ WritePolicy(r)
  \/ SetPin
  \/ Unpin
  \/ PinExpires
  \/ Crash

=============================================================================
