------------------------------- MODULE Notices --------------------------------
(***************************************************************************)
(* What the server tells of its own accord.  The digest goes out once a    *)
(* day; that it did is remembered by an entry of the audit log, under the  *)
(* time at which the entry is written (services/digest.py).  Three watches *)
(* remember in memory what they saw last and tell of a change: the policy  *)
(* of a sandbox (services/drift_detection.py), the state of the host       *)
(* (services/node_alerts.py) and the newest release                        *)
(* (services/update_check.py).                                             *)
(***************************************************************************)
EXTENDS Naturals, FiniteSets

CONSTANTS MaxDay,          \* bound: days that pass
          Hours,           \* hours of a day
          DigestHour,      \* settings.digest.hour
          MaxNoticeFaults  \* bound: crashes and events or markers that are lost

ASSUME NoticesAssumption == MaxDay \in Nat /\ Hours \in Nat \ {0} /\ DigestHour \in Nat /\ DigestHour < Hours

VARIABLES day, hour,    \* local time
          sent,         \* the days that have an entry digest.sent
          digestPc,     \* where dispatch_if_due is
          dueDay,       \* the day for which the digest was found due
          fired,        \* how often the digest of a day was fired
          again,        \* how often a day's digest was fired and not marked
          late,         \* the days that were marked by the digest of the day before
          remembered,   \* what a watch remembers of the last time it looked
          told,         \* what it told last, since the process started
          observed,     \* what it really saw last
          lostEvent,    \* the watches of which an event was lost
          noticeFaults

digestVars == <<day, hour, sent, digestPc, dueDay, fired, again, late>>
watchVars == <<remembered, told, observed, lostEvent>>
noticeVars == <<digestVars, watchVars, noticeFaults>>

Days == 0..MaxDay
Watches == {"drift", "node", "update"}

-----------------------------------------------------------------------------
(* dispatch_if_due. *)

DueByHour == hour >= DigestHour
Due == hour >= DigestHour /\ day \notin sent

FindsDue ==
    /\ digestPc = "idle" /\ Due
    /\ digestPc' = "build" /\ dueDay' = day
    /\ UNCHANGED <<day, hour, sent, fired, again, late, watchVars, noticeFaults>>

Fires ==
    /\ digestPc = "build"
    /\ digestPc' = "mark"
    /\ fired' = [fired EXCEPT ![dueDay] = @ + 1]
    /\ UNCHANGED <<day, hour, sent, dueDay, again, late, watchVars, noticeFaults>>

BuildFails ==
    /\ digestPc = "build" /\ noticeFaults < MaxNoticeFaults
    /\ digestPc' = "idle"
    /\ noticeFaults' = noticeFaults + 1
    /\ UNCHANGED <<day, hour, sent, dueDay, fired, again, late, watchVars>>

Marks ==
    /\ digestPc = "mark"
    /\ digestPc' = "idle"
    /\ sent' = sent \cup {day}
    /\ late' = IF day = dueDay THEN late ELSE late \cup {day}
    /\ UNCHANGED <<day, hour, dueDay, fired, again, watchVars, noticeFaults>>

(* The audit log swallows an error of the database. *)
MarkLost ==
    /\ digestPc = "mark" /\ noticeFaults < MaxNoticeFaults
    /\ digestPc' = "idle"
    /\ again' = [again EXCEPT ![dueDay] = @ + 1]
    /\ noticeFaults' = noticeFaults + 1
    /\ UNCHANGED <<day, hour, sent, dueDay, fired, late, watchVars>>

HourPasses ==
    /\ IF hour + 1 < Hours THEN hour' = hour + 1 /\ UNCHANGED day
       ELSE day < MaxDay /\ hour' = 0 /\ day' = day + 1
    /\ UNCHANGED <<sent, digestPc, dueDay, fired, again, late, watchVars, noticeFaults>>

-----------------------------------------------------------------------------
(* The watches.  A hash or a version is a number; 0 is no hash seen yet, a *)
(* host below its thresholds, and the release that is installed.           *)

Values(w) == IF w = "node" THEN {0, 1} ELSE IF w = "drift" THEN {1, 2} ELSE {0, 1, 2}
NoValue == 99

(* The value a watch goes by, given the sample it took: without one the    *)
(* watch keeps to what it remembers.                                       *)
SeenOrLow(w, sample) == IF sample = NoValue THEN 0 ELSE sample
Seen(w, sample) == IF sample = NoValue THEN remembered[w] ELSE sample

(* Whether the change is told: the first hash is not, and neither is a     *)
(* release that is not newer than the installed one.                       *)
Tells(w, value) == /\ value # remembered[w]
                   /\ w = "drift" => remembered[w] # 0
                   /\ w = "update" => value # 0
Remembers(w, value) == IF w = "update" /\ value = 0 THEN remembered[w] ELSE value

(* What is remembered changes before the event is fired. *)
Look(w) == \E sample \in Values(w) \cup {NoValue} :
    LET value == Seen(w, sample)
    IN  /\ remembered' = [remembered EXCEPT ![w] = Remembers(w, value)]
        /\ observed' = IF sample = NoValue \/ (w = "update" /\ sample = 0) THEN observed
                       ELSE [observed EXCEPT ![w] = sample]
        /\ told' = IF Tells(w, value) THEN [told EXCEPT ![w] = value] ELSE told
        /\ UNCHANGED <<lostEvent, digestVars, noticeFaults>>

LookEventLost(w) == \E sample \in Values(w) :
    /\ noticeFaults < MaxNoticeFaults
    /\ Tells(w, sample)
    /\ noticeFaults' = noticeFaults + 1
    /\ remembered' = [remembered EXCEPT ![w] = Remembers(w, sample)]
    /\ observed' = [observed EXCEPT ![w] = sample]
    /\ lostEvent' = lostEvent \cup {w}
    /\ UNCHANGED <<told, digestVars>>

(* The watches start over; the entry of the digest is there still, if it   *)
(* was written.                                                            *)
NoticeCrash ==
    /\ noticeFaults < MaxNoticeFaults
    /\ noticeFaults' = noticeFaults + 1
    /\ digestPc' = "idle"
    /\ again' = IF digestPc = "mark" THEN [again EXCEPT ![dueDay] = @ + 1] ELSE again
    /\ remembered' = [w \in Watches |-> 0] /\ told' = [w \in Watches |-> 0]
    /\ observed' = [w \in Watches |-> 0] /\ lostEvent' = {}
    /\ UNCHANGED <<day, hour, sent, dueDay, fired, late>>

NoticeInit ==
    /\ day = 0 /\ hour = 0 /\ sent = {} /\ digestPc = "idle" /\ dueDay = 0 /\ late = {}
    /\ fired = [d \in Days |-> 0] /\ again = [d \in Days |-> 0]
    /\ remembered = [w \in Watches |-> 0] /\ told = [w \in Watches |-> 0]
    /\ observed = [w \in Watches |-> 0] /\ lostEvent = {} /\ noticeFaults = 0

DigestNext == FindsDue \/ Fires \/ BuildFails \/ Marks \/ MarkLost \/ HourPasses
WatchNext == \E w \in Watches : Look(w) \/ LookEventLost(w)
NoticeNext == DigestNext \/ WatchNext \/ NoticeCrash

NoticeSpec == NoticeInit /\ [][NoticeNext]_noticeVars

-----------------------------------------------------------------------------
(* A day's digest is fired once, and once more each time that the marker   *)
(* was lost or the server stopped before it; a day that is marked had its  *)
(* digest, or its marker was that of the day before, written after         *)
(* midnight (dispatch_if_due).                                             *)
DigestOncePerDay ==
    \A d \in Days : /\ fired[d] <= 1 + again[d]
                    /\ d \in sent => fired[d] > 0 \/ d \in late

(* What a watch told last, since the process started, is what it saw last, *)
(* whatever samples were missing and unless an event was lost: the host is *)
(* not said to have recovered by a sample that failed (run_once of the     *)
(* three services).  Nothing is told of the first hash of a policy.        *)
WatchTells ==
    \A w \in Watches \ lostEvent :
        told[w] = observed[w] \/ (w = "drift" /\ told[w] = 0 /\ observed[w] = remembered[w])

NoticesTell == DigestOncePerDay /\ WatchTells

-----------------------------------------------------------------------------
(***************************************************************************)
(* Web Push subscriptions (services/push.py, api/routes/push.py): a row    *)
(* per device, sends that work from the rows they read, and the pruning of *)
(* devices that the push service no longer knows.                          *)
(*                                                                         *)
(* A device stands for its endpoint; SQLite gives the id of the last row,  *)
(* once that is removed, to the next one.                                  *)
(***************************************************************************)

CONSTANTS
  Devices,  \* endpoints
  Sends,    \* calls of send_payload
  MaxRows   \* bound on the rows ever inserted

ASSUME RowAssumption == MaxRows \in Nat

VARIABLES
  subs,     \* the push_subscriptions rows
  expired,  \* devices the push service answers 404 or 410 for
  send,     \* what each send has still to do, and the ids it will prune
  used,     \* history: the ids that were ever given
  inserts   \* bound counter

pushVars == <<subs, expired, send, used, inserts>>

\* again: history, the id was another row's before.
Sub == [id: 1 .. MaxRows, device: Devices, again: BOOLEAN]

PushInit ==
  /\ subs = {}
  /\ expired = {}
  /\ send = [s \in Sends |-> [pc |-> "new", todo |-> {}, prune |-> {}]]
  /\ used = {}
  /\ inserts = 0

Subscribed(d) == \E r \in subs : r.device = d

\* The id after the largest, or, on PostgreSQL, one never given before.
FreshIds ==
  {i \in 1 .. MaxRows : (\A r \in subs : r.id < i) /\ (\A j \in 1 .. i - 1 : j \in used)}

\* A known endpoint is refreshed: nothing is seen of that here.
Subscribe(d) ==
  /\ d \notin expired /\ ~ Subscribed(d)
  /\ inserts < MaxRows
  /\ inserts' = inserts + 1
  /\ \E i \in FreshIds :
       /\ subs' = subs \union {[id |-> i, device |-> d, again |-> i \in used]}
       /\ used' = used \union {i}
  /\ UNCHANGED <<expired, send>>

Unsubscribe(d) ==
  /\ Subscribed(d)
  /\ subs' = {r \in subs : r.device # d}
  /\ UNCHANGED <<expired, send, used, inserts>>

Expire(d) ==
  /\ expired' = expired \union {d}
  /\ UNCHANGED <<subs, send, used, inserts>>

SendReads(s) ==
  /\ send[s].pc = "new"
  /\ send' = [send EXCEPT ![s].pc = "sending", ![s].todo = subs]
  /\ UNCHANGED <<subs, expired, used, inserts>>

\* Mutant of Unknown: any refusal counts as a device that is gone.
AnyRefusal(r) == r.device \in Devices

Unknown(r) == r.device \in expired

SendOne(s, r) ==
  /\ send[s].pc = "sending" /\ r \in send[s].todo
  /\ send' = [send EXCEPT ![s].todo = @ \ {r},
                          ![s].prune = IF Unknown(r) THEN @ \union {r.id} ELSE @]
  /\ UNCHANGED <<subs, expired, used, inserts>>

Prune(s) ==
  /\ send[s].pc = "sending" /\ send[s].todo = {}
  /\ subs' = {r \in subs : r.id \notin send[s].prune}
  /\ send' = [send EXCEPT ![s].pc = "done", ![s].prune = {}]
  /\ UNCHANGED <<expired, used, inserts>>

PushNext ==
  \/ \E d \in Devices : Subscribe(d) \/ Unsubscribe(d) \/ Expire(d)
  \/ \E s \in Sends : \/ SendReads(s)
                      \/ \E r \in send[s].todo : SendOne(s, r)
                      \/ Prune(s)

PushSpec == PushInit /\ [][PushNext]_pushVars

-----------------------------------------------------------------------------
PushTypeOK ==
  /\ subs \subseteq Sub
  /\ expired \subseteq Devices
  /\ send \in [Sends -> [pc: {"new", "sending", "done"}, todo: SUBSET Sub, prune: SUBSET (1 .. MaxRows)]]
  /\ used \subseteq 1 .. MaxRows
  /\ inserts \in 0 .. MaxRows

(***************************************************************************)
(* A send removes the subscription of a device that is still known only if *)
(* that device was given the id of a removed one.                          *)
(***************************************************************************)
PruneSparesLive ==
  [][\A s \in Sends, r \in subs :
       Prune(s) /\ r \notin subs' => r.device \in expired \/ r.again]_pushVars

=============================================================================
