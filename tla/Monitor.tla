------------------------------- MODULE Monitor -------------------------------
(***************************************************************************)
(* The health monitor and the restart reconciler of one gateway            *)
(* (services/gateway.py: check_all_health; services/gateway_inventory.py). *)
(*                                                                         *)
(* A pass compares the gateway's answer with the status the row had when   *)
(* the pass began, writes the new one, alerts on a transition, and on a    *)
(* recovery diffs the inventory against the last snapshot.                 *)
(***************************************************************************)
EXTENDS Naturals

CONSTANTS
  Boxes,    \* sandboxes of the gateway
  MaxSteps  \* bound on what happens around the monitor

NoSnap == {"no snapshot"}

ASSUME StepAssumption == MaxSteps \in Nat
ASSUME SnapAssumption == NoSnap \notin SUBSET Boxes

VARIABLES
  status,  \* last_status of the row: healthy, degraded and unhealthy are "up"
  pass,    \* the running pass: previous status, answer, last snapshot
  live,    \* the sandboxes the gateway has
  snap,    \* the newest snapshot
  reaped,  \* the sandboxes of the reap records
  alert,   \* history: the last alert
  lost,    \* history: those of the snapshot that an outage on record took
  gone,    \* history: sandboxes that went after the last snapshot
  faulty,  \* history: a step of a pass failed, or the status was unknown
  steps    \* bound counter

monitorVars == <<status, pass, live, snap, reaped, alert, lost, gone, faulty, steps>>

Status == {"unknown", "up", "unreachable"}
PassPc == {"idle", "probe", "write", "alert", "read", "capture", "record"}

MonitorInit ==
  /\ status = "unknown"
  /\ pass = [pc |-> "idle", previous |-> "unknown", answer |-> "unknown", pre |-> NoSnap]
  /\ live = {} /\ snap = NoSnap /\ reaped = {}
  /\ alert = "none"
  /\ lost = {} /\ gone = {}
  /\ faulty = FALSE
  /\ steps = 0

Outside == steps < MaxSteps /\ steps' = steps + 1
InPass(pc) == pass.pc = pc

PassStarts ==
  /\ InPass("idle")
  /\ pass' = [pass EXCEPT !.pc = "probe", !.previous = status, !.pre = NoSnap]
  /\ UNCHANGED <<status, live, snap, reaped, alert, lost, gone, faulty, steps>>

Probed(answer) ==
  /\ InPass("probe")
  /\ pass' = [pass EXCEPT !.pc = "write", !.answer = answer]
  /\ faulty' = (faulty \/ answer = "unknown")
  /\ UNCHANGED <<status, live, snap, reaped, alert, lost, gone, steps>>

StatusWritten ==
  /\ InPass("write")
  /\ status' = pass.answer
  /\ pass' = [pass EXCEPT !.pc = "alert"]
  /\ UNCHANGED <<live, snap, reaped, alert, lost, gone, faulty, steps>>

\* The database fails; the pass goes on.
StatusLost ==
  /\ InPass("write")
  /\ Outside
  /\ pass' = [pass EXCEPT !.pc = "alert"]
  /\ faulty' = TRUE
  /\ UNCHANGED <<status, live, snap, reaped, alert, lost, gone>>

WentDown  == pass.previous = "up" /\ pass.answer = "unreachable"

\* Mutant of Recovered: any answer after an outage is a recovery.
RecoveredAnyhow == pass.answer = "up"

Recovered == pass.previous = "unreachable" /\ pass.answer = "up"

Alerts ==
  /\ InPass("alert")
  /\ alert' = IF WentDown THEN "unreachable" ELSE IF Recovered THEN "recovered" ELSE alert
  /\ pass' = [pass EXCEPT !.pc = IF pass.answer # "up" THEN "idle"
                                 ELSE IF Recovered THEN "read" ELSE "capture"]
  /\ UNCHANGED <<status, live, snap, reaped, lost, gone, faulty, steps>>

\* Mutant of LastSnapshot: the fresh snapshot is taken for the last one.
FreshSnapshot == live

LastSnapshot == snap

ReadSnapshot ==
  /\ InPass("read")
  /\ pass' = [pass EXCEPT !.pc = "capture", !.pre = LastSnapshot]
  /\ UNCHANGED <<status, live, snap, reaped, alert, lost, gone, faulty, steps>>

\* The sandboxes are listed and the snapshot inserted.
Capture ==
  /\ InPass("capture")
  /\ snap' = live
  /\ pass' = [pass EXCEPT !.pc = IF pass.pre = NoSnap THEN "idle" ELSE "record"]
  /\ gone' = IF pass.pre = NoSnap THEN {} ELSE gone
  /\ UNCHANGED <<status, live, reaped, alert, lost, faulty, steps>>

\* Mutant of Vanished: the snapshots are compared the wrong way round.
Appeared(pre, post) == post \ pre

\* A sandbox that only lost providers is not told from one that stayed.
Vanished(pre, post) == pre \ post

Record ==
  /\ InPass("record")
  /\ reaped' = reaped \union Vanished(pass.pre, snap)
  /\ pass' = [pass EXCEPT !.pc = "idle"]
  /\ gone' = snap \ live
  /\ UNCHANGED <<status, live, snap, alert, lost, faulty, steps>>

\* Any error of the reconciliation is swallowed, and the pass is over.
ReconcileFails ==
  /\ pass.pc \in {"read", "capture", "record"}
  /\ Outside
  /\ pass' = [pass EXCEPT !.pc = "idle"]
  /\ faulty' = TRUE
  /\ UNCHANGED <<status, live, snap, reaped, alert, lost, gone>>

\* The server is killed, and its next pass starts from the row.
MonitorCrash ==
  /\ ~ InPass("idle")
  /\ Outside
  /\ pass' = [pass EXCEPT !.pc = "idle"]
  /\ faulty' = TRUE
  /\ UNCHANGED <<status, live, snap, reaped, alert, lost, gone>>

CreateBox(b) ==
  /\ b \notin live
  /\ Outside
  /\ live' = live \union {b}
  /\ lost' = lost \ {b}
  /\ UNCHANGED <<status, pass, snap, reaped, alert, gone, faulty>>

DeleteBox(b) ==
  /\ b \in live
  /\ Outside
  /\ live' = live \ {b}
  /\ gone' = gone \union {b}
  /\ UNCHANGED <<status, pass, snap, reaped, alert, lost, faulty>>

\* The gateway restarts, and comes back without some of its sandboxes.
GatewayRestarts ==
  /\ Outside
  /\ \E went \in (SUBSET live) \ {{}} :
       /\ live' = live \ went
       /\ gone' = gone \union went
       /\ lost' = IF status = "unreachable" /\ InPass("idle") /\ snap # NoSnap
                    THEN lost \union (went \intersect snap) ELSE lost
  /\ UNCHANGED <<status, pass, snap, reaped, alert, faulty>>

MonitorNext ==
  \/ PassStarts
  \/ \E answer \in Status : Probed(answer)
  \/ StatusWritten
  \/ StatusLost
  \/ Alerts
  \/ ReadSnapshot
  \/ Capture
  \/ Record
  \/ ReconcileFails
  \/ MonitorCrash
  \/ \E b \in Boxes : CreateBox(b) \/ DeleteBox(b)
  \/ GatewayRestarts

MonitorSpec == MonitorInit /\ [][MonitorNext]_monitorVars

-----------------------------------------------------------------------------
(***************************************************************************)
(* The two alerts alternate, whatever the order of passes and outages: one *)
(* is repeated only after a step failed or the status was unknown.         *)
(***************************************************************************)
AlertsAlternate ==
  [][Alerts /\ (WentDown \/ Recovered) =>
       alert # (IF WentDown THEN "unreachable" ELSE "recovered") \/ faulty]_monitorVars

(***************************************************************************)
(* A sandbox that the last snapshot had and that an outage on record took  *)
(* is on a reap record once the gateway is up again; a restart between two *)
(* probes, which no status shows, is not covered.                          *)
(***************************************************************************)
LossReported == InPass("idle") /\ status = "up" /\ ~ faulty => lost \subseteq reaped

(***************************************************************************)
(* What is reported as reaped did go, and after the snapshot the report    *)
(* compares with: an outage, a removal by a user, or a restart nobody saw. *)
(***************************************************************************)
ReapsTell == [][reaped' \ reaped \subseteq gone]_monitorVars

(***************************************************************************)
(* What the health passes tell of an outage (GatewayService and the        *)
(* inventory); after a failed step or a crash of the server, only that     *)
(* what they report as reaped did go.                                      *)
(***************************************************************************)
OutagesTold == AlertsAlternate /\ []LossReported /\ ReapsTell

=============================================================================
