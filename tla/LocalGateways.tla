--------------------------- MODULE LocalGateways ---------------------------
(***************************************************************************)
(* The gateways a server in local mode runs on its own machine             *)
(* (services/local_gateway.py and the local routes of                      *)
(* api/routes/gateway.py): each is a container, and a file with its port   *)
(* that the openshell tool writes.  A job checks, then runs a tool in a    *)
(* thread; nothing keeps two jobs apart but the operation of a create.     *)
(* Sandboxes and providers of a gateway count as one: it is empty or not.  *)
(***************************************************************************)
EXTENDS FiniteSets, FiniteSetsExt, Integers

CONSTANTS LocalNames, LocalCalls,
          MaxPort  \* the last port; the first is 1

ASSUME PortAssumption == MaxPort \in Nat \ {0}

VARIABLES
  port,  \* metadata.json: the port of each gateway, 0 without a file
  box,   \* its container
  full,  \* the gateways with sandboxes or providers
  job   \* each job: what it is asked, where it is, what it found

localVars == <<port, box, full, job>>

Ports == 1 .. MaxPort
OtherNames(n) == LocalNames \ {n}

\* raced: history, another gateway's file was written since the port was chosen;
\* clash: the port turned out to be another's; lost: what was removed was not
\* empty; late: it was filled since it was found empty; blind: it was not reached.
Call0 == [pc |-> "new", op |-> "none", n |-> CHOOSE n \in LocalNames : TRUE, port |-> 0, auto |-> FALSE, force |-> FALSE,
          raced |-> FALSE, clash |-> FALSE, lost |-> FALSE, late |-> FALSE, blind |-> FALSE]

LocalInit ==
  /\ port \in [LocalNames -> 0 .. MaxPort]
  /\ box \in [LocalNames -> {"none", "exited", "running"}]
  /\ \A n \in LocalNames : port[n] = 0 <=> box[n] = "none"
  /\ \A n, m \in LocalNames : n # m /\ box[n] = "running" /\ box[m] = "running" => port[n] # port[m]
  /\ full \in SUBSET {n \in LocalNames : box[n] # "none"}
  /\ job = [c \in LocalCalls |-> Call0]

Steps(c, r) == job' = [job EXCEPT ![c] = r] /\ UNCHANGED <<port, box, full>>
At(c, op, pc) == job[c].op = op /\ job[c].pc = pc

\* What the others know once the file of n is written by job c.
Races(c, r, n) ==
  [d \in LocalCalls |-> IF d = c THEN r ELSE IF job[d].n # n THEN [job[d] EXCEPT !.raced = TRUE] ELSE job[d]]

Begins(c) ==
  /\ job[c].pc = "new"
  /\ \E op \in {"create", "start", "stop", "destroy"}, n \in LocalNames, f \in BOOLEAN, p \in 0 .. MaxPort :
       /\ (op = "create" => ~ f) /\ (op = "destroy" => p = 0) /\ (op \in {"start", "stop"} => ~ f /\ p = 0)
       /\ Steps(c, [Call0 EXCEPT !.pc = "asked", !.op = op, !.n = n, !.force = f, !.port = p, !.auto = op = "create" /\ p = 0])

\* No docker, no openshell, or a tool that fails: the job says so.
GivesUp(c) == job[c].pc \in {"asked", "run"} /\ Steps(c, [job[c] EXCEPT !.pc = "failed"])

-----------------------------------------------------------------------------
(* Ports. *)

\* A running gateway that was given the port.
Blocked(n, p) == \E m \in OtherNames(n) : port[m] = p /\ box[m] = "running"

\* Mutant of UsedPorts: those that are in use.
RunningPorts == {port[m] : m \in {k \in LocalNames : box[k] = "running"}}

\* Those of all files, of stopped gateways too.
UsedPorts == {port[m] : m \in LocalNames}

FreePorts == Ports \ UsedPorts

CreateChecks(c) ==
  /\ At(c, "create", "asked") /\ ~ job[c].auto
  /\ Steps(c, [job[c] EXCEPT !.pc = IF Blocked(job[c].n, job[c].port) THEN "refused" ELSE "run"])

CreateChooses(c) ==
  /\ At(c, "create", "asked") /\ job[c].auto
  /\ IF FreePorts = {} THEN Steps(c, [job[c] EXCEPT !.pc = "failed"])
     ELSE Steps(c, [job[c] EXCEPT !.pc = "run", !.port = Min(FreePorts), !.raced = FALSE])

\* openshell writes the file, and starts the container unless the port is bound;
\* a tool that runs out of time may have done either.
Runs(c, n, p) ==
  /\ port' = [port EXCEPT ![n] = p]
  /\ \E b \in {"exited"} \cup (IF Blocked(n, p) THEN {} ELSE {"running"}) : box' = [box EXCEPT ![n] = b]
  /\ job' = Races(c, [job[c] EXCEPT !.pc = "done", !.clash = \E m \in OtherNames(n) : port[m] = p], n)
  /\ UNCHANGED full

\* A gateway that is there keeps its port.
CreateRuns(c) ==
  /\ At(c, "create", "run")
  /\ IF port[job[c].n] = 0 THEN Runs(c, job[c].n, job[c].port) ELSE Steps(c, [job[c] EXCEPT !.pc = "done"])

\* start: a container that is stopped is started unless its port is taken, and
\* without one openshell makes it, on a port of its own choice.
StartLooks(c) ==
  /\ At(c, "start", "asked")
  /\ CASE box[job[c].n] = "running" -> Steps(c, [job[c] EXCEPT !.pc = "done"])
       [] box[job[c].n] = "exited" ->
            Steps(c, [job[c] EXCEPT !.pc = IF Blocked(job[c].n, port[job[c].n]) THEN "refused" ELSE "run"])
       [] OTHER -> Steps(c, [job[c] EXCEPT !.pc = "run"])

StartRuns(c) ==
  /\ At(c, "start", "run")
  /\ IF port[job[c].n] = 0 THEN \E p \in Ports : Runs(c, job[c].n, p)
     ELSE /\ box' = [box EXCEPT ![job[c].n] = IF Blocked(job[c].n, port[job[c].n]) THEN @ ELSE "running"]
          /\ job' = [job EXCEPT ![c].pc = "done"]
          /\ UNCHANGED <<port, full>>

StopLooks(c) ==
  /\ At(c, "stop", "asked")
  /\ Steps(c, [job[c] EXCEPT !.pc = IF box[job[c].n] = "running" THEN "run" ELSE "done"])

StopRuns(c) ==
  /\ At(c, "stop", "run")
  /\ box' = [box EXCEPT ![job[c].n] = IF @ = "running" THEN "exited" ELSE @]
  /\ job' = [job EXCEPT ![c].pc = "done"]
  /\ UNCHANGED <<port, full>>

-----------------------------------------------------------------------------
(* destroy. *)

\* A gateway that cannot be reached is not asked what it holds.
DestroyBlind(c) == At(c, "destroy", "asked") /\ Steps(c, [job[c] EXCEPT !.pc = "run", !.blind = TRUE])

\* Without force, what is not empty or does not tell is kept.
DestroyListFails(c) ==
  /\ At(c, "destroy", "asked") /\ box[job[c].n] = "running"
  /\ Steps(c, [job[c] EXCEPT !.pc = IF job[c].force THEN "run" ELSE "refused"])

DestroyLists(c) ==
  /\ At(c, "destroy", "asked") /\ box[job[c].n] = "running"
  /\ Steps(c, [job[c] EXCEPT !.pc = IF job[c].force THEN "empty" ELSE IF job[c].n \in full THEN "refused" ELSE "run"])

\* With force its sandboxes and providers are deleted first, or that fails.
DestroyEmpties(c) ==
  /\ At(c, "destroy", "empty")
  /\ full' \in {full, full \ {job[c].n}}
  /\ job' = [job EXCEPT ![c].pc = "run"]
  /\ UNCHANGED <<port, box>>

DestroyRuns(c) ==
  /\ At(c, "destroy", "run")
  /\ port' = [port EXCEPT ![job[c].n] = 0] /\ box' = [box EXCEPT ![job[c].n] = "none"]
  /\ full' = full \ {job[c].n}
  /\ job' = Races(c, [job[c] EXCEPT !.pc = "done", !.lost = job[c].n \in full], job[c].n)

\* A sandbox is created on the gateway.
Fills(n) ==
  /\ box[n] = "running" /\ n \notin full
  /\ full' = full \cup {n}
  /\ job' = [c \in LocalCalls |-> IF job[c].n = n THEN [job[c] EXCEPT !.late = @ \/ job[c].pc = "run"] ELSE job[c]]
  /\ UNCHANGED <<port, box>>

LocalNext ==
  \/ \E c \in LocalCalls :
       \/ Begins(c) \/ GivesUp(c)
       \/ CreateChecks(c) \/ CreateChooses(c) \/ CreateRuns(c)
       \/ StartLooks(c) \/ StartRuns(c) \/ StopLooks(c) \/ StopRuns(c)
       \/ DestroyBlind(c) \/ DestroyListFails(c) \/ DestroyLists(c) \/ DestroyEmpties(c) \/ DestroyRuns(c)
  \/ \E n \in LocalNames : Fills(n)

LocalSpec == LocalInit /\ [][LocalNext]_localVars

-----------------------------------------------------------------------------
\* A port that was chosen for a new gateway is no other's, unless one was
\* configured meanwhile.
PortsApart == \A c \in LocalCalls : job[c].auto /\ job[c].clash => job[c].raced

\* A gateway that is removed without force is empty, unless it was filled after
\* it had been looked at, or could not be reached.
RemovedEmpty == \A c \in LocalCalls : job[c].lost /\ ~ job[c].force => job[c].late \/ job[c].blind

(***************************************************************************)
(* What a job checks holds when it acts, but for what came in between      *)
(* (local_gateway.py create, destroy).                                     *)
(***************************************************************************)
LocalHolds == PortsApart /\ RemovedEmpty

=============================================================================
