------------------------------ MODULE MCTasks ------------------------------
(***************************************************************************)
(* What the server goes on with in the background, for TLC: webhook        *)
(* deliveries, the loop of a periodic task, the streams it relays, and how *)
(* servers come up and go down.  They share no state, so a behaviour       *)
(* exercises one of them, and the others stay as they begin.               *)
(***************************************************************************)
EXTENDS Webhooks, Supervisor, Streams, Startup, TLC

VARIABLE part

vars == <<part, webhookVars, supervisorVars, streamVars, startupVars>>

Parts == {"webhooks", "supervisor", "viewers", "session", "startup"}

MCInit ==
  /\ part \in Parts
  /\ WebhookInit /\ SupervisorInit /\ StreamInit /\ StartupInit
  /\ part # "webhooks" => hook = [h \in Hooks |-> "absent"]
  /\ part # "supervisor" => loop.pc = "sleep"
  /\ part # "startup" => db.found = Foreign /\ db.atomic

Moves(p, step, others) == part = p /\ step /\ UNCHANGED <<part, others>>

MCNext ==
  \/ Moves("webhooks", WebhookNext, <<supervisorVars, streamVars, startupVars>>)
  \/ Moves("supervisor", SupervisorNext, <<webhookVars, streamVars, startupVars>>)
  \/ Moves("viewers", ViewerNext, <<webhookVars, supervisorVars, startupVars>>)
  \/ Moves("session", SessionNext, <<webhookVars, supervisorVars, startupVars>>)
  \/ Moves("startup", StartupNext, <<webhookVars, supervisorVars, streamVars>>)

\* The fairness of the modules, in their part.
MCFairness ==
  /\ WebhookFairness /\ ViewerFairness /\ SessionFairness
  /\ WF_supervisorVars(part = "supervisor" /\ TimePasses /\ loop.pc = "sleep")
  /\ WF_supervisorVars(part = "supervisor" /\ RunStarts)
  /\ WF_supervisorVars(part = "supervisor" /\ (Succeeds \/ Fails))
  /\ WF_startupVars(DbReturns)
  /\ \A s \in Servers : WF_startupVars(part = "startup" /\ ServerStep(s))

MCSpec == MCInit /\ [][MCNext]_vars /\ MCFairness

\* A periodic task (tasks/supervisor.py) keeps being run, and the readiness probe
\* tells the truth about it, in its part.
TaskRunsAgain == part = "supervisor" => RunsAgain /\ []SnapshotTells

\* The live events of a sandbox are accounted for, and their sockets end (api/websocket.py).
StreamsTell == []Accounted /\ StreamsClose /\ SessionsClose

\* Servers come up whole, and go down in order (app.py, db/__init__.py).
StartupTells == part = "startup" => [](ServesComplete /\ ShutdownSettles) /\ ComesUp

=============================================================================
