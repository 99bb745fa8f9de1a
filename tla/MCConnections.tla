---------------------------- MODULE MCConnections ----------------------------
(***************************************************************************)
(* The gateways as the server sees them, for TLC: the connection cache,    *)
(* the health monitor, the ways into the registry, the retries of a call,  *)
(* the calls on a sandbox, and the kill switch with one request at a time. *)
(* They are checked apart: a behaviour exercises one of them, and the      *)
(* others stay as they begin.  The calls on a sandbox are checked twice:   *)
(* with faults and labels but no hooks ("sandbox"), and with edits of two  *)
(* hooks but neither faults nor labels ("hooks").                          *)
(***************************************************************************)
EXTENDS Gateways, Monitor, Discovery, Retries, Sandboxes, KillSwitch, TLC

VARIABLE part

NoHooks == hooks = [h \in Hooks |-> NoHook]
TwoGates == \A h \in Hooks : hooks[h].phase = "pre" /\ ~hooks[h].goOn

(* Nothing is said about labels, presets or faults where hooks are edited. *)
NoFaults ==
  /\ \A r \in Requests : ~req'[r].labels /\ ~req'[r].presets /\ req'[r].attempt = 1
  /\ made' <= 1 /\ UNCHANGED boxCrashes

MCInit ==
  /\ part \in {"gateways", "monitor", "discovery", "retries", "sandbox", "hooks", "killswitch"}
  /\ GatewayInit /\ MonitorInit /\ DiscoveryInit /\ RetriesInit /\ SandboxInit /\ KSInit
  /\ part # "killswitch" => want = {}
  /\ part # "retries" => budget = NoBudget /\ until = 0
  /\ IF part = "hooks" THEN edits = MaxEdits /\ TwoGates ELSE edits = 0 /\ NoHooks

Moves(p, step, vars) == IF part = p THEN step ELSE UNCHANGED vars

MCNext ==
  /\ UNCHANGED part
  /\ Moves("gateways", GatewayNext, gatewayVars)
  /\ Moves("monitor", MonitorNext, monitorVars)
  /\ Moves("discovery", DiscoveryNext, discoveryVars)
  /\ Moves("retries", RetriesNext, retryVars)
  /\ IF part = "hooks" THEN SandboxNext /\ NoFaults ELSE Moves("sandbox", SandboxNext, sandboxVars)
  /\ Moves("killswitch", KSNext, ksVars)

\* The requests on a sandbox are alike, and the calls and the channels of the cache.
Symmetry == Permutations(Requests) \cup Permutations(Calls) \cup Permutations(Channels)

MCVars == <<part, gatewayVars, monitorVars, discoveryVars, retryVars, sandboxVars, ksVars>>
MCSpec == MCInit /\ [][MCNext]_MCVars

=============================================================================
