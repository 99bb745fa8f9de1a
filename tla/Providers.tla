----------------------------- MODULE Providers -----------------------------
(***************************************************************************)
(* The providers of a gateway as ShoreGuard edits them                     *)
(* (api/routes/providers.py, services/providers.py, client/providers.py):  *)
(* the gateway keeps them; a request is one call to it, then one entry of  *)
(* the audit log, then the answer.  One provider, and of its values only   *)
(* the names of their variables.                                           *)
(***************************************************************************)
EXTENDS FiniteSets, Naturals, SequencesExt

CONSTANTS
  EnvKeys,   \* names of variables
  Kinds,     \* provider types
  CredKey,   \* for the types of openshell.yaml, the variable of the API key
  ApiKey,    \* the one for the other types
  ProviderEdits,  \* requests that change the provider
  MaxLosses  \* bound: answers and entries that are lost, processes that end

ASSUME CredKeyAssumption ==
  IsFiniteSet(EnvKeys) /\ ApiKey \in EnvKeys /\ CredKey \in [DOMAIN CredKey -> EnvKeys]

VARIABLES
  provider,  \* at the gateway: the providers of that name, at most one
  edit,      \* where each request is
  toldOf,    \* the requests the audit log tells of, in its order
  changes,   \* history: the requests that changed something at the gateway
  unheard,   \* history: those of which an answer, an entry or the process was lost
  losses

providerVars == <<provider, edit, toldOf, changes, unheard, losses>>

Asks ==
  [op: {"create", "update"}, kind: Kinds, creds: SUBSET EnvKeys, config: SUBSET EnvKeys] \cup [op: {"delete"}]
    \cup [op: {"configure", "rotate", "unconfigure"}, key: EnvKeys]

ProviderInit ==
  /\ provider = {}
  /\ edit = [e \in ProviderEdits |-> "call"]
  /\ toldOf = <<>> /\ changes = {} /\ unheard = {} /\ losses = 0

-----------------------------------------------------------------------------
(* The gateway. *)

\* services/providers.py create: the API key goes under the variable of the type.
NewProvider(a) ==
  [kind |-> a.kind, config |-> a.config, refresh |-> {},
   creds |-> {IF a.kind \in DOMAIN CredKey THEN CredKey[a.kind] ELSE ApiKey} \cup a.creds]

\* What the gateway may make of the provider; it is not known whether an update
\* adds to what there is or replaces it, and it may leave the type alone.
Updated(p, a) ==
  {[p EXCEPT !.kind = k, !.creds = c, !.config = f] :
     k \in {p.kind, a.kind}, c \in {a.creds, a.creds \cup p.creds}, f \in {a.config, a.config \cup p.config}}

\* The same one, with other variables that are refreshed.
Refreshing(p, keys) == [p EXCEPT !.refresh = keys]

After(a) ==
  CASE a.op = "create" -> {{NewProvider(a)}}
    [] a.op = "update" -> {{q} : q \in UNION {Updated(p, a) : p \in provider}}
    [] a.op = "delete" -> {{}}
    [] a.op = "configure" -> {{Refreshing(p, p.refresh \cup {a.key}) : p \in provider}}
    [] a.op = "rotate" -> {provider}
    [] a.op = "unconfigure" -> {{Refreshing(p, p.refresh \ {a.key}) : p \in provider}}

\* Otherwise it refuses, or says that there was nothing to delete.
Does(a) ==
  CASE a.op = "create" -> provider = {}
    [] a.op \in {"update", "delete", "configure"} -> provider # {}
    [] a.op \in {"rotate", "unconfigure"} -> \E p \in provider : a.key \in p.refresh

Deletes(a) == a.op \in {"delete", "unconfigure"}

-----------------------------------------------------------------------------
(* A request. *)

EditGoes(e, pc) == edit' = [edit EXCEPT ![e] = pc]
Loses(S) == losses < MaxLosses /\ losses' = losses + 1 /\ unheard' = unheard \cup S

\* check_write_rate_limit; deletion of a provider is not limited.
WriteLimited(e) ==
  /\ edit[e] = "call" /\ EditGoes(e, "refused")
  /\ UNCHANGED <<provider, toldOf, changes, unheard, losses>>

Changes(e, a) ==
  /\ edit[e] = "call" /\ Does(a)
  /\ provider' \in After(a)
  /\ changes' = changes \cup {e}

Called(e, a) == Changes(e, a) /\ EditGoes(e, "audit") /\ UNCHANGED <<toldOf, unheard, losses>>

\* The deadline passes: the gateway may have done it.
AnswerLost(e, a) == Changes(e, a) /\ Loses({e}) /\ EditGoes(e, "refused") /\ UNCHANGED toldOf

\* Mutant of NothingDone: a deletion is audited whatever its answer.
NothingDoneAudited(a) == IF Deletes(a) THEN "audit" ELSE "refused"

\* What was not there is not deleted: that is an answer, without an entry.
NothingDone(a) == IF Deletes(a) THEN "answered" ELSE "refused"

CallRefused(e, a) ==
  /\ edit[e] = "call" /\ ~ Does(a)
  /\ EditGoes(e, NothingDone(a))
  /\ UNCHANGED <<provider, toldOf, changes, unheard, losses>>

Audits(e) ==
  /\ edit[e] = "audit"
  /\ toldOf' = Append(toldOf, e)
  /\ EditGoes(e, "answered")
  /\ UNCHANGED <<provider, changes, unheard, losses>>

\* services/audit.py log swallows its errors.
AuditFails(e) ==
  /\ edit[e] = "audit" /\ Loses({e})
  /\ EditGoes(e, "answered")
  /\ UNCHANGED <<provider, toldOf, changes>>

ServerEnds ==
  /\ Loses({e \in ProviderEdits : edit[e] = "audit"})
  /\ edit' = [e \in ProviderEdits |-> IF edit[e] = "answered" THEN "answered" ELSE "refused"]
  /\ UNCHANGED <<provider, toldOf, changes>>

-----------------------------------------------------------------------------
(* get_env. *)

\* The lines of one source: its keys that have none yet, in any order.
Lines(lines, keys, source) ==
  {lines \o [i \in DOMAIN o |-> [key |-> o[i], source |-> source]] :
     o \in SetToSeqs(keys \ {l.key : l \in ToSet(lines)})}

\* The type's own variable comes last, unless it is there.
DefaultKey(p) == IF p.kind \in DOMAIN CredKey THEN {CredKey[p.kind]} ELSE {}

EnvLines(p) ==
  UNION {UNION {Lines(m, DefaultKey(p), "type_default") : m \in Lines(l, p.config, "config")} :
           l \in Lines(<<>>, p.creds, "credential")}

ProviderNext ==
  \/ \E e \in ProviderEdits, a \in Asks : Called(e, a) \/ AnswerLost(e, a) \/ CallRefused(e, a)
  \/ \E e \in ProviderEdits : WriteLimited(e) \/ Audits(e) \/ AuditFails(e)
  \/ ServerEnds

ProviderSpec == ProviderInit /\ [][ProviderNext]_providerVars

-----------------------------------------------------------------------------
\* The log tells of each change once, and of nothing else; a change it does
\* not tell of lost its answer, its entry or its process; and a request that
\* lost nothing and was refused changed nothing.
ChangesAudited ==
  /\ \A i, j \in DOMAIN toldOf : toldOf[i] = toldOf[j] => i = j
  /\ ToSet(toldOf) \subseteq changes
  /\ \A e \in changes : edit[e] = "audit" \/ e \in ToSet(toldOf) \cup unheard
  /\ \A e \in changes \ unheard : edit[e] # "refused"

\* The environment has a line for each variable, under the first of its sources.
EnvWhole ==
  \A p \in provider : \A lines \in EnvLines(p) :
    LET Source(k) == IF k \in p.creds THEN "credential" ELSE IF k \in p.config THEN "config" ELSE "type_default"
    IN  /\ ToSet(lines) = {[key |-> k, source |-> Source(k)] : k \in p.creds \cup p.config \cup DefaultKey(p)}
        /\ \A i, j \in DOMAIN lines : lines[i].key = lines[j].key => i = j

(***************************************************************************)
(* What the log and the environment say of a provider is what became of it *)
(* (api/routes/providers.py, services/providers.py get_env).               *)
(***************************************************************************)
ProvidersTell == ChangesAudited /\ EnvWhole

=============================================================================
