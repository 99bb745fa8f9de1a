------------------------------ MODULE MCServer ------------------------------
(***************************************************************************)
(* What the server keeps for itself, for TLC: the audit log, the devices   *)
(* that get its pushes, who may do what (accounts, sessions, the ways to   *)
(* sign in, the limits, the roles, the tenants), the notices it gives, the *)
(* denials it keeps, the providers it edits and the gateways it runs.      *)
(* They share no state, so a behaviour exercises one of them, and the      *)
(* others stay as they begin.                                              *)
(***************************************************************************)
EXTENDS Audit, Accounts, SignIn, RateLimit, Access, Notices, Denials, Providers, LocalGateways, TLC

CONSTANTS e1, e2, y1, v1,          \* keys of denials, a provider type and its variable
          i1, i2, h1, h2, x1, x2, x3  \* tenants, local gateways, submissions

VARIABLE part

Parts == {"audit", "push", "accounts", "sessions", "link", "passkeys", "jwks", "limits", "roles",
          "digest", "watches",
          "tenants", "cache", "corpus", "providers", "local"}

TypeKeys == y1 :> v1

\* What is reported where the table is looked at: one key, or two.
CorpusReports == {<<e1>>, <<e1, e2>>}

\* Tenants, local gateways and submissions are alike: of the initial states that
\* differ only in their names one is enough.
Sorted(S, order) == \A k \in DOMAIN order : \A j \in 1 .. k : order[k] \in S => order[j] \in S
Named ==
  /\ Sorted(belongs, <<i1, i2>>)
  /\ port[h1] >= port[h2]
  /\ Sorted({i \in Submissions : Len(submit[i].keys) = 2}, <<x1, x2, x3>>)

MCInit ==
  /\ part \in Parts
  /\ AuditInit /\ PushInit /\ LinkInit /\ PasskeyInit /\ LimitInit /\ NoticeInit /\ ProviderInit
  /\ AccountInit /\ (part # "accounts" => rowLocks)
  /\ SessionInit /\ (part # "sessions" => born = 1 /\ idsReused)
  /\ JwksInit /\ (part # "jwks" => published = {CHOOSE k \in SigningKeys : TRUE})
  /\ RoleInit /\ (part # "roles" => own = Top)
  /\ TenantInit /\ IF part = "tenants" THEN tenants = TenantIds /\ nodes = Nodes ELSE tenants = {} /\ nodes = {}
  /\ DenialInit /\ CASE part = "cache" -> TRUE
                     [] part = "corpus" -> \A i \in Submissions : submit[i].keys \in CorpusReports
                     [] OTHER -> \A i \in Submissions : submit[i].keys = <<e1>>
  /\ LocalInit /\ (part # "local" => \A n \in LocalNames : port[n] = 0)
  /\ part \in {"tenants", "corpus", "local"} => Named

Moves(p, step, vars) == IF part = p THEN step ELSE UNCHANGED vars

MCNext ==
  /\ UNCHANGED part
  /\ Moves("audit", AuditNext, auditVars)
  /\ Moves("push", PushNext, pushVars)
  /\ Moves("accounts", AccountNext, accountVars)
  /\ Moves("sessions", SessionNext, sessionVars)
  /\ Moves("link", LinkNext, linkVars)
  /\ Moves("passkeys", PasskeyNext, passkeyVars)
  /\ Moves("jwks", JwksNext, jwksVars)
  /\ Moves("limits", LimitNext, limitVars)
  /\ Moves("roles", RoleNext, roleVars)
  /\ CASE part = "digest" -> DigestNext \/ NoticeCrash
       [] part = "watches" -> WatchNext \/ NoticeCrash
       [] OTHER -> UNCHANGED noticeVars
  /\ Moves("tenants", TenantNext, tenantVars)
  /\ CASE part = "cache" -> CacheNext
       [] part = "corpus" -> DenialNext
       [] OTHER -> UNCHANGED denialVars
  /\ Moves("providers", ProviderNext, providerVars)
  /\ Moves("local", LocalNext, localVars)

MCVars ==
  <<part, auditVars, pushVars, accountVars, sessionVars, linkVars, passkeyVars, jwksVars, limitVars, roleVars,
    noticeVars, tenantVars, denialVars, providerVars, localVars>>

MCSpec == MCInit /\ [][MCNext]_MCVars

=============================================================================
