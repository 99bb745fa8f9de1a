-------------------------------- MODULE Access --------------------------------
(***************************************************************************)
(* The role a user has on one gateway (api/auth/rbac.py require_role): an  *)
(* override for the gateway, the user's or else a group's, comes before    *)
(* the global role, and a group's global role raises what comes of it.     *)
(* The four are read one after the other while administrators edit them    *)
(* (api/auth/gateway_roles.py, api/auth/groups.py).  Roles are their       *)
(* ranks, 0 where there is none.                                           *)
(***************************************************************************)
EXTENDS FiniteSets, FiniteSetsExt, Integers

CONSTANTS Groups, Top  \* Top: the highest rank

ASSUME TopAssumption == Top \in Nat \ {0}

VARIABLES
  own,       \* the user's global role
  override,  \* the user's for the gateway
  groupRole, \* each group's global role; 0 when there is no such group
  groupGate, \* each group's for the gateway
  members,   \* the groups the user is in
  check,     \* the check in progress, and the role it has come to
  given      \* history: the roles the user was given in any way since it began

roleVars == <<own, override, groupRole, groupGate, members, check, given>>
sources == <<own, override, groupRole, groupGate, members>>

Ranks == 0 .. Top
Highest(S) == Max(S \cup {0})
NoCheck == [pc |-> "idle", role |-> 0]

\* What gives the user a role: the global one, the override, and the groups'.
GivenNow ==
  {own, override} \cup {groupRole[g] : g \in members} \cup {groupGate[g] : g \in members}

RoleInit ==
  /\ own \in Ranks \ {0}
  /\ override = 0 /\ members = {}
  /\ groupRole = [g \in Groups |-> 0] /\ groupGate = [g \in Groups |-> 0]
  /\ check = NoCheck /\ given = {}

SetUserRole(r) == override' = r /\ UNCHANGED <<own, groupRole, groupGate, members>>

\* create_group and update_group.
SetGroup(g, r) == groupRole' = [groupRole EXCEPT ![g] = r] /\ UNCHANGED <<own, override, groupGate, members>>

\* The rows of a group go with it.
DeleteGroup(g) ==
  /\ groupRole' = [groupRole EXCEPT ![g] = 0]
  /\ groupGate' = [groupGate EXCEPT ![g] = 0]
  /\ members' = members \ {g}
  /\ UNCHANGED <<own, override>>

AddMember(g) == groupRole[g] # 0 /\ members' = members \cup {g} /\ UNCHANGED <<own, override, groupRole, groupGate>>
RemoveMember(g) == members' = members \ {g} /\ UNCHANGED <<own, override, groupRole, groupGate>>

SetGroupGateway(g, r) ==
  /\ groupRole[g] # 0
  /\ groupGate' = [groupGate EXCEPT ![g] = r]
  /\ UNCHANGED <<own, override, groupRole, members>>

\* The gateway is deleted, and the overrides for it with it.
DeleteGateway ==
  /\ override' = 0
  /\ groupGate' = [g \in Groups |-> 0]
  /\ UNCHANGED <<own, groupRole, members>>

Edits ==
  /\ \/ \E r \in Ranks : SetUserRole(r)
     \/ \E g \in Groups : DeleteGroup(g) \/ AddMember(g) \/ RemoveMember(g) \/ \E r \in Ranks \ {0} : SetGroup(g, r)
     \/ \E g \in Groups, r \in Ranks : SetGroupGateway(g, r)
     \/ DeleteGateway
  /\ UNCHANGED check

-----------------------------------------------------------------------------
Continues(pc, role) == check' = [pc |-> pc, role |-> role] /\ UNCHANGED sources

\* check_request_auth: the user's global role.
ReadsUser == check.pc = "idle" /\ Continues("override", own)

\* _lookup_gateway_role: the user's override, which decides alone; else the groups'.
ReadsOverride ==
  /\ check.pc = "override"
  /\ IF override # 0 THEN Continues("global", override) ELSE Continues("groups", check.role)

\* Mutant of Joined: the groups of everybody.
JoinedAny(roles) == {roles[g] : g \in Groups}

\* The rows of the groups the user is in.
Joined(roles) == {roles[g] : g \in members}

GroupOverride == Highest(Joined(groupGate))

ReadsGroups ==
  /\ check.pc = "groups"
  /\ Continues("global", IF GroupOverride # 0 THEN GroupOverride ELSE check.role)

\* _lookup_group_global_role: it raises the role, and never lowers it.
ReadsGlobal == check.pc = "global" /\ Continues("done", Highest({check.role} \cup Joined(groupRole)))

Decides == check.pc = "done" /\ Continues("idle", 0)

RoleNext ==
  /\ Edits \/ ReadsUser \/ ReadsOverride \/ ReadsGroups \/ ReadsGlobal \/ Decides
  /\ given' = IF check'.pc = "idle" THEN {} ELSE given \cup GivenNow \cup GivenNow'

RoleSpec == RoleInit /\ [][RoleNext]_roleVars

\* A check comes to a role the user was given in some way while it ran: the reads
\* may straddle edits, but none makes up a role (rbac.py require_role).
RoleWasGiven == check.pc = "done" => check.role \in given

-----------------------------------------------------------------------------
(***************************************************************************)
(* Tenants (services/tenant.py, api/routes/tenants.py, db/models/tenant.py *)
(* and scoped_gateway_names of api/auth/rbac.py): groups of gateways and   *)
(* users that narrow what a user who is no admin is shown.  A view reads   *)
(* the registry, the user's tenants and their gateways one after the       *)
(* other, each in a snapshot of its own, while administrators edit all     *)
(* three.  One user, one view and one assignment at a time; what else a    *)
(* tenant has (its name, its description) is read by nothing here.         *)
(*                                                                         *)
(* An id that SQLite gives again after its row was removed stands for the  *)
(* same tenant or gateway.                                                 *)
(***************************************************************************)

CONSTANTS TenantIds,
          Nodes,          \* the names of gateways
          MaxTenantEdits  \* bound: edits by administrators

VARIABLES
  tenants,   \* the tenants there are
  nodes,     \* the gateways registered
  holds,     \* TenantGateway rows
  belongs,   \* the tenants in the user's TenantUser rows
  assign,    \* the assignment in progress
  view,      \* the request for a list of gateways in progress
  since,     \* history: what was so at some time, or at all times, since the view began
  tenantEdits

tenantRows == <<tenants, nodes, holds, belongs>>
tenantVars == <<tenantRows, assign, view, since, tenantEdits>>

NoView == [pc |-> "idle", kind |-> "list", of |-> {}, read |-> {}, shown |-> {}]
NoAssign == [pc |-> "idle", row |-> <<>>]

HeldBy(T) == {n \in nodes : \E t \in T : <<t, n>> \in holds}

\* The user's part of the rows, as the history keeps it.
Now == [mine |-> belongs, held |-> holds, free |-> belongs = {}, always |-> {r \in holds : r[1] \in belongs}]

TenantInit ==
  /\ tenants \in SUBSET TenantIds /\ nodes \in SUBSET Nodes
  /\ holds \in SUBSET (tenants \X nodes) /\ belongs \in SUBSET tenants
  /\ assign = NoAssign /\ view = NoView
  /\ since = Now /\ tenantEdits = 0

-----------------------------------------------------------------------------
(* The rows: the keys of TenantGateway and TenantUser cascade. *)

Drops(T, N) ==
  /\ tenants' = tenants \ T /\ nodes' = nodes \ N
  /\ holds' = {r \in holds : r[1] \notin T /\ r[2] \notin N}
  /\ belongs' = belongs \ T

CreateTenant(t) == t \notin tenants /\ tenants' = tenants \cup {t} /\ UNCHANGED <<nodes, holds, belongs>>
DeleteTenant(t) == t \in tenants /\ Drops({t}, {})
Enrolls(n) == n \notin nodes /\ nodes' = nodes \cup {n} /\ UNCHANGED <<tenants, holds, belongs>>
Strikes(n) == n \in nodes /\ Drops({}, {n})
RemoveGateway(t, n) == <<t, n>> \in holds /\ holds' = holds \ {<<t, n>>} /\ UNCHANGED <<tenants, nodes, belongs>>
RemoveUser(t) == t \in belongs /\ belongs' = belongs \ {t} /\ UNCHANGED <<tenants, nodes, holds>>

\* add_gateway looks for both before it inserts, add_user for the tenant.
BothThere(t, n) == t \in tenants /\ n \in nodes

AddGatewayLooks(t, n) == assign.pc = "idle" /\ BothThere(t, n) /\ assign' = [pc |-> "gateway", row |-> <<t, n>>]
AddUserLooks(t) == assign.pc = "idle" /\ t \in tenants /\ assign' = [pc |-> "user", row |-> <<t>>]

\* A row that is there, or whose tenant or gateway is gone by now, is an
\* IntegrityError: it is taken for a member that is there.
AddGatewayCommits ==
  /\ assign.pc = "gateway"
  /\ holds' = IF assign.row[1] \in tenants /\ assign.row[2] \in nodes THEN holds \cup {assign.row} ELSE holds
  /\ assign' = NoAssign
  /\ UNCHANGED <<tenants, nodes, belongs>>

AddUserCommits ==
  /\ assign.pc = "user"
  /\ belongs' = belongs \cup ({assign.row[1]} \cap tenants)
  /\ assign' = NoAssign
  /\ UNCHANGED <<tenants, nodes, holds>>

Edit ==
  /\ tenantEdits < MaxTenantEdits /\ tenantEdits' = tenantEdits + 1
  /\ \/ /\ \/ \E t \in TenantIds : CreateTenant(t) \/ DeleteTenant(t) \/ RemoveUser(t)
           \/ \E n \in Nodes : Enrolls(n) \/ Strikes(n)
           \/ \E t \in TenantIds, n \in Nodes : RemoveGateway(t, n)
        /\ UNCHANGED assign
     \/ AddGatewayCommits \/ AddUserCommits
  /\ UNCHANGED view

Assigns ==
  /\ \E t \in TenantIds : AddUserLooks(t) \/ \E n \in Nodes : AddGatewayLooks(t, n)
  /\ UNCHANGED <<tenantRows, view, tenantEdits>>

-----------------------------------------------------------------------------
(* The views. *)

Turns(pc, v) == view' = [v EXCEPT !.pc = pc] /\ UNCHANGED <<tenantRows, assign, tenantEdits>>

\* gateway_list reads the registry before the scope.
ListReads == view.pc = "idle" /\ Turns("scope", [view EXCEPT !.kind = "list", !.read = nodes])

\* The fleet and the digest read the scope first.
FleetBegins == view.pc = "idle" /\ Turns("scope", [view EXCEPT !.kind = "fleet"])

\* Mutant of Unscoped: a scope without gateways is no scope.
UnscopedWhenEmpty(T) == HeldBy(T) = {}

\* In no tenant: the whole fleet.
Unscoped(T) == T = {}

ReadsTenants ==
  /\ view.pc = "scope"
  /\ IF Unscoped(belongs)
     THEN IF view.kind = "list" THEN Turns("done", [view EXCEPT !.shown = view.read])
          ELSE Turns("overview", [view EXCEPT !.read = Nodes])
     ELSE Turns("names", [view EXCEPT !.of = belongs])

ReadsNames ==
  /\ view.pc = "names"
  /\ IF view.kind = "list" THEN Turns("done", [view EXCEPT !.shown = view.read \cap HeldBy(view.of)])
     ELSE Turns("overview", [view EXCEPT !.read = HeldBy(view.of)])

ReadsFleet == view.pc = "overview" /\ Turns("done", [view EXCEPT !.shown = nodes \cap view.read])

\* A read that fails is a 503: nothing is shown.
ScopeFails == view.pc \in {"scope", "names"} /\ Turns("idle", NoView)

\* tenant_rollup: get_tenant for the members, and once more for the gateways.
RollupReadsTenant(t) == view.pc = "idle" /\ t \in tenants /\ Turns("members", [view EXCEPT !.kind = "rollup", !.of = {t}])

RollupReadsMembers ==
  /\ view.pc = "members"
  /\ IF view.of \subseteq belongs THEN Turns("again", view) ELSE Turns("idle", NoView)

\* A tenant that is gone by now has no gateways.
RollupReadsAgain ==
  /\ view.pc = "again"
  /\ IF view.of \subseteq tenants THEN Turns("gateways", view) ELSE Turns("done", view)

RollupReadsGateways == view.pc = "gateways" /\ Turns("done", [view EXCEPT !.shown = HeldBy(view.of)])

Answers == view.pc = "done" /\ Turns("idle", NoView)

ViewStep ==
  \/ ListReads \/ FleetBegins \/ ReadsTenants \/ ReadsNames \/ ReadsFleet \/ ScopeFails
  \/ (\E t \in TenantIds : RollupReadsTenant(t)) \/ RollupReadsMembers \/ RollupReadsAgain \/ RollupReadsGateways
  \/ Answers

TenantNext ==
  /\ Edit \/ Assigns \/ ViewStep
  /\ since' = IF view'.pc = "idle" THEN Now'
              ELSE [mine |-> since.mine \cup belongs', held |-> since.held \cup holds',
                    free |-> since.free \/ belongs' = {}, always |-> since.always \cap Now.always']

TenantSpec == TenantInit /\ [][TenantNext]_tenantVars

-----------------------------------------------------------------------------
(***************************************************************************)
(* What a view shows was, at some time since it began, a gateway of a      *)
(* tenant that was the user's at some time since, or the user was in none; *)
(* and what the user had of one tenant all the time is shown.  A rollup    *)
(* shows only gateways of its tenant, to a user who was in it.             *)
(***************************************************************************)
ScopeHolds ==
  view.pc = "done" =>
    IF view.kind = "rollup"
    THEN view.of \subseteq since.mine /\ \A n \in view.shown : \E t \in view.of : <<t, n>> \in since.held
    ELSE /\ since.free \/ \A n \in view.shown : \E t \in since.mine : <<t, n>> \in since.held
         /\ {r[2] : r \in since.always} \subseteq view.shown

=============================================================================
