------------------------------- MODULE Accounts -------------------------------
(***************************************************************************)
(* The users (api/auth/users.py) and the routes that create and delete     *)
(* them: setup, invitations, self-registration, sign-in through an OIDC    *)
(* provider, deletion.  A call is a sequence of reads and commits, each of *)
(* which another call may come between.  A row is known by its e-mail, the *)
(* unique column; rows locked by a reader (FOR UPDATE) exist on PostgreSQL *)
(* and not on SQLite.                                                      *)
(***************************************************************************)
EXTENDS FiniteSets, FiniteSetsExt, Naturals

CONSTANTS Emails, Subjects, Callers

VARIABLES
  users,    \* the rows
  callers,  \* what each call in progress is about to do
  rowLocks, \* whether the database locks the rows a FOR UPDATE reads
  admins    \* history: whether there was an administrator, and two deletions raced

accountVars == <<users, callers, rowLocks, admins>>

NoUser == [role |-> "none", invited |-> FALSE, sub |-> {}]
RowRec == [role : {"admin", "viewer"}, invited : BOOLEAN, sub : SUBSET Subjects]
Idle == [pc |-> "idle", row |-> NoUser]

Here == {e \in Emails : users[e] # NoUser}
Admins == {e \in Emails : users[e].role = "admin"}

AccountInit ==
  /\ users = [e \in Emails |-> NoUser]
  /\ callers = [c \in Callers |-> Idle]
  /\ rowLocks \in BOOLEAN
  /\ admins = "none"

Goes(c, pc, e, row) == callers' = [callers EXCEPT ![c] = [pc |-> pc, email |-> e, row |-> row]]
CallEnds(c) == callers' = [callers EXCEPT ![c] = Idle]
Stay == UNCHANGED <<users, admins, rowLocks>>

\* The row is another caller's, who read it for an update.
HeldByOther(c, e) ==
  rowLocks /\ \E d \in Callers \ {c} : callers[d].pc \in {"accept", "count", "delete"} /\ callers[d].email = e

\* The setup wizard, and the administrator of the environment at startup: only
\* while there is no user.
SetupChecks(c) ==
  /\ callers[c] = Idle /\ Here = {}
  /\ \E e \in Emails : Goes(c, "create", e, [role |-> "admin", invited |-> FALSE, sub |-> {}])
  /\ Stay

\* An administrator invites a user: a row without a password.
InviteChecks(c) ==
  /\ callers[c] = Idle /\ Admins # {}
  /\ \E e \in Emails, r \in {"admin", "viewer"} :
       Goes(c, "create", e, [role |-> r, invited |-> TRUE, sub |-> {}])
  /\ Stay

RegisterChecks(c) ==
  /\ callers[c] = Idle /\ Here # {}
  /\ \E e \in Emails : Goes(c, "create", e, [role |-> "viewer", invited |-> FALSE, sub |-> {}])
  /\ Stay

\* create_user: the unique column refuses a second row.
Creates(c) ==
  /\ callers[c].pc = "create"
  /\ LET e == callers[c].email IN
       /\ users' = IF users[e] = NoUser THEN [users EXCEPT ![e] = callers[c].row] ELSE users
       /\ admins' = IF admins = "none" /\ users'[e].role = "admin" THEN "kept" ELSE admins
  /\ CallEnds(c)
  /\ UNCHANGED rowLocks

-----------------------------------------------------------------------------
\* accept_invite: the row whose token it is, read for the update.
AcceptReads(c) ==
  /\ callers[c] = Idle
  /\ \E e \in Here :
       /\ users[e].invited /\ ~HeldByOther(c, e)
       /\ Goes(c, "accept", e, users[e])
  /\ Stay

AcceptCommits(c) ==
  /\ callers[c].pc = "accept"
  /\ users' = [users EXCEPT ![callers[c].email].invited = FALSE]
  /\ CallEnds(c)
  /\ UNCHANGED <<rowLocks, admins>>

-----------------------------------------------------------------------------
\* find_or_create_oidc_user: nobody has the identity (who has it signs in).
OidcLooks(c) ==
  /\ callers[c] = Idle
  /\ \E s \in Subjects, e \in Emails, r \in {"admin", "viewer"} :
       /\ \A u \in Here : s \notin users[u].sub
       /\ Goes(c, "oidc", e, [role |-> r, invited |-> FALSE, sub |-> {s}])
  /\ Stay

\* The row of the e-mail, if there is one, is to be linked.
OidcReads(c) ==
  /\ callers[c].pc = "oidc"
  /\ callers' = [callers EXCEPT ![c].pc = IF users[callers[c].email] = NoUser THEN "create" ELSE "link"]
  /\ Stay

OidcLinks(c) ==
  /\ callers[c].pc = "link"
  /\ users' = [users EXCEPT ![callers[c].email].sub = callers[c].row.sub]
  /\ CallEnds(c)
  /\ UNCHANGED <<admins, rowLocks>>

-----------------------------------------------------------------------------
\* The route lists the users, and refuses the last administrator.
DeleteLists(c) ==
  /\ callers[c] = Idle
  /\ \E e \in Here :
       /\ e \in Admins => Cardinality(Admins) > 1
       /\ Goes(c, "read", e, NoUser)
  /\ Stay

\* delete_user reads the row for the update.
DeleteReads(c) ==
  /\ callers[c].pc = "read"
  /\ ~HeldByOther(c, callers[c].email)
  /\ LET e == callers[c].email IN Goes(c, IF e \in Admins THEN "count" ELSE "delete", e, users[e])
  /\ Stay

\* Mutant of OtherAdmins: the count includes the one to be deleted.
AllAdmins(e) == Admins

OtherAdmins(e) == Admins \ {e}

\* It counts the other administrators, and refuses when there is none.
DeleteCounts(c) ==
  /\ callers[c].pc = "count"
  /\ IF OtherAdmins(callers[c].email) = {} THEN CallEnds(c)
     ELSE callers' = [callers EXCEPT ![c].pc = "delete"]
  /\ Stay

\* Another deletion has counted this administrator and is about to commit.
CountedByOther(c) ==
  \E d \in Callers \ {c} : callers[d].pc = "delete" /\ callers[d].row.role = "admin"

\* A call that has read the row, by its id, can only fail once it is deleted.
HasRead(d, e) == callers[d].pc \in {"accept", "link", "read", "count", "delete"} /\ callers[d].email = e

DeleteCommits(c) ==
  /\ callers[c].pc = "delete"
  /\ users' = [users EXCEPT ![callers[c].email] = NoUser]
  /\ admins' = IF callers[c].row.role = "admin" /\ CountedByOther(c) THEN "raced" ELSE admins
  /\ callers' = [d \in Callers |-> IF d = c \/ HasRead(d, callers[c].email) THEN Idle ELSE callers[d]]
  /\ UNCHANGED rowLocks

AccountNext == \E c \in Callers :
  \/ SetupChecks(c) \/ InviteChecks(c) \/ RegisterChecks(c) \/ Creates(c)
  \/ AcceptReads(c) \/ AcceptCommits(c)
  \/ OidcLooks(c) \/ OidcReads(c) \/ OidcLinks(c)
  \/ DeleteLists(c) \/ DeleteReads(c) \/ DeleteCounts(c) \/ DeleteCommits(c)

AccountSpec == AccountInit /\ [][AccountNext]_accountVars

-----------------------------------------------------------------------------
\* Once there is an administrator there always is one, as long as no two
\* deletions of administrators overlap: the list the route reads may be stale
\* (routes/users.py delete_user_endpoint), the count of delete_user is not.
AdminStays == admins = "kept" => Admins # {}

-----------------------------------------------------------------------------
(***************************************************************************)
(* Who a request comes from: the signed cookie of a session, with the      *)
(* ledger of revoked sessions (api/auth/user_sessions.py), or the key of a *)
(* service principal (api/auth/service_principals.py).  An HTTP request    *)
(* reads the user and then the ledger (api/auth/core.py,                   *)
(* check_request_auth); a WebSocket reads the user alone (api/auth/rbac.py,*)
(* require_auth_ws and require_role_ws).  A cookie names its user by the   *)
(* id of the row, and an id that is free may come again: SQLite gives a    *)
(* new row the one after the highest, PostgreSQL counts on.                *)
(***************************************************************************)

CONSTANTS MaxUsers, Tokens, ApiKeys, Requests  \* MaxUsers: bound on the users there ever are

ASSUME UsersAssumption == MaxUsers \in Nat

VARIABLES
  people,     \* the rows of users: the number of the person who has each id, or 0
  born,       \* how many persons were given a row: they are numbered as they come
  idsReused,  \* whether the database is SQLite
  sessions,   \* the cookies: the id each names, the person it was made for, and its row in the ledger
  principal,  \* the key of the one service principal: a set of at most one
  issued,     \* the keys that were given out
  retired,    \* history: the keys that were replaced, or went with the principal
  rotations,  \* the rotations under way, with the key each brings
  requests    \* what each request is about to read, and what held when it began

userVars == <<people, born, idsReused>>
keyVars == <<principal, issued, retired, rotations>>
sessionVars == <<people, born, idsReused, sessions, principal, issued, retired, rotations, requests>>

UserIds == 1 .. MaxUsers

NoSession == [id |-> 0, who |-> 0, ledger |-> "none", expired |-> FALSE]
SessionRec == [id : UserIds, who : UserIds, ledger : {"none", "active", "revoked"}, expired : BOOLEAN]

(***************************************************************************)
(* A request.  by: how it comes.  who and as: history, the person its      *)
(* cookie was made for and the person the user's row was of when it was    *)
(* read.  good and struck: history, whether that person, or the key, was   *)
(* there and whether the session was struck out when the request began.    *)
(***************************************************************************)
Quiet == [pc |-> "idle", by |-> "none", token |-> {}, who |-> 0, as |-> 0, good |-> TRUE, struck |-> FALSE]

SessionInit ==
  /\ born \in UserIds
  /\ people = [i \in UserIds |-> IF i <= born THEN i ELSE 0]
  /\ idsReused \in BOOLEAN
  /\ sessions = [t \in Tokens |-> NoSession]
  /\ principal = {} /\ issued = {} /\ retired = {} /\ rotations = {}
  /\ requests = [r \in Requests |-> Quiet]

NextId == IF idsReused THEN Max({0} \cup {i \in UserIds : people[i] # 0}) + 1 ELSE born + 1

\* create_user, for whoever comes next.
CreatesUser ==
  /\ born < MaxUsers
  /\ people' = [people EXCEPT ![NextId] = born + 1]
  /\ born' = born + 1
  /\ UNCHANGED <<idsReused, sessions, keyVars, requests>>

\* create_tracked_session: the ledger may fail, or be off, and the cookie is good
\* all the same.
SignsIn(t) ==
  /\ sessions[t] = NoSession
  /\ \E i \in UserIds, l \in {"none", "active"} :
       /\ people[i] # 0
       /\ sessions' = [sessions EXCEPT ![t] = [id |-> i, who |-> people[i], ledger |-> l, expired |-> FALSE]]
  /\ UNCHANGED <<userVars, keyVars, requests>>

Valid(t) == sessions[t] # NoSession /\ ~sessions[t].expired

\* An HTTP request with the cookie is let in.
LetIn(t) == Valid(t) /\ people[sessions[t].id] # 0 /\ sessions[t].ledger # "revoked"

\* The sessions an UPDATE of the ledger strikes out.
Struck(T) == [t \in Tokens |->
  IF t \in T /\ sessions[t].ledger = "active" THEN [sessions[t] EXCEPT !.ledger = "revoked"] ELSE sessions[t]]

SignsOut(t) ==
  /\ Valid(t)
  /\ sessions' = Struck({t})
  /\ UNCHANGED <<userVars, keyVars, requests>>

\* A user strikes out one of their sessions, from any of them.
Revoke(t, current) ==
  /\ LetIn(current)
  /\ sessions' = Struck({u \in {t} : sessions[u].id = sessions[current].id})
  /\ UNCHANGED <<userVars, keyVars, requests>>

Others(current) == {t \in Tokens \ {current} : sessions[t].id = sessions[current].id}

RevokeOthers(current) ==
  /\ LetIn(current)
  /\ sessions' = Struck(Others(current))
  /\ UNCHANGED <<userVars, keyVars, requests>>

Expires(t) ==
  /\ Valid(t)
  /\ sessions' = [sessions EXCEPT ![t].expired = TRUE]
  /\ UNCHANGED <<userVars, keyVars, requests>>

\* The history excuses a request that has read the user and not yet the ledger.
Overtaken(r, i) == requests[r].pc = "ledger" /\ \E t \in requests[r].token : sessions[t].id = i

\* Deleting a user takes the rows of their sessions along (ON DELETE CASCADE).
DeletesUser(i) ==
  /\ people[i] # 0
  /\ people' = [people EXCEPT ![i] = 0]
  /\ sessions' = [t \in Tokens |-> IF sessions[t].id = i THEN [sessions[t] EXCEPT !.ledger = "none"] ELSE sessions[t]]
  /\ requests' = [r \in Requests |-> IF Overtaken(r, i) THEN [requests[r] EXCEPT !.struck = FALSE] ELSE requests[r]]
  /\ UNCHANGED <<born, idsReused, keyVars>>

-----------------------------------------------------------------------------
CreatesPrincipal(k) ==
  /\ principal = {} /\ issued = {}
  /\ principal' = {k} /\ issued' = {k}
  /\ UNCHANGED <<userVars, sessions, retired, rotations, requests>>

RotateReads(k) ==
  /\ principal # {} /\ k \notin issued
  /\ rotations' = rotations \cup {k} /\ issued' = issued \cup {k}
  /\ UNCHANGED <<userVars, sessions, principal, retired, requests>>

\* The write of the new hash; it fails when the row is gone.
RotateCommits(k) ==
  /\ k \in rotations
  /\ principal' = IF principal = {} THEN {} ELSE {k}
  /\ retired' = retired \cup principal
  /\ rotations' = rotations \ {k}
  /\ UNCHANGED <<userVars, sessions, issued, requests>>

DeletesPrincipal ==
  /\ principal # {}
  /\ principal' = {}
  /\ retired' = retired \cup principal
  /\ UNCHANGED <<userVars, sessions, issued, rotations, requests>>

-----------------------------------------------------------------------------
\* The cookie's signature and expiry, before anything is read.
CookieVerifies(r, t, by) ==
  /\ requests[r].pc = "idle" /\ Valid(t)
  /\ LET s == sessions[t] IN
       requests' = [requests EXCEPT ![r] =
         [pc |-> "user", by |-> by, token |-> {t}, who |-> s.who, as |-> 0,
          good |-> people[s.id] = s.who, struck |-> s.ledger = "revoked"]]
  /\ UNCHANGED <<userVars, sessions, keyVars>>

\* Mutant of ReadsLedger: HTTP requests are let in as WebSockets are.
NobodyReadsLedger(r) == FALSE

ReadsLedger(r) == requests[r].by = "http"

\* The user, by the id of the cookie, whoever has it now.
UserReads(r) ==
  /\ requests[r].pc = "user"
  /\ \E t \in requests[r].token :
       LET p == people[sessions[t].id] IN
       requests' = [requests EXCEPT ![r].as = p, ![r].pc =
         IF p = 0 THEN "refused" ELSE IF ReadsLedger(r) THEN "ledger" ELSE "accepted"]
  /\ UNCHANGED <<userVars, sessions, keyVars>>

Revoked(t) == sessions[t].ledger = "revoked"

LedgerReads(r) ==
  /\ requests[r].pc = "ledger"
  /\ \E t \in requests[r].token :
       requests' = [requests EXCEPT ![r].pc = IF Revoked(t) THEN "refused" ELSE "accepted"]
  /\ UNCHANGED <<userVars, sessions, keyVars>>

\* A key, of an HTTP request or a WebSocket: the row is read, then its last use is written.
KeyReads(r, k) ==
  /\ requests[r].pc = "idle" /\ k \in issued \ rotations
  /\ requests' = [requests EXCEPT ![r] =
       [Quiet EXCEPT !.pc = IF k \in principal THEN "used" ELSE "refused", !.by = "key", !.good = k \notin retired]]
  /\ UNCHANGED <<userVars, sessions, keyVars>>

KeyUsed(r) ==
  /\ requests[r].pc = "used"
  /\ requests' = [requests EXCEPT ![r].pc = IF principal = {} THEN "refused" ELSE "accepted"]
  /\ UNCHANGED <<userVars, sessions, keyVars>>

Answered(r) ==
  /\ requests[r].pc \in {"accepted", "refused"}
  /\ requests' = [requests EXCEPT ![r] = Quiet]
  /\ UNCHANGED <<userVars, sessions, keyVars>>

SessionNext ==
  \/ CreatesUser
  \/ \E t \in Tokens : SignsIn(t) \/ SignsOut(t) \/ RevokeOthers(t) \/ Expires(t)
  \/ \E t, u \in Tokens : Revoke(t, u)
  \/ \E i \in UserIds : DeletesUser(i)
  \/ \E k \in ApiKeys : CreatesPrincipal(k) \/ RotateReads(k) \/ RotateCommits(k)
  \/ DeletesPrincipal
  \/ \E r \in Requests :
       \/ UserReads(r) \/ LedgerReads(r) \/ KeyUsed(r) \/ Answered(r)
       \/ \E t \in Tokens, by \in {"http", "ws"} : CookieVerifies(r, t, by)
       \/ \E k \in ApiKeys : KeyReads(r, k)

SessionSpec == SessionInit /\ [][SessionNext]_sessionVars

-----------------------------------------------------------------------------
(***************************************************************************)
(* A request is accepted only if what it shows was good when it began: the *)
(* person its cookie was made for was there and, of an HTTP request, the   *)
(* session was not struck out; or its key was not yet replaced or deleted. *)
(* (The reads come afterwards, one at a time.)  Three are let in all the   *)
(* same and are left out, the first two against what the repository says:  *)
(*  - on SQLite a cookie whose id is another person's by now               *)
(*    (_lookup_user knows the id alone; tests/test_rbac.py:394-395);       *)
(*  - a WebSocket with a session that was struck out (require_auth_ws and  *)
(*    require_role_ws do not read the ledger; db/models/auth.py:130-132);  *)
(*  - a struck-out session whose user is deleted between the two reads and *)
(*    takes the rows of the ledger along (Overtaken).                      *)
(***************************************************************************)
TakenForAnother(q) == idsReused /\ q.as # q.who

StaysOut == \A r \in Requests : LET q == requests[r] IN
  q.pc = "accepted" => TakenForAnother(q) \/ (q.good /\ ~(q.by = "http" /\ q.struck))

=============================================================================
