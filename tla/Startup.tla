------------------------------ MODULE Startup -------------------------------
(***************************************************************************)
(* How a server comes up and goes down (app.py, db/__init__.py): it brings *)
(* the schema to the newest revision, whatever it finds, builds its        *)
(* services, serves, and at the end stops what still works before it lets  *)
(* go of the database.  Several servers may start on one database, which   *)
(* may be away, and each may crash at any step; what starts them again is  *)
(* not part of the program.                                                *)
(*                                                                         *)
(* A revision creates tables, each with its index; the baseline creates    *)
(* those of all revisions, and a revision skips a table that is there      *)
(* (alembic/versions).  PostgreSQL runs all of it in one transaction; on   *)
(* SQLite, for one server, each statement is final.                        *)
(***************************************************************************)
EXTENDS Integers, Sequences

CONSTANTS Servers,
          Newest,          \* the newest revision; the baseline is revision 0
          StartAttempts,   \* startup_retry_attempts
          MaxStartFaults   \* bound: crashes, shutdowns and outages of the database

ASSUME StartupAssumption == Newest \in Nat /\ StartAttempts \in Nat \ {0}

VARIABLES db,          \* the database
          server,      \* each server
          startFaults

startupVars == <<db, server, startFaults>>

Empty == -1     \* no revision: a database without tables
Squashed == -2  \* _PRE_SQUASH_HEAD: the tables of the old baseline
Foreign == -3   \* a revision that the chain does not know, older or newer
Unwritten == -4
Known == Empty..Newest

(* The tables of a revision; those of the old baseline are one. *)
Core == <<0, 1>>
Own(v) == IF v = 0 THEN <<Core>> ELSE << <<v, 1>>, <<v, 2>> >>
TablesTo(v) == {Core} \cup {<<w, n>> : w \in 1..v, n \in 1..2}
AllTables == Own(0) \o [i \in 1..(2 * Newest) |-> << (i + 1) \div 2, 2 - (i % 2) >>]
Creates(v) == IF v = 0 THEN AllTables ELSE Own(v)

Idle == [lro |-> FALSE, periodic |-> FALSE, delivery |-> FALSE, late |-> {}]
NoServer == [pc |-> "off", todo |-> <<>>, rev |-> Empty, left |-> 0, made |-> {},
             written |-> Unwritten, work |-> Idle]

StartupInit ==
    /\ \E found \in {Empty, Squashed, Foreign} \cup 0..Newest, atomic \in BOOLEAN :
        LET tables == IF found = Empty THEN {} ELSE IF found \in 0..Newest THEN TablesTo(found) ELSE {Core}
        IN  db = [up |-> TRUE, atomic |-> atomic, found |-> found, version |-> found,
                  tables |-> tables, indexed |-> tables, torn |-> {}]
    /\ server = [s \in Servers |-> NoServer]
    /\ startFaults = 0

Deployed == IF db.atomic THEN Servers ELSE {CHOOSE s \in Servers : TRUE}
In(s, pc) == server[s].pc = pc
Becomes(s, r) == server' = [server EXCEPT ![s] = r]
Go(s, pc) == Becomes(s, [server[s] EXCEPT !.pc = pc])
GivesUp(s) == Becomes(s, NoServer)  \* the exception ends the process

DbLeaves ==
    /\ db.up /\ startFaults < MaxStartFaults
    /\ db' = [db EXCEPT !.up = FALSE]
    /\ startFaults' = startFaults + 1
    /\ UNCHANGED server

DbReturns == ~db.up /\ db' = [db EXCEPT !.up = TRUE] /\ UNCHANGED <<server, startFaults>>

-----------------------------------------------------------------------------
(* init_db. *)

Start(s) ==
    /\ In(s, "off") /\ s \in Deployed
    /\ Go(s, "check")
    /\ UNCHANGED <<db, startFaults>>

Upgrade(s, left) == Becomes(s, [NoServer EXCEPT !.pc = "upgrade", !.left = left])

(* _maybe_stamp_v2_baseline: a database that does not answer is held to be *)
(* new.                                                                    *)
Check(s) ==
    /\ In(s, "check")
    /\ IF db.up /\ db.version = Foreign THEN GivesUp(s)
       ELSE IF db.up /\ db.version = Squashed THEN Go(s, "stamp")
       ELSE Upgrade(s, StartAttempts)
    /\ UNCHANGED <<db, startFaults>>

(* Whatever revision is there by now goes (purge). *)
Stamp(s) ==
    /\ In(s, "stamp")
    /\ IF db.up THEN Upgrade(s, StartAttempts) /\ db' = [db EXCEPT !.version = 0]
       ELSE GivesUp(s) /\ UNCHANGED db
    /\ UNCHANGED startFaults

(* An OperationalError uses up an attempt, any other error is the end.     *)
(* What the attempt did is rolled back in a transaction, and stays without *)
(* one.                                                                    *)
AttemptFails(s) ==
    IF server[s].left > 1 THEN Upgrade(s, server[s].left - 1) ELSE GivesUp(s)

Tears(s) == IF In(s, "index") /\ ~db.atomic
            THEN [db EXCEPT !.torn = @ \cup {Head(server[s].todo)}] ELSE db

ConnectionLost(s) ==
    /\ server[s].pc \in {"upgrade", "inspect", "create", "index", "version", "commit"} /\ ~db.up
    /\ AttemptFails(s)
    /\ db' = Tears(s)
    /\ UNCHANGED startFaults

AtRevision(s, v) ==
    [server[s] EXCEPT !.pc = IF v = Newest THEN "commit" ELSE "inspect",
                      !.rev = v, !.todo = IF v = Newest THEN <<>> ELSE Creates(v + 1)]

UpgradeStarts(s) ==
    /\ In(s, "upgrade") /\ db.up
    /\ IF db.version \in Known THEN Becomes(s, AtRevision(s, db.version)) ELSE GivesUp(s)
    /\ UNCHANGED <<db, startFaults>>

(* The guard of a table (has_table), once per revision or once per table. *)
SkipsRevision(todo) == <<>>
Skips(todo) == Tail(todo)

Inspect(s) ==
    /\ In(s, "inspect") /\ db.up
    /\ LET todo == server[s].todo
       IN  IF todo = <<>> THEN Go(s, "version")
           ELSE IF Head(todo) \in db.tables \cup server[s].made
           THEN Becomes(s, [server[s] EXCEPT !.todo = Skips(todo)])
           ELSE Go(s, "create")
    /\ UNCHANGED <<db, startFaults>>

(* A table that another transaction is about to create has to be waited    *)
(* for; once it is there, creating it fails.                               *)
CreateTable(s) ==
    /\ In(s, "create") /\ db.up
    /\ LET t == Head(server[s].todo)
       IN  /\ \A o \in Servers \ {s} : t \notin server[o].made
           /\ IF t \in db.tables THEN GivesUp(s) /\ UNCHANGED db
              ELSE IF db.atomic
              THEN Becomes(s, [server[s] EXCEPT !.pc = "index", !.made = @ \cup {t}]) /\ UNCHANGED db
              ELSE Go(s, "index") /\ db' = [db EXCEPT !.tables = @ \cup {t}]
    /\ UNCHANGED startFaults

CreateIndex(s) ==
    /\ In(s, "index") /\ db.up
    /\ Becomes(s, [server[s] EXCEPT !.pc = "inspect", !.todo = Tail(@)])
    /\ db' = IF db.atomic THEN db ELSE [db EXCEPT !.indexed = @ \cup {Head(server[s].todo)}]
    /\ UNCHANGED startFaults

(* The row of the revision is replaced, and has to be the one expected. *)
WriteVersion(s) ==
    /\ In(s, "version") /\ db.up
    /\ \A o \in Servers \ {s} : server[o].written = Unwritten
    /\ LET r == server[s]
           current == IF r.written = Unwritten THEN db.version ELSE r.written
           next == r.rev + 1
       IN  IF current # r.rev THEN GivesUp(s) /\ UNCHANGED db
           ELSE IF db.atomic
           THEN Becomes(s, [AtRevision(s, next) EXCEPT !.written = next]) /\ UNCHANGED db
           ELSE Becomes(s, AtRevision(s, next)) /\ db' = [db EXCEPT !.version = next]
    /\ UNCHANGED startFaults

Commit(s) ==
    /\ In(s, "commit") /\ db.up
    /\ LET r == server[s]
       IN  db' = [db EXCEPT !.tables = @ \cup r.made, !.indexed = @ \cup r.made,
                            !.version = IF r.written = Unwritten THEN @ ELSE r.written]
    /\ Becomes(s, [NoServer EXCEPT !.pc = "build"])
    /\ UNCHANGED startFaults

-----------------------------------------------------------------------------
(* The rest of lifespan.  The services are built, gateways imported,       *)
(* orphans recovered and the administrator set up; any error of the        *)
(* database on the way ends the start.                                     *)

Builds(s) ==
    /\ In(s, "build")
    /\ IF db.up THEN Becomes(s, [server[s] EXCEPT !.pc = "serving", !.work.periodic = TRUE])
       ELSE GivesUp(s)
    /\ UNCHANGED <<db, startFaults>>

Working(s) == server[s].pc \in {"serving", "lros", "hooks", "tasks"}

LroStarts(s) ==
    /\ In(s, "serving") /\ ~server[s].work.lro
    /\ Becomes(s, [server[s] EXCEPT !.work.lro = TRUE])
    /\ UNCHANGED <<db, startFaults>>

LroEnds(s) ==
    /\ Working(s) /\ server[s].work.lro
    /\ Becomes(s, [server[s] EXCEPT !.work.lro = FALSE])
    /\ UNCHANGED <<db, startFaults>>

(* An operation and a periodic task fire webhooks. *)
Fires(s) ==
    /\ server[s].work.lro \/ server[s].work.periodic
    /\ Working(s) /\ ~server[s].work.delivery
    /\ Becomes(s, [server[s] EXCEPT !.work.delivery = TRUE,
                                    !.work.late = IF In(s, "tasks") THEN @ \cup {"delivery"} ELSE @])
    /\ UNCHANGED <<db, startFaults>>

DeliveryEnds(s) ==
    /\ Working(s) /\ server[s].work.delivery
    /\ Becomes(s, [server[s] EXCEPT !.work.delivery = FALSE, !.work.late = @ \ {"delivery"}])
    /\ UNCHANGED <<db, startFaults>>

(* Shutdown: each kind of work in turn is cancelled and waited for, until  *)
(* it has ended or the time for it is up.                                  *)
Stops(s) ==
    /\ In(s, "serving") /\ startFaults < MaxStartFaults
    /\ startFaults' = startFaults + 1
    /\ Go(s, "lros")
    /\ UNCHANGED db

LrosStopped(s) ==
    /\ In(s, "lros")
    /\ Becomes(s, [server[s] EXCEPT !.pc = "hooks",
                                    !.work.late = IF server[s].work.lro THEN @ \cup {"lro"} ELSE @])
    /\ UNCHANGED <<db, startFaults>>

HooksStopped(s) ==
    /\ In(s, "hooks")
    /\ Becomes(s, [server[s] EXCEPT !.pc = "tasks",
                                    !.work.late = IF server[s].work.delivery THEN @ \cup {"delivery"} ELSE @])
    /\ UNCHANGED <<db, startFaults>>

TasksStopped(s) ==
    /\ In(s, "tasks")
    /\ \E overdue \in BOOLEAN :
        Becomes(s, [server[s] EXCEPT !.pc = "disposed", !.work.periodic = overdue,
                                     !.work.late = IF overdue THEN @ \cup {"periodic"} ELSE @])
    /\ UNCHANGED <<db, startFaults>>

Exits(s) == In(s, "disposed") /\ GivesUp(s) /\ UNCHANGED <<db, startFaults>>

ServerCrash(s) ==
    /\ ~In(s, "off") /\ startFaults < MaxStartFaults
    /\ GivesUp(s)
    /\ db' = Tears(s)
    /\ startFaults' = startFaults + 1

ServerStep(s) ==
    \/ Start(s) \/ Check(s) \/ Stamp(s) \/ ConnectionLost(s) \/ UpgradeStarts(s)
    \/ Inspect(s) \/ CreateTable(s) \/ CreateIndex(s) \/ WriteVersion(s) \/ Commit(s) \/ Builds(s)
    \/ LrosStopped(s) \/ HooksStopped(s) \/ TasksStopped(s) \/ Exits(s)

StartupNext ==
    \/ DbLeaves \/ DbReturns
    \/ \E s \in Servers : ServerStep(s) \/ Stops(s) \/ ServerCrash(s)
                          \/ LroStarts(s) \/ LroEnds(s) \/ Fires(s) \/ DeliveryEnds(s)

StartupFairness ==
    /\ WF_startupVars(DbReturns)
    /\ \A s \in Servers : WF_startupVars(ServerStep(s))

-----------------------------------------------------------------------------
(* A server that is up finds every table of the newest revision, wherever  *)
(* an earlier start, its own or another server's, broke off; an index is   *)
(* missing only where the creation of its table was torn apart.  A         *)
(* database of an unknown revision is left as it was (init_db).            *)
ServesComplete ==
    /\ \A s \in Servers :
        server[s].pc \in {"build", "serving", "lros", "hooks", "tasks"} =>
            /\ TablesTo(Newest) \subseteq db.tables
            /\ db.found # Foreign
    /\ \A t \in db.tables \ db.indexed :
        t \in db.torn \/ \E s \in Servers : In(s, "index") /\ Head(server[s].todo) = t
    /\ db.found = Foreign => db.version = Foreign /\ db.tables = {Core}

(* What still works when the database is let go has outlived its deadline, *)
(* or is a delivery fired by a task after the deliveries were stopped      *)
(* (lifespan).                                                             *)
ShutdownSettles ==
    \A s \in Servers : In(s, "disposed") =>
        LET work == server[s].work
        IN  /\ work.lro => "lro" \in work.late
            /\ work.periodic => "periodic" \in work.late
            /\ work.delivery => "delivery" \in work.late

(* Whatever of the crashes, outages and races comes first, every server    *)
(* that is deployed comes up, on any database but one of an unknown        *)
(* revision.                                                               *)
ComesUp ==
    \A s \in Servers : []<>(In(s, "serving") \/ s \notin Deployed \/ db.found = Foreign)

=============================================================================
