# A TLA+ verification of Shoreguard

Shoreguard is a control plane for OpenShell gateways: a FastAPI process that
talks to many gateways over gRPC, keeps its own state in a SQL database
(SQLite or PostgreSQL), and runs a dozen periodic tasks in the same asyncio
event loop as the HTTP handlers. Several replicas may share one PostgreSQL
database. These modules model the parts of it whose correctness depends on the
order in which coroutines, gateway calls, commits and crashes happen.

Paths below are relative to `src/shoreguard/` in the repository.

## 1. The system

| part | state | operations | what is hard | what makes it correct |
|---|---|---|---|---|
| **Kill switch** `services/kill_switch.py` | `kill_switch_entries`: one row per sandbox with the providers that were detached | `status`, `engage`, `resume` | dozens of awaited gateway calls between the read of the table and the commit; failed and lost calls; row ids | a provider is attached or recorded, never lost, never both |
| **Rate governor** `services/rate_governor.py` | `rate_pause_entries`; `sandbox_rate_limits` with the window's start and base | `run_once`: evaluate, soft-pause, auto-resume | a pause read before awaited calls is rewritten after them; two replicas pause one sandbox | every pause ends; nothing is lost; no request pays for two pauses |
| **Budgets** `services/budgets.py` | `sandbox_budgets` with `notified_key`; `usage_cursors`; `sandbox_usage`, a counter per day | `poll_once`: meter, evaluate, detach | the marker is committed before the action; the cursor of a log that has a limit | a request is counted once; at most one action per window key |
| **Curfew** `services/curfew.py` | the stored window; `_last_in_window` in memory | `run_once` | status is read, then `resume` reads again; the position is forgotten by a restart | what the curfew engaged ends with its window |
| **Operations** `services/operations.py`, `api/lro.py` | `operations` rows; the asyncio tasks | create, start, progress, complete, fail, cancel, recover, clean up | the row and the task are two pieces of state; recovery, clean-up and cancellation race the task | one task at a time works on a resource; every operation ends |
| **Approvals** `services/approval_workflow.py`, `api/routes/approvals.py`, `one_tap.py` | workflows, votes, proposals, draft chunks | vote, approve, reject, one-tap, bulk, apply | votes are read, cast, listed and cleared in four awaits, then the gateway is called | votes counted together are of distinct actors; none outlives its workflow |
| **Pins and policy apply** `services/policy_pin.py`, `services/policy.py`, `api/routes/policies.py` | pins; the gateway's document | pin, unpin, apply, edits, presets | the pin and the etag are looked at awaits before the write | what was asked before the write held then |
| **Policy merge and diff** `services/policy_merge_ops.py`, `policy_diff.py` | the operations of one apply | diff, merge, replace | the gateway takes operations one by one and may break off | no rule that stays is touched; the end is the document |
| **Webhooks** `services/webhooks.py` | deliveries, tasks in memory | fire, deliver with retries, change, delete, clean up, stop | a webhook is deleted under a delivery; answers are lost | a row tells what became of its delivery |
| **Streams** `api/websocket.py`, `services/bypass.py` | a bounded queue per viewer, the ring of bypass events, a terminal | open, read, send, drop, close | the end marker shares the queue that is full | what was sent is in order and accounted for; sockets end |
| **Task supervisor** `tasks/supervisor.py` | one loop per periodic task | start, tick, back off, stop | a failing task must not stop; the probe must not lie | ticks go on |
| **Startup** `app.py`, `db/__init__.py` | the schema's revision, the services of a server | init, upgrade, build, serve, stop in order | two servers start on one database, statements are torn, the database is away | a server that serves has every table |
| **Connections** `services/gateway.py`, `gateway_inventory.py`, `discovery.py`, `client/_resilience.py` | client cache and backoff, health, snapshots, the registry, retries | get_client, health pass, scan, import, call | an entry is dropped while calls hold it; results arrive out of order | the cached channel is of the present registration; an outage is told once |
| **Sandboxes** `services/sandbox.py`, `sandbox_meta.py`, `boot_hooks.py` | labels and hooks, tied to a name | create, delete, label, hooks | the reply of a create or a delete is lost; hooks are edited during a creation | labels are of the present sandbox; no sandbox is made past a hook that owed it a run |
| **Who may do what** `api/auth/*`, `services/tenant.py`, `api/ratelimit.py` | users, sessions, keys, one-time codes, roles, tenants, limits | sign in, sign out, create, delete, assign, check | reads one after the other while others edit | an administrator stays; what is bad stays out; codes work once; no role is made up |
| **Audit log** `services/audit.py` | `audit_entries`, hash chain | log, verify, clean up | concurrent writers; pruning breaks a chain from its start | the chain verifies |
| **Notices** `services/digest.py`, drift, alerts, updates, `push.py` | markers in the audit log, what a watch remembers, subscriptions | look, fire, mark, send, prune | midnight, crashes, events that are lost, ids used again | once a day; the last word is true; a live device is spared |
| **Denials, providers, local gateways** | a bounded cache and a table; the gateway's providers; containers and port files | submit, prune; edit and audit; create, start, stop, destroy | losses between two stores; jobs that check and then act | see section 3 |

How they interact. The kill switch, the budgets and the curfew write one table,
`kill_switch_entries`; the rate governor writes its own, and reads the other.
All of them attach and detach providers of the same sandboxes through the
gateway, and so do operators (`api/routes/sandboxes.py`). They share no lock:
each is a coroutine that reads rows in one database session, awaits gateway
calls, and writes rows in another session. A coroutine loses control at every
`await`, so every such step is an action of its own in the models, and what the
coroutine remembers between two of them is an explicit part of the state. The
other parts meet through the gateway or not at all: approvals and the policy
writers share the gateway's document, webhooks are fired by everybody, and a
connection serves every call.

The gateway, the database engine and the wall clock are the environment. A
gateway call has three outcomes: it answers; it raises and nothing happened; it
raises although the gateway did it (the reply was lost or late).

`PROJECT.json` lists every component, modelled or not, and the hazards at the
lines where they bite.

## 2. The modules

| module | models |
|---|---|
| `KillSwitch` | `kill_switch.py`, the table's row ids, provider edits by operators |
| `RateGovernor` | `_soft_pause`, `_auto_resume`, `_finish_resume` |
| `Budgets` | `_evaluate_budgets`, `_detach_sandbox` for the action `detach` |
| `Curfew` | `run_once` for one gateway |
| `Enforcement` | the kill switch and the three together, with restarts, fairness and the properties |
| `Operations`, `OperationLock` | `operations.py` and `lro.py`; what the table promises: a lock on each resource |
| `Metering` | `_poll_sandbox`: the gateway's log, the cursor, the counters |
| `Spending` | `_evaluate_budgets`: when a budget fires, and its marker |
| `Ceilings` | `_evaluate` of the rate governor: when a sandbox is paused, and the window |
| `Usage` | the last three together, with the properties |
| `PolicyWrites`, `Approvals` | the requests that write a policy under pins and etags; the votes on them |
| `PolicyDiff` | one apply: the difference, the merge operations, the gateway that takes them |
| `Webhooks`, `Supervisor`, `Streams`, `Startup` | deliveries, the loop of a task, live events and terminals, start and stop |
| `Gateways`, `Monitor`, `Discovery`, `Retries` | the connection cache, health and inventory, ways into the registry, `call_with_retry` |
| `Rotation` | the certificate poll |
| `Sandboxes` | the calls on one sandbox name, labels, hooks |
| `Accounts` | users and invitations; sessions and service principals |
| `SignIn` | device links, passkeys, the keys of an OIDC provider |
| `RateLimit` | the sliding window of a client, the lock of an account |
| `Access` | the role of a user on a gateway; tenants and what a view shows |
| `Audit`, `Notices` | the hash chain; digest, watches and push subscriptions |
| `Denials`, `Providers`, `LocalGateways` | the denial cache and table, edits of a provider, the gateways on the machine |
| `EnforcementProofs`, `OperationsProofs`, `UsageProofs`, `ApprovalsProofs`, `WebhookProofs`, `ConnectionProofs`, `ServerProofs`, `RequestProofs` | the theorems |
| `MC...` | instances and symmetry for TLC |

`RateGovernor`, `Budgets` and `Curfew` extend `KillSwitch`, each with its table or
variable and the actions of its task; `Enforcement` extends all three and joins
their next-state relations. `Spending` extends `Metering`, and `Ceilings` extends
`Spending`, because a budget reads the counters and shares the task of the
metering, and a ceiling reads the counters. `Approvals` extends `PolicyWrites`,
whose document its votes are about. In `Enforcement` it is the
environment's choice which sandbox is over a limit; `Usage` says when it is, and
leaves out what the action does to the providers. The other modules have no
state in common; `MCTasks`, `MCConnections` and `MCServer` put several of them
into one run, where the variable `part` says which of them moves.

Each action is the code between two awaits.

### Enforcement: state

| variable | code |
|---|---|
| `attached` | which provider is attached to which sandbox, at the gateway |
| `want` | history: the links the operators asked for. Enforcement never changes it |
| `ks` | the rows of `kill_switch_entries` of the gateway |
| `lastId` | the sequence behind the rows' ids. `ReusesRowIds` makes it SQLite's `max(id) + 1` |
| `job[p]` | the local variables of coroutine `p`: where it is (`pc`), what is to be listed, detached, re-attached, what it read and what failed |
| `pauses` | the rows of `rate_pause_entries`; `due` says the cooldown has elapsed |
| `notified` | sandboxes whose budget has `notified_key` of the current window |
| `window`, `lastWindow` | the wall clock against the configured window; `_last_in_window` |
| `stranded`, `doubled` | history: the links that a lost reply, a lost race or a crash put in doubt. They make the invariants exact: everything else is in order |
| `starts`, `faults` | bounds: how many actions begin, how many calls fail |

### Enforcement: actions

`engage` is `EngageStart` (status and the list of sandboxes), `EngageList` or
`EngageSkip` per sandbox, `DetachOk`, `DetachRefused` or `DetachLost` per
provider, and `CommitRows`. `resume` is `ResumeRead`, `AttachOk`,
`AttachRefused` or `AttachLost` per provider, and `ResumeCommit`, which does
what the unit of work does: an update that finds no row fails the whole commit
(`Stale`), a delete that finds none does not. The code visits rows and providers
in a fixed order, the models in any order, which allows more. The budgets' and
the governor's actions reuse the detach and attach steps and differ in how they
begin and end.

### Operations

An operation is a row (`status`, `error`, `age`) and an asyncio task (`task`).
`age` is what the clean-up asks of the timestamps: created within `running_ttl`,
updated within it, or silent. `task[o].pc` goes from the request (`insert`,
`refresh`) through the task (`new`, `start`, `work`, `complete`, `fail`) to
`done`, or to `dead` with its process; `hit` says that `cancel()` was called on
it, and `Interrupted` is the `CancelledError` that follows at the next await.
Every service method is two actions, the read (`StartRead`, `CompleteRead`,
`FailRead`, `CancelRead`, `SweepRead`, `BootRead`) and the commit (`...Write`),
because no row is locked and no version compared between them. `call` is a
cancel request, `sweep` what a replica's clean-up or recovery has read, `up` the
state of a replica. A request holds its resource from the insert that the unique
index admits; `WholeIndex` says which index the database has: SQLite's covers
active rows, PostgreSQL's all rows.

### Usage

`log` is the sandbox's log at the gateway, `cursor` and `usage` the two tables,
`poll[p]` the locals of metering task `p`. A poll is `PollStart` (or `PollFirst`
for an unknown sandbox), `PollFetch`, `PollReads` and `PollWrites`; any call may
fail (`PollFails`), and the process may stop (`Restart`). `check[p]` is the
evaluation of the budget that follows: `EvalLoad`, `EvalQuery`, `EvalDecide`,
`EvalMark`, `EvalActs`. A key is `"total"` or the first day of the window.
`rate`, `pause` and `gov` are the row of the ceiling, the row of the pause and
the locals of a governor: `RateRead`, `RateDecide`, `PauseMade`, `ResumeReads`,
`ResumeFinishes`. Operators set and delete budgets and ceilings at any time.
`billed`, `seen`, `cut`, `fired`, `start` and `spent` are history: which lines
were counted on which day, which were fetched, which a full batch left out,
which edits fired for which keys, when the metering began, and what the pauses
cost.

### Approvals and policies

`policy` is the gateway's document, a set of rules; `pin` the row of
`policy_pins`; `req[r]` a request with its `pc`, the document it read (`base`),
the etag it came with (`claim`). A request `Arrives` past the pin check or is
refused, `ReadPolicy` and `WritePolicy` are its gateway calls. Under a workflow
it goes on to `ReadFlow`, `Propose` and `record_decision`'s four awaits (votes
read, vote committed, votes listed, votes cleared); `ballot[r]` is what it knows
of the vote. The workflow is set, changed and deleted, chunks are undone and the
process crashes between any two. `PolicyDiff` keeps the two documents of one
apply, the gateway's `rules`, and the operations that are left (`ops`).

### Deliveries, loops, streams, servers

`Webhooks`: `hook`, `event` and `row` are the tables and the requests that fire,
`sender[d]` the task of a delivery (`post`, `sleep`, `settle`, `over`, or
`abandoned` with its process or by an exception the channel does not catch),
`got` and `lost` count what reached the target. `Supervisor`: `loop` sleeps or
runs, `interval` backs off, `since` is the age of the last success. `Streams`:
`view[v]` is the producer, the queue and the consumer of a viewer; 0 in the
queue is the end marker. `Startup`: `db` is the revision found, the tables, the
indexes and whether statements are torn; `server[s]` runs the steps of `init_db`
and of the lifespan, with what still works when it stops.

### Connections and sandboxes

`Gateways` follows one name. A call finds or makes the cached entry
(`GetClient`), probes its client (`ProbeEnds`, `ProbeFails`), closes a dead one
(`Closed`), reads the row's credentials (`ReadCredentials`) and connects
(`Connects`, `ConnectFails`, `ConnectEnds`), while the name is registered and
unregistered and `get_info` drops the entry. What becomes of a dropped entry
only the calls that hold it see, so a call remembers whether its entry is the
cached one. `Monitor` is one pass at a time: probe, write, alert, snapshot,
diff. `Discovery` has two runs that read the registry and insert by name;
`Retries` the clock of one call. `Sandboxes` tells the sandboxes of a name apart
by a number, which is also what its labels stand for.

### Who may do what, and what the server keeps

`Accounts`: each call (`callers`) reads and commits; `rowLocks` says whether
`FOR UPDATE` locks, as on PostgreSQL. In its second half `people[i]` is the
person who has the row with the id `i` (persons are numbered as they come, so a
number never means another), and `idsReused` says whether a new row gets the id
after the highest, as on SQLite, or the next of a sequence. A session keeps the
id its cookie names and, as history, the person it was made for. A request comes
over HTTP, which reads the user and then the ledger, over a WebSocket, which
reads the user alone (`ReadsLedger`), or with a key; `good`, `struck`, `who` and
`as` are history: whether the person or the key was there and the session struck
out when the request began, whom the cookie was made for and whom the row it
read was of. `SignIn`: `link`,
`stored` (the challenges) and `jwks` (the cached keys), each with the requests
that use them.
`RateLimit`: `bucket`, `failures`; `promise` is when the client was last told to
come back. `Access`: the four reads of a role check (`check`, with the roles
`given` since it began), and the reads of a view (`view`, with what was so
`since` it began). `Audit`: a call takes the chain lock, reads the last hash and
inserts; the clean-up selects and deletes; a verification reads in batches.
`Notices`, `Denials`, `Providers` and `LocalGateways` name their state in their
headers.

### What is simplified

- A commit is atomic. Where a failing database matters to a property it fails
  (`Audit`, `Webhooks`, `Monitor`, `Startup`, `Notices`); elsewhere it does not.
- The budget's marker commit and the existing-row check that follows it are one
  action: no await of the event loop separates decisions of another coroutine
  from it that matter to the properties. The two reads with which `_soft_pause`
  begins, and the curfew's status reads, are merged likewise.
- A second pause of a sandbox is found either by a query or by the unique
  constraint; both end the same way (`PauseRaced`).
- In `Enforcement`, the values of curfew, budgets and ceilings are the
  environment's choice (`WindowTurns`, `BudgetTrip`, `PauseStart`).
- `Operations` leaves out idempotency keys, progress values and the truncation of
  results. The removal of old rows (`Remove`) is enabled only when nobody is in
  the middle of a step on the row: the retention is far longer than a step.
- `Usage` has one sandbox with at most one budget and one ceiling, and one clock
  for Shoreguard and the gateway, which answers lines strictly after `since_ms`
  (`client/sandboxes.py:837`). `limit_usd` is a limit on a monotone function of
  the same count. Row ids of budgets may be those of a deleted budget.
- A rule of `PolicyWrites` is any part of a document that one request can set,
  and the hash of a document is its contents. Webhooks subscribe to every event.
- A tenant's id that SQLite gives again stands for the same tenant. Before there
  is any user requests are not modelled, nor is the identity a proxy vouches for.
- The role that `require_role_ws` takes from the cookie is left out. The reads of one role check may lie between edits of different
  roles, which is what its sessions allow.
- SQLite is used by one server (`docs/operations/homelab.md:36`).
- `Call0`'s name and other initial choices among equal values are arbitrary.

## 3. The runs

`CHECK_DEADLOCK FALSE` is in every configuration because the bounds (`Max...`)
stop the model when they are used up and everybody is done.

### What holds

| run | instance | shows |
|---|---|---|
| `enforcement` | 1 link, 2 operators, governor, budget task, curfew, 3 starts, 1 fault, manual edits | `NoProviderLost`: no interleaving of the five coroutines loses a link |
| `enforcement_end` | 2 sandboxes, 2 governors (replicas), curfew, 2 starts, 2 faults | `HoldsEnd`: every pause goes away, and the curfew's engagement ends with its window |
| `operations` | 1 resource, 2 operations, 1 cancel, 1 stop or crash, SQLite's index | `WorkExclusive`: two tasks work on a resource only if one's operation was closed over its head; `LockSpec`: the table implements `OperationLock`; `OperationsEnd`: no operation stays active for ever |
| `usage` | 2 lines, batches of 1, 4 instants, 2 days, 1 fault, a ceiling of 1 with a window of 2, 1 edit | `BilledOnce`, `MissedOnlyNear`: what is counted, and what may be missed; `PausesPaidFor`: no request pays for two pauses |
| `usage_end` | 2 lines, 3 instants, 2 days, 1 fault, daily and total budgets of 1, 1 edit | `ActsOnce`: one action per edit and key; `MeteringKeepsUp`; `ReachedIsMarked` |
| `approvals` | part "votes": 2 requests of 8 kinds, 3 actors, 2 workflows, 2 events (pins, crashes, undo, changes of the workflow); part "apply": every pair of documents of 2 rules with up to 2 endpoints, or of everything else | `DistinctVotes`; `WriteGuards`: pin and etag held when asked; `MergeTells`: what a merge never does on the way, and what it is in the end |
| `tasks` | a part each: 1 event and 2 webhooks, 3 attempts, 2 troubles; a task of interval 1; 2 viewers with a queue of 1 and 3 events; a terminal; 2 servers on a database of any revision, 2 faults | `TakenOnce`, `RowsTell`, `DeliveriesEnd`; `TaskRunsAgain`; `StreamsTell`; `StartupTells` |
| `connections` | a part each: 2 calls, 3 channels, 2 registrations; 2 boxes and 5 steps; 2 scans over 2 names and 2 domains; a call of 4 attempts; 2 requests on a sandbox name, with faults and labels ("sandbox") or with 2 edits of 2 hooks ("hooks"); the kill switch on 2 sandboxes and 2 providers with SQLite's ids | `CacheServes`, `OutagesTold`, `FoundOnce`, `InBudget`, `SandboxHolds`, `Partition`: between requests a wanted link is attached or recorded, not both, but for the links in doubt |
| `server` | 16 parts, see `MCServer`: 2 or 3 of everything, the digest and the watches apart, the cache of denials and their table apart | `ChainWhole`, `AlarmsTell`, `AdminStays`, `StaysOut`, `UsedOnce`, `KeyFound`, `LimiterKeepsWord`, `RoleWasGiven`, `NoticesTell`, `ScopeHolds`, `ProvidersTell`, `DenialsTell`, `LocalHolds`, `PruneSparesLive` |

Some properties are conjunctions of what belongs together: `CacheServes` is
`NothingStale` and `NothingDead`; `SandboxHolds` that labels fit and that no
sandbox is made ungated, that is, past a pre-create hook that was on since the
creation began, is not marked `continue_on_failure` and has not succeeded;
`WriteGuards` is `PinHolds` and `EtagGuards`;
`OutagesTold` is `AlertsAlternate`, `LossReported` and `ReapsTell`.

What a property leaves out is in its formula and its comment, and `PROJECT.json`
says with each hazard what of it that leaves uncaught. Where the repository
promises what a property leaves out, the code breaks that promise, and the end of
this section says so. In particular:

- `PinHolds` is about the paths that ask for the pin. An undo may write under a
  pin, and a one-tap vote too, then the rule of its link and no other change.
- `SandboxHolds` says nothing of hooks that are marked `continue_on_failure`.
- `StaysOut` lets by a cookie whose id is another person's by now, a struck-out
  session on a WebSocket, and one whose user is deleted between the two reads.
- `DistinctVotes`, `AdminStays` and `LocalHolds` leave out two actors that overlap
  before either has committed, `PruneSparesLive` an id that was given again, and
  `OutagesTold` what a crash took along.

The bounds. A link is lost, if at all, by two or three coroutines that hold the
same link, so one sandbox and one provider give every such interleaving; two
sandboxes are needed for the loops that go sandbox by sandbox (partial release,
a skipped sandbox, two due pauses). Three starts allow a coroutine to begin on
what two others wrote. Two operations of one resource and one cancel give every
overwriting of one status by the writer of another, and one restart every point
at which a task can die. Two lines and batches of one make a batch full, two
instants apart or in the same millisecond; two days put midnight at every step,
and one edit puts a change of the budget or the ceiling at every step. Two votes
make a quorum, and two requests every overlap of a vote with a write. In the
parts, two actors that hold the same row and one step of a third (an edit, a
crash, a loss) are what each hazard needs; three of something are given where
two could hide it behind the first (channels, calls of the audit log, polls,
submissions against a cache of two). Two persons are enough for one to get the
id of the other. The proofs (section 4) show for all
26 invariants that they do not depend on these numbers. `MaxSummaries` bounds the
summaries of one submission (2: a submission that reports one key twice, or two
keys, against a cache of two).

Symmetry. Interchangeable operators, sandboxes, requests, calls and channels are
declared so, but not in runs with liveness properties. `MCServer` keeps, of the
initial states that differ only in the names of tenants, local gateways or
submissions, those in one order (`Named`), since nothing depends on the names.

Fairness. In `Enforcement`: weak fairness of every step of a coroutine that has
begun (the event loop runs what is ready; a gateway call has a deadline, so it
answers or raises), of the periodic tasks (`tasks/definitions.py` runs them
every tick and the supervisor restarts them after an exception) and of the
elapsing of a cooldown. There is none on engaging, on exceeding a limit or on
faults: nobody has to do these. The faults are finite in number, which is the
usual assumption that a gateway is reachable again in the end. In `Operations`:
of the clean-up and recovery of a replica, of the cancel requests, of the
delivery of a cancellation and of time; a task's own work may never return, so
the clean-up alone must end its operation. In `Usage`: of the metering task,
whose calls return or raise. In `Webhooks`: of the requests that fire and of the
delivery tasks (a post has a time-out). In `Supervisor`: of sleeps, starts and
ends of runs. In `Streams`: of the producers, consumers and the pump, which are
tasks of the event loop, and of the end of a call whose other half is closed; no
viewer has to come or go. In `Startup`: of the steps of a server and of the
return of the database; crashes, outages and shutdowns are finite in number, and
a server that was not deployed again need not come up.

### Where the code and its comments or documents differ

Each of these runs checks one sentence and TLC finds it violated. `PROJECT.json`
(`findings`) quotes the sentence.

| run | the sentence | what the code does |
|---|---|---|
| `recover_crash` | resume "can re-attach exactly what was cut" | the rows are written after all detach calls: a crash before the commit, or a detach call whose reply is lost, leaves providers detached that no row lists |
| `op_succeeded` | terminal states allow "no further transitions" | a cancel writes over a `succeeded` that was committed since its read |
| `rotation` | rotates when "the remaining validity is below" the threshold | the poll compares the days that were left when the client connected, which never shrink |

The models contain more of this kind, which no run singles out. Some are the
exceptions of a property above, without which TLC finds it violated; the others
are beside the properties.

- *Enforcement.* On SQLite the late one of two releases deletes the row of a
  newer engage with the same id. The replica that loses the race for a pause row
  forgets what it detached. The governor re-attaches what the kill switch holds
  (`rate_governor.py:370` against `:15`); a release by the curfew deletes the
  rows of others too (`curfew.py:244` against `:8`).
- *Usage.* A budget's marker is committed before its action, which an unavailable
  gateway then skips. An exceeded weekly budget acts every day, since its key is
  the first day of a window that moves. Two replicas that meter one sandbox count
  its lines twice. With the default window and tick, both 60 s, a ceiling never
  trips: a window that has ended is begun anew without being judged
  (`rate_governor.py:243`).
- *Operations.* A starting replica fails the running operations of another. On
  PostgreSQL the unique index covers finished rows
  (`db/models/operations.py:50`), so a finished operation blocks the next.
- *Approvals and policies.* A one-tap approval (`cast_one_tap_vote`,
  `api/routes/one_tap.py:80`) and the undo of a decision (`undo_chunk`,
  `api/routes/approvals.py:512`) write the policy while it is pinned: neither asks
  for the pin. The guide says that under a pin "every write path (policy edits,
  preset apply, network/filesystem CRUD, approvals, approve-all, GitOps apply)
  returns **HTTP 423 Locked**" and that "every entry point respects it"
  (`docs/guides/policy-pinning.md:3-14`), another that a pinned sandbox "blocks all
  approvals" (`docs/guides/approval-workflows.md:102-103`), and the routes that
  "write actions respect policy pins" (`api/routes/approvals.py:14`). These are the
  two exceptions of `PinHolds`. A quorum on a document that is completed from the
  approvals page writes nothing (`api/routes/approvals.py:290` against
  `docs/guides/gitops.md:88`). A document that differs only in `landlock`, in its
  version, or uses the `filesystem_policy` key is answered `up_to_date` and never
  written, in merge mode too (`docs/guides/gitops-merge.md:21-23`). "Every remove
  before any add" (`policy_merge_ops.py:26-28`) holds per rule only: an endpoint
  moved from a changed rule to an earlier one is for a moment in both, the
  exception `MovesBack` of `MergeTells`.
- *Connections.* Unregistering never closes the client (`gateway.py:418`); the
  jitter may exceed `max_backoff` when there is a deadline; a node that recovers
  across a restart of the server is never announced. Adopting a rotated
  certificate calls `asyncio.to_thread` on an async function, so
  `gateway.cert_rotated` is never recorded.
- *Sandboxes.* A pre-create hook that fails ends the creation also if it is marked
  `continue_on_failure`, since `run_pre_create` does not look at the mark
  (`boot_hooks.py:383-386`); "creation continues", says the guide
  (`docs/guides/boot-hooks.md:32-34`), and so does the service's own description
  (`boot_hooks.py:9-11`). A hook whose call raises after a creation writes no `last_status`
  (`boot_hooks.py:645-656`). With
  presets, a sandbox that is not ready in time never runs its post hooks; without,
  they run before it is ready. A create without a name that is retried after a
  lost reply makes a second sandbox; a delete whose reply was lost leaves labels
  and hooks. Two reorders at once can leave an order neither asked for.
- *Access.* A session that was struck out is still accepted on a WebSocket:
  `require_auth_ws` and `require_role_ws` (`api/auth/rbac.py:425-432`, `482-487`) do
  not read the ledger, while "the per-request auth check rejects a cookie whose
  nonce has a row with `revoked_at` set" (`db/models/auth.py:130-132`). On SQLite
  the cookie of a deleted user may become another's: `users.id`
  (`db/models/auth.py:38`) has no `AUTOINCREMENT`, so the newest user's id, once he
  is deleted, is given to the next; `_lookup_user` knows the id alone
  (`api/auth/core.py:595-598`) and the rows of the ledger went with the old user.
  The old cookie "should be rejected" (`tests/test_rbac.py:394-395`). These are two
  exceptions of `StaysOut`. Two deletions of administrators at once leave none (`users.py:316`
  against its "locked read to prevent TOCTOU"): the exception of `AdminStays`. On
  SQLite an invitation can be accepted twice. A group's global role raises what
  an override on a gateway gave (`docs/admin/gateway-roles.md:23-29` against
  `rbac.py`). `lockout_seconds` changes only the `Retry-After` header. Two
  passkey logins at once may lower `sign_count`. A user's last tenant, removed,
  widens his view to the whole fleet; this one is by design (`CHANGELOG`). (Not
  modelled: `require_role_ws` takes the role that the cookie carries, not the
  user's present one, against `docs/concepts/security.md:105`.)
  `add_gateway` and `add_user` answer success when the tenant or the gateway went
  in between (`tenant.py:204-208`).
- *Notices and denials.* A digest that is marked after midnight suppresses that of
  the new day. A drift event is raised for Shoreguard's own edits too.
  `approval.pending` is fired, and the bypass ring fed, once per open viewer. The
  cache of denials is keyed by sandbox name without its gateway; a submission the
  gateway refuses stays in it. Two submissions of one new key at once answer 500
  after the gateway took the second.
- *Providers and local gateways.* An empty `api_key` still injects the variable of
  the type. A local gateway that cannot be reached is destroyed without force; a
  restart whose stop failed answers success (`local_gateway.py:238`).
- *Startup.* An index is lost for good when a SQLite start breaks off between
  `CREATE TABLE` and `CREATE INDEX`. A revision newer than the program is refused
  with a message that calls it older (`db/__init__.py:97`). Webhooks fired by
  periodic tasks after the deliveries were stopped are left behind (`app.py:191`
  comes before `:198`).

## 4. The theorems

All theorems hold for every value of the constants that the named assumptions of
the modules admit; none rests on a bound of the runs. Where several modules share
a run, a theorem is about the specification of its module (`AuditSpec`,
`LinkSpec`, `RoleSpec`, ...): a behaviour of the run is one of that
specification in its `part`, and elsewhere its variables do not move.

| module | theorem | states |
|---|---|---|
| `EnforcementProofs` | `TypeCorrect`, `ProvidersKept`, `SwitchPartitions` | `NoProviderLost`, `Partition` |
| `OperationsProofs` | `TypeCorrect`, `ExclusiveWork`, `LockImplemented` | `WorkExclusive`, the refinement `LockSpec` |
| `UsageProofs` | `TypeCorrect`, `BillsOnce`, `PausesArePaidFor`, `BudgetActsOnce`, `FewAreMissed` | `BilledOnce`, `PausesPaidFor`, `ActsOnce`, `MissedOnlyNear` |
| `ApprovalsProofs` | `TypeCorrect`, `VotesDistinct`, `VotesBelong`, `GuardsHold` | `DistinctVotes`, `VotesHaveWorkflow`, `WriteGuards` |
| `WebhookProofs` | `WebhooksTyped`, `MessagesTakenOnce`, `RowsAreTrue`; `SnapshotsTell`, `EventsAccounted`, `ServersFindTables`, `ShutdownsSettle` | `TakenOnce`, `RowsTell`; the safety parts of `TaskRunsAgain`, `StreamsTell` and `StartupTells` |
| `ConnectionProofs` | `CacheStaysGood`, `ScansFindOnce`, `BudgetsHold`, `OutagesAreTold`, `SandboxesHold` | `CacheServes`, `FoundOnce`, `InBudget`, `OutagesTold`, `SandboxHolds` |
| `ServerProofs` | `AuditTyped`, `ChainIsWhole`, `AlarmsAreTrue`, `OnceOnly`, `KeysAreFound`, `AnAdminStays`, `BadStaysOut`, `RolesAreGiven`, `ScopesHold`, `JobsKeepTheirWord`, `NoticesAreTrue`, `LiveAreSpared` | `ChainWhole`, `AlarmsTell`, `UsedOnce`, `KeyFound`, `AdminStays`, `StaysOut`, `RoleWasGiven`, `ScopeHolds`, `LocalHolds`, `NoticesTell`, `PruneSparesLive` |
| `RequestProofs` | `LimiterKeeps`, `ProvidersAreTold`, `DenialsAreTold`, `MergesAreTold` | `LimiterKeepsWord`, `ProvidersTell`, `DenialsTell`, `MergeTells` |

### Enforcement

`TypeCorrect` assumes that row ids are not reused (`FreshRowIds`, true of
PostgreSQL's sequences); `ProvidersKept` assumes also that at most one governor
runs (`SingleGovernor`; with two, the one that loses the race for the pause row
forgets what it detached, and the link is counted as stranded).

`NoProviderLost` is not inductive: a row or a pause may be rewritten or deleted
by a coroutine that read it many awaits ago, so an invariant has to say what that
coroutine knows. `IInv` is `TypeOK` and `Core`:

- `JobOK`: at each `pc`, which parts of a job are empty and how they are related
  (what was read, what is still to be tried, what failed);
- `IdsOK`: row ids are distinct, none exceeds `lastId`, and a row with an id
  that a running release has read still lists no more than what was read;
- `PausesOK`: one pause per sandbox, and what the governor is re-attaching is
  what the pause lists;
- `Safe(l)` for every wanted link: it is attached, or stranded, or in the hands
  of a cut, or in a row or a pause such that *whoever read that row or pause has
  the link still to try, has it among the failures, or has attached it*
  (`KeptByRow`, `KeptByPause`). The last case is what survives the rewriting.

`SwitchPartitions` is about the kill switch with one request at a time
(`SingleRequest`), whether row ids are reused or not. In `SwitchInv`, a running
engage found the table empty, and what it cut is detached; what a running resume
has read is what the table has, for nobody else writes, and a link of it that is
neither still to try nor among the failures is attached again. No two rows share
a link, and a link that is attached and listed at once is one that the resume has
got to, or is in doubt (`doubled`).

### Operations

An operation that is between its insert and the end of its work is active, or
was closed; and active operations of one resource are one. The second is what
the index gives at an insert, and what a late write that reopens a row
(`CanBeActive`) must be refused for: it is the unique index that makes the table
a lock, since no writer's check does. `IInv` is the conjunction of these with
`TypeOK`; a take in the lock is `InsertOk` or such a reopening, everything else a
release. The theorems hold for both indices.

### Usage

With one metering task (`SinglePoller`) and, for `PausesArePaidFor`, one governor
(`SingleGovernor`). `MeterInv`: what a poll fetched is newer than the cursor, the
cursor is newer than everything billed, and the count a poll read is still in
the table when it writes; so the lines of a commit are disjoint from those of
every day, and the counters are cardinalities. `PaidInv`: what the pauses have
cost is at most the base of the current window, so a pause spends what was
counted since; the reset at a resume (`ResetWindow`) keeps that true. It needs
that sums of counters grow, which follows from the monotony of cardinality since
a sum is defined as the cardinality of a set of units. `ActInv`: the marker of
a rule is as late as every key that fired for the same edit; an evaluation acts
for a later one; and a rule that is edited while its evaluation runs has fired
for none, so the marker that lands on it does no harm to this property. `NearInv`
(for `FewAreMissed`): the cursor is where metering began or one past a line that
was seen, and a line newer than the cursor that a poll past its fetch did not get
was cut by a full batch, or is no older than all the poll got; so a line is
passed over only next to one that was seen.

### Approvals

`TypeInv` is the types of both modules and what the subject of a request is.
`VoteInv` says what no constraint of the table says. A request that is about to
insert its vote knows (`met`) who else was about to when it read; of two such
requests one knows the other (`Pending`). A vote of the same actor on the same
chunk or document that is there by then was cast by one the request knows, or by
one that knew it, unless one of the two workflows did not ask for distinct voters
(`Late`); so two rows are apart in the same sense (`RowsApart`), and so are those
of a tally, which are on one chunk or document (`TalliesApart`, `TalliesOfOne`).
`VotesBelong` is also proved: deleting a workflow deletes the votes, and a vote
cast by a request that still knows the deleted one is not inserted.

`GuardInv` (`Guarded`): a request that asked for the pin was let in before the
last pin was set, and an apply that is past its read has read the document its
etag names; so the write of such a request happens under a pin only if the pin is
newer than the request. What is left are the two that do not ask: an undo, and a
one-tap vote, of which `GuardsHold` shows that it adds the rule of its link and
changes nothing else.

### Webhooks

`DeliveryInv` ties the row, the task and the history together (`Sound`): while a
task is on its way, every answer it got was lost, and when it settles a success
it has got one more (`Counted`); a row that is being delivered has a task and a
row with an outcome a task that is over (`Paired`); a success was answered for
and a failure was not, but for answers that were lost (`Told`). `Fresh`: an event
that is new, or still to be recorded for a hook, has no row for it.

The module also treats the other work in the background.

- `SupervisorInv`: while no run failed, the sleep that is left and the time since
  the last success make up at most one interval; so a task that is reported
  stalled failed, hangs or is dead.
- `StreamInv`: what a viewer was sent comes before what is queued for it, and
  nothing is beyond what was read, so what is read next goes to the end; since
  the queued events differ, taking one leaves one less, and the count adds up.
  The ring is the end of what it was fed, all of it or as much as fits.
- `StartupInv`: tables never go away, so what a server found or created still is
  there; what its next revision needs is there or on the list that it works
  through. A missing index belongs to the table a server is at, or to one torn
  apart. Work that outlives its deadline at a shutdown is known to be late.

### Connections

`RetryInv`: while a call tries, the attempt in progress began within the budget;
a sleep ends within it (`SleepFits`, from what `Max` and `Min` of two numbers
are). `FoundInv`: a row that a scan wrote is named by the first label of its
endpoint, so that two rows of one endpoint cannot both be. `GatewayInv`: as long
as no credentials were read of a missing or a leaving row, a call that is about
to cache its channel holds the credentials of the present row, and while the name
is leaving or gone there is neither such a call nor a cached client; and what a
call holds of a dropped entry is not the cached client, since a channel is cached
only when nobody refers to it, so that whoever closes the cached client holds
the cached entry and is about to take it out.

`MonitorInv`: what left the snapshot of an unreachable gateway is gone; and as
long as no step of the monitor failed, the last alert is the status of the row
or the one being announced, and the sandboxes whose loss is still to be told are
in the snapshot the next comparison uses, and not alive. It needs that the
marker for "no snapshot" is no set of sandboxes (`SnapAssumption`).

The two halves of `SandboxHolds` have an invariant each. `LabelInv`: as long as
nothing is excused, the labels are those of the present sandbox, or a call is
between the gateway's step and the one for the labels. `GateInv`: a hook that has
been on and without `continue_on_failure` since a creation began is still to be listed, is on its list, or has run.
An edit strikes out what it turns off or marks, a reordering and a run by hand change
neither the phase nor the switch, and a list has every hook that takes part,
being as long as they are many (`HooksAssumption`: the ids are finitely many).

### The server

- `ChainInv`: one call at a time is between its read and its insert (the lock),
  and the hash it read is that of the row with the greatest id (`Greatest`, by
  well-founded induction from the library); so the rows form a chain. `AlarmInv`:
  the last row a verification read is still there, with the hash it remembers,
  unless rows were removed.
- `LinkInv`: a code was handed over once if its link is consumed and never if it
  is not, and what is consumed was approved and what was approved was claimed.
  `PasskeyInv`: a challenge that is stored is unused and with no request, and any
  other is with at most one. `KeyInv`: a key that stayed published since its
  sign-in began (`steady`) is published, is among the keys that were fetched, and
  the sign-in is not refused.
- `AccountInv`: a deletion that has counted the administrators leaves another
  one, unless another deletion that has counted removes that one; with row locks
  the second cannot count. `SessionInv`: what was bad when a request began stays
  bad, for a session that was struck out is never struck in again, a person whose
  row is gone never gets one again (`Lost`), and keys are not given twice. Where
  ids are not reused the row of an id is of one person only (`OwnIds`), so what a
  request reads is of the person its cookie was made for, or nothing; where they
  are, it may be another's (`TakenForAnother`), the only exception for a cookie.
- `RoleInv`: what a check has come to is in the roles given since it began.
  `TenantInv`: at each step of a view, what it has read is borne out by the
  history (`Borne`): it was the user's at some time since the view began, and
  what was the user's at all times is in it.
- `LocalInv`: what a job found (a free port, an empty gateway) still is so, or
  the history says what came between (`JobFits`).
- `DigestInv`: a day that is not over and not marked was fired no more often
  than its marker was lost. `WatchInv`: what a watch told is what it remembers.
  `PushInv`: the rows of a send that are still there under their id are the same,
  or the id was given again.

### Requests

The four algorithms over sequences: a bucket that is filtered, an environment
that is built line by line, a cache that is filled one summary after the other,
and a list of operations that is computed from two documents and then taken one
by one. What folds along a sequence is written as a recursive function on its
prefixes. Induction theorems with an operator parameter cannot be used here, so
what such a function does is proved from the least counterexample: the set of
lengths at which the claim fails has a least element (`Least`, from the
well-foundedness of `Nat` in the library), which is neither the first nor the
successor of a length at which it holds. That the functions exist at all is shown
in the same way (`Fillings`).

- `LimitInv`: the bucket is the end of the history of the attempts that were let
  in, and all before it are older than the window (`EndsAt`). What is popped off
  the front or forgotten is so for good, since the clock does not go back; so an
  attempt that is let in with fewer than the limit in the bucket is more than a
  window after the one that many before it. The clock is the naturals.
- `ProviderInv`: a request that is still to call has changed nothing, one that is
  still to be audited has, and one the log tells of was answered. `EnvIsWhole`:
  the lines of a group are those of its variables that have none yet, each once,
  in whatever order they are visited (`LinesAre`); so of two sources the earlier
  one gives the line. The variables are finitely many (`CredKeyAssumption`).
- `DenialInv`: against the history of all summaries since the start, the cache
  holds the last summaries of its keys in the order of their places there, and
  the last summary of every other key is before all of them, and then the cache
  is full (`Fits`). `Put1Fits` is that of one summary, whether its key is new,
  known or evicts another, and `PutAllFits` that of a submission. That this is
  what the property says with cardinalities follows by injections of the keys
  reported later into the cache and back (`FewNewer`, `ManyNewer`). For the
  table, what is persisted the gateway took before (`TakenFirst`).
- `DiffInv`: of the operations of the merge the first `d` were taken, a rule is
  there if one of them added it, or if the document had it and none removed it
  (`RuleIs`), and the rest are to come (`RestOf`). `MergeOpsAre` gives the list:
  each operation is of a rule to add, remove or change, of a changed rule the
  removal comes right before the addition, the removals come first and the
  additions last. So two rules that share an endpoint on the way, not both of
  them changed, have the places they have in one of the two documents
  (`OldAndNew`). The rules of a document are finitely many
  (`DocumentsAssumption`), so they have an order (`Enumerated`).

### What stays with TLC

- Liveness (`HoldsEnd`, `OperationsEnd`, `MeteringKeepsUp`, `ReachedIsMarked`,
  `DeliveriesEnd`, and the liveness in `TaskRunsAgain`, `StreamsTell` and
  `StartupTells`): TLAPS does not treat fairness here. The safety parts of the
  last three are proved (`SnapshotTells`, `Accounted`, `ServesComplete` and
  `ShutdownSettles`); the formulas themselves are not.
- The violations, which are about existence.

## 5. Plan

1. Enforcement, operations, usage (done, proved).
2. Approvals, deliveries, connections, access, notices, startup (done, proved).
3. Requests: limits, providers, denials, the merge (done, proved).

Every invariant that a run checks, `LockSpec` and `PruneSparesLive` are theorems;
what is left is what the last part of section 4 leaves to TLC.

## 6. Not modelled

The gRPC client and its message conversion, the HTTP layer, the exports and
backups, the command line, the frontend and the read-only views keep no state
whose interleaving matters, or are input and output; so are settings and the
wiring of services. The policy prover hands formulas to an external solver; the
policy simulator reads. `PROJECT.json` gives the reason for each.
