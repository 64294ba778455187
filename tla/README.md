# Meshonator in TLA+

Meshonator is a web fleet manager for Meshtastic radios: a FastAPI process, an
optional set of external worker processes, a relational database they share,
and TCP sessions to the radios. This directory holds TLA+ models of its core,
TLC configurations that check them on small instances, and proofs checked by
TLAPS. Paths below are relative to `src/meshonator/` of the repository.

## 1. Inventory of the system

| component | state it keeps | operations | interacts with | what makes it correct |
|---|---|---|---|---|
| Job store, `jobs/service.py` | tables `jobs`, `job_results`, `worker_heartbeats` | create, start, finish, add_result, claim, recovery, heartbeat | everything that executes jobs | a job is run once, ends once, and its result rows agree with its status |
| Worker loop, `jobs/worker.py` | last claimed job, processed count | claim, heartbeat, run | job store, runners | pending jobs are claimed; heartbeats tell the truth |
| Executor and runners, `jobs/queue.py` | in-memory queue of a pool of four threads | enqueue, seven runners | job store, services below | what was started ends, also when the error path fails |
| Web process, `api/app.py` | scheduler, request handlers | startup recovery, job-creating requests, POST /api/sync | all | a restart fails the orphans and nothing else |
| Inventory, `inventory/service.py` | tables `managed_nodes`, `node_endpoints`, reachability in `provider_endpoints` | upsert with placeholder upgrade, reachability refresh, freshness mark | sync, discovery, operations | a station is listed once, with its own endpoints; offline means it was pinged and failed |
| Discovery, `discovery/service.py` | rows of `provider_endpoints` | scan | provider probe, refresh | what is found is not lost |
| Sync, `sync/service.py` | config snapshots | sync_endpoint, sync_all, sync_node | provider, inventory | concurrent synchronisations do not mix stations up |
| Scheduler, `api/app.py` | two cron jobs | probe, quick sync | inventory, sync | status converges to what hosts answer |
| Operations, `operations/service.py` | node attributes, `raw_metadata`, configs, desired state | apply_patch, mutate_node_db, snapshots, diff | provider, inventory, audit | the inventory says what the radio was told |
| Groups, `groups/service.py` | groups, members | assign, unassign, resolve, filters | inventory, multi-node runners | a job acts on the members its request named |
| Meshtastic provider, `providers/meshtastic/provider.py` | a TCP session; the process-wide default socket timeout | connect with retry, fetch, write, NodeDB changes | radios | timeouts are restored; writes have an order |
| Patch merging and target selection, `jobs/queue.py`, `operations/service.py`, `api/app.py` | none (pure) | deep merges, channel merges, zero-hop and favourite targets | runners, UI | merges are idempotent, lose nothing that was not overridden |
| Forms, comparison, settings defaults, structured editor, visibility page, `api/app.py` | saved defaults | forms into patches, alignment, comparison | patches, NodeDB jobs | what was reviewed is what is queued; the comparison after an alignment is empty |
| Audit, auth, map, CLI, MeshCore skeleton, rendering | rows, cookies, none | - | - | not modelled, see section 8 |

Hard behaviours: several processes (web, workers) and threads on one database
whose transactions read rows and write them later; processes killed at any
point and started again; a queue held in memory beside a table that survives;
runners whose error paths themselves need the database; a reachability probe
whose reads and writes are minutes apart; radios that answer late, not at all,
or without saying who they are; radios whose configuration is written section by
section, from what some session saw of it. `PROJECT.json` lists the hazards, each at its
line, with the properties that watch it.

## 2. Plan

All six parts of the plan are done. Everything the program does runs inside a
job, so jobs came first.

1. **Jobs**: `JobsService`, `JobExecution`, the abstract `JobLifecycle`.
2. **Inventory, reachability, discovery, sync**: `Inventory`, `InventorySync`.
3. **Operations and provider sessions**: `NodeOperations`.
4. **Groups** and the group job: `Groups`.
5. **NodeDB jobs**, target selection and the visibility page:
   `RoutingFavorites`.
6. **Patches**: forms, merges, clones, alignment, comparison and the multi-node
   patch job: `FleetConfig`.

Each part has its theorems (section 6); what TLC checks and no theorem states
is liveness (section 7).

## 3. Modules

| module | models |
|---|---|
| `JobsService` | the tables jobs and job_results and the operations of `JobsService` on them |
| `JobExecution` | workers, executor threads, request handlers, web process; composes `JobsService` |
| `JobLifecycle` | abstract: what a reader of the Jobs page may rely on |
| `JobExecutionProps` | the properties of the above and the refinement mapping |
| `MCJobExecution` | symmetry for TLC |
| `JobExecution_proofs` | TLAPS: types, exclusion, at most one run |
| `JobLifecycle_proofs` | TLAPS: the refinement of `JobLifecycle`; statuses, result rows, runners and heartbeats agree |
| `Inventory` | the three inventory tables; lookup, insert, update, judging of endpoints and nodes |
| `InventorySync` | the refresh, synchronisations and scans as transactions; composes `Inventory` |
| `InventoryProps` | the properties |
| `MCInventory` | which station is at which address |
| `InventorySync_proofs` | TLAPS: types, identity, links, listing once, patience of the refresh |
| `NodeOperations` | patch sessions, synchronisations and the freshness mark between radios and rows; connects with retries and the socket timeout |
| `NodeOperationsProps`, `MCNodeOperations` | the properties; requests and processes for TLC |
| `NodeOperations_proofs` | TLAPS: types, the timeout, what patches write, that rows and radios agree |
| `Lists` | two loops over lists that parts 4 to 6 share: filter, and drop what came before |
| `Lists_proofs` | TLAPS: what these loops compute, for lists of any length |
| `Groups` | groups and members under concurrent requests, and the group job |
| `GroupsProps`, `MCGroups` | the properties; selections for TLC |
| `Groups_proofs` | TLAPS: types, complete requests, whom the group job patches |
| `RoutingFavorites` | the NodeDB of each radio, its copy, the NodeDB jobs and requests, the visibility page |
| `RoutingFavoritesProps`, `MCRoutingFavorites` | the properties; an order of the nodes and NodeDBs to begin with |
| `RoutingFavorites_proofs` | TLAPS: types, only targets change, success means reached, what a refresh ends in, what the visibility page counts |
| `FleetConfig` | the configuration of each radio and its copy; forms, patches, merges, clones, alignment and comparison; the multi-node patch job |
| `FleetConfigProps`, `MCFleetConfig` | the properties; two radios, forms and patches |
| `FleetConfig_proofs` | TLAPS: types, private keys, what reaches radios and copies, alignment |

Definitions named `..._mutant` are used by no specification: each is a
plausible bug in the definition that follows it, kept to show that a property
would notice it.

### Jobs: correspondence with the code

A job is a number, its rank in `created_at`. As `created_at` is the begin of
the creating transaction, rows may appear out of that order; a claim orders by
it (`service.py:106`). A job's payload is abstracted to its kind: `scan`
(runners without rollback in the except clause: discovery and sync),
`mutation` (the five that roll back), `inline` (POST /api/sync runs in the
handler). Result rows are abstracted to the set of statuses among them.

Each step ends with a commit of the code. Two operations read and write in
different steps: the claim (`Poll` is the SELECT of the oldest pending rows,
`ClaimWon`, `ClaimLost`, `ClaimNone` its UPDATEs with the rowcount they see)
and the startup recovery (`WebStart` the SELECT, `WebRecover` the commit).
`start` and `finish` load the row and overwrite its status without looking at
it; they are one step each.

The worker loop keeps its four heartbeats in order (`Boot`, `Beat`, `DoneBeat`,
`IdleBeat`). The heartbeat after the claim passes the id claimed before
(`worker.py:40`). A worker identity is one process incarnation: a worker that
dies never returns under the same name. A failed heartbeat or claim ends the
worker loop and is `WorkerCrash`.

A body is `StartJob`, at most `MaxItems` `Item` steps, `FinishJob`, `AuditJob`;
`Raise` leads to the except clause `FailRow`, `FailFinish`. The audit row is
written after finish inside the same try. An exception the except clause does
not survive is `Unhandled`. `poisoned` is SQLAlchemy's session after a failed
flush without rollback: its next statement raises.

`WebCrash` loses threads, handlers and queue and keeps the tables. A graceful
stop is a `WebCrash` in a state where nothing runs. `runs` is a history
variable.

### Inventory: correspondence with the code

A station has an owner id; a session that did not receive all of its
configuration presents an alias (node number or short name) or nothing, stored
as `local-unknown` (`provider.py:391`). `Presents` says which of these happen;
`InventoryIdentity` lets all of them. `At` gives the station at each address and is constant: addresses are not
reassigned. A session reports one node, its own.

`Lookup` is the order of the SELECTs of `upsert_nodes`: by id, then
`local-unknown` of this endpoint, then any `local-%` of it. A synchronisation
looks up (`Fetch`), then writes (`Insert` or `Update`), and other transactions
commit in between; the unique constraint rejects an id in use (`SyncFail`).
`sync_node` has read the node before its radio session, which may take minutes;
the identity map keeps that reading (`loaded`). SQLAlchemy writes a column only
if it differs from the value read: `was`, `Judged` and the cases of `Save`
model this, since a stale reading then turns into a missing write.

The refresh reads all endpoint rows, pings each in turn, reads the node
endpoints, later the nodes, and commits once at the end. Its session is created
with autoflush, so each SELECT first flushes the rows changed before it, and a
flushed row is locked until the commit: `held`, `touched`. A synchronisation
that wants a row the refresh holds while the refresh wants a node row it holds
is a deadlock the database ends by aborting one (`Collide`, `RefreshFail`,
`SyncFail`). The semantics are PostgreSQL's READ COMMITTED; SQLite, the
development default, serialises writers and has fewer interleavings. There is
one refresh: APScheduler's `max_instances` is 1.

The failure counter saturates at the threshold. The code only compares it with
the threshold, so this loses nothing. A ping answers (`answers`) independently
of whether a TCP session succeeds, as hosts may drop either.

A scan probes the `Targets` of its request, a set of addresses, and stores those
found open in one commit: the rows it finds become reachable, their counter
stays as it was (`discovery/service.py:63`). `Scheduled` says whether the
refresh runs at all and `HostsChange` whether hosts come and go: a run about
identities needs neither.

Three variables are history. `missed` counts the failed pings of an endpoint in
a row; a refresh that was aborted counts nothing, and a scan does not start the
count again. `nameless` are the stations stored in a row as `local-unknown`, and
`partial` the stations ever stored under less than their owner id. A row keeps
the endpoints of all its `nameless` stations whoever is the first to identify
itself, so `LinksTruthful` names this case, and no other, as the one where a row
has an endpoint of a station it does not stand for.

### Operations: correspondence with the code

A node is its row in `managed_nodes` and its radio; both are a value per
attribute. Values say where they come from: `old`, the patcher that set it, or
what a section that never arrived reads as (`default`). Two fields of one
section and one of another stand for `localConfig`, `moduleConfig` and
channels, since what matters is whether two settings travel in one message.

A patcher is a thread that runs one request over some nodes: a job of
`jobs/queue.py`, or `POST /api/batch/patch` (`Batches`), whose loop catches a
failed commit without a rollback (`app.py:4105`), so that its session may stay
unusable (`poisoned`). `Pick` is `apply_patch` up to the connect, with the row
as the ORM loads it (`seen`); `Open`, `Opened`, `Refused`, `GaveUp` are
`connect` with its retries and the process-wide default timeout it sets and
restores (`provider.py:317`); `Write` is one message, in the order of
`provider.py:214-247`; `Commit` records in the row what was asked for;
`Audit` follows it. `Told` says what a message makes the radio take: a section
is written whole, from what the session read when it connected (`view`). A
configuration that did not arrive in full is logged and used
(`provider.py:113`), which is `Opened` with missing sections. A syncer runs
`sync_all` (load after connect) or `sync_node` (load before it), and after
`sync_all` the freshness mark, which writes back the `raw_metadata` it read
(`inventory/service.py:122`). `sync_all` goes over the nodes it found reachable
when it began (`sync/service.py:58`), any set of them; `row` has no such column,
as it changes with pings (`InventorySync`). SQLAlchemy writes a column only if it differs from
what it loaded; `raw_metadata` is a new dictionary each time and always written.

Nothing keeps two sessions off one node. `tainted` and `doubtful` are history:
they mark sessions that overlapped another, or saw a part only, and the nodes
they left. `crossed` are the connects under way that overlapped another one of
their process, `unscoped` the processes in which that ever happened: each connect
restores the default timeout it found, so of two that overlap, the first to end
takes the limit away from the other, and the second may leave it behind.
A role-only patch connects and sends nothing (the role is no
attribute in `Sent`), and a position without an altitude sets the radio's
altitude to zero (`zero`).

### Groups: correspondence with the code

Each request is a handler with a transaction: `ReadMembers` is the SELECT of
`assign_node` or `assign_nodes`, `Insert` one row of the flush, `InsertTaken`
the unique constraint, `Commit` the commit. An insert of a key that another
transaction has inserted and not committed waits (`WaitsFor`), and a cycle of
waits costs one of them its transaction (`DeadlockVictim`). An import finds or
creates the group in a transaction of its own, so that a failure after it leaves
an empty group. Requests answer only after their audit row. The group job reads
the group, then the assigned members, then the dynamic ones, then goes through
them (`groups/service.py:136`); `matches` is which filters a node satisfies; it
changes with synchronisations, and is kept only while a job will still read it. Templates and descriptions are values no
property tells apart and are left out; two `update_group` that overlap are last
writer wins, as the code has it.

### NodeDB jobs: correspondence with the code

A NodeDB is three sets: the nodes a radio has seen, those it hears within the
hops asked for, its favourites. `copy` is `nodesInMesh` in `raw_metadata`.
Requests compute targets from copies, not from radios; jobs send one admin
message per target and destination over one session (`Mutate`), count a failed
one and go on (`operations/service.py:214`). A bulk job leaves out the
destination itself; the page of one node does not. The jobs of a favourite
refresh end with a `sync_all` over the radios that are reachable then
(`StartSync` takes any set of them), if any destination succeeded. It reads a radio
and stores the copy in two steps (`SyncRead`, `SyncWrite`), as the scheduler's does
(`Fetch`, `Store`); what lies between is a radio session. In the history variable
`refresh`, `synced` are the radios the last such `sync_all` took and `late` those
whose copy was last stored with a reading the radio had changed since. The visibility page
is two loops, as in the code: one over the radios and what each hears (`Rows`), one
over these rows, which keeps each pair for the side that comes first (`Pairs`).
Node ids in other spellings than the canonical one are not distinguished.

### Patches: correspondence with the code

A configuration is `local`, `module` and `channels`, of which the model keeps
one or two fields of the sections whose treatment differs: the role (cloned only
on request), the security section (never), `ambientLighting` (camel case: the
radio's attribute is named otherwise, so a patch of it is skipped by
`provider.py:475` and merged into the copy only), telemetry, and two channels.
Values are small numbers; zero is the default of every field. A radio reports
its configuration without fields that have their default value and without the
index of channel 0 (`Report`), which is why the copy of a channel list is a
sequence whose rows may lack an index, and why merges and the comparison fall
back to positions (`Given` are the indices that are there, `Places` those with
positions in place of the missing ones, `ByIndex` the dictionary the code builds).

`FormPatch` and `BaselinePatch` turn a form into a patch (the latter, of the
batch page, drops a zero); `Merge` and the two channel merges are the three
merges the code has, the latter two with `Override` for what the list says of one
channel; `Sent` is the patch without the sections that are passed over, `Written`
and `Patched` what then becomes of a radio and of a copy; `BatchConfigure`, `CompareSync`, `NodeConfigure`,
`StructuredConfigure`, `SaveDefaults`, `ApplyDefaults` are the request handlers;
`StartJob`, `PatchNode`, `PatchFails`, `EndJob` the job. A clone is computed
when the job runs, from the copy of the source at that time; the alignment patch
when the request comes. A synchronisation reads a radio (`Fetch`) and stores the
copy when its session is over (`Store`, or `SyncFails`), with jobs and requests in
between. The structured editor is two requests: `OpenPage` keeps the copy the page
was rendered from, `StructuredConfigure` submits every field of it (`EditorPatch`)
with what was typed over it; a number field that is empty fails the form
(`Complete`, `NoNumbers`; `app.py:1475`). The page of one node takes a JSON list of
channels as it is, and folds rows that name a channel twice only where a second list
is given (`NodePatch`). A patch is, in this module, one step that writes radio
and copy: what can happen inside it is `NodeOperations`. `asked` of a job,
`current`, `aligned` and `late` are history: `late` are the nodes whose copy was
last stored with a reading their radio had changed since; the first two are settings without any
nesting, path by path (`Flat`), so that what the chains of merges do is compared
with something that is no merge of trees.

## 4. Runs

| run | instance | shows |
|---|---|---|
| `JobsExternal` | external mode, 2 jobs, a polling and a one-shot worker, claim looks at 1 row, failing database | types, `EvidenceAgrees`, `HeartbeatTruthful`, `ExclusiveRun`, the refinement of `JobLifecycle`, `PendingIsClaimed`, `RunningEndsOrWorkerDied` |
| `JobsLocalLive` | 2 threads, 2 handlers, 3 web starts, healthy database, all kinds | `RunningIsRun`, `RunningEnds` |
| `JobsLocalFaults` | the same, failing database | `ExclusiveRun`, `AtMostOnce`, refinement |
| `JobsRecoveryRace` | external mode, 1 worker, web restart | finding: recovery fails a job that a worker is running |
| `InventoryIdentity` | 2 stations that present owner id, alias or nothing, 2 concurrent syncs, a scan, legacy rows, failing database | `LinksTruthful`, `NodesLinked`, `ListedOnce` |
| `InventoryConverge` | 1 station at 2 addresses, threshold 2, hosts that change, the refresh, 1 sync, scans of one address | types, `OfflineAfterFailures`, `Converges` |
| `Operations` | 2 nodes, a batch patcher and a syncer in one process, 1 retry; commits, writes, connects fail, the process dies | types, `AloneAgrees`, `TimeoutScoped`, `SuccessIsWritten` |
| `OperationsCatchUp` | 1 node, 2 processes, 3 fields in 2 sections, mixed requests with a dry run, configurations that arrive in part | `OnlyAsked`, `CatchesUp` |
| `OperationsDryRun` | 1 node, dry runs | finding: a dry run writes the inventory |
| `Groups` | 2 nodes, 1 group, 2 handlers and the group job, 2 of them at a time, a list with a double, failing database | types, `DoneAsAsked`, `OncePerNode`, `JobPatchesMembers`, `EverythingEnds` |
| `RoutingFavorites` | 2 radios and a peer, 2 workers, the scheduler; everything may fail | types, `SuccessIsReached`, `RefreshSettles`, `RefreshShows`, `VisibilityAgrees`, `OnlyTargets`, `JobsEnd` |
| `FleetConfig` | 2 radios, 2 requests of any kind, 1 open page, 1 synchronisation at a time, 2 other events | types, `KeysStayPut`, `AlignedMatch`, `AsReviewed` |

**Bounds.** Two jobs are enough for one job to hide or displace another (order
of claims, a claim of one row, queue of two) and two runners of each sort for
any pair to compete; the properties relate at most two jobs and two runners.
One item per body distinguishes success, partial failure and progress. Three
web starts allow a recovery during the execution of jobs that survived an
earlier one. In the inventory two addresses are the least with a judged and a
not yet judged endpoint; two stations the least that can be confused; two slots
are enough for one station listed twice and for a row that collects both (each
property of these runs relates at most two rows; the mutants confirm that each can
fail at these bounds). Threshold 2 is the least at which "as many as configured"
differs from "one"; there a single row is enough, as the refresh is about
endpoints, and one of the two addresses is never scanned, so that a row that is
there from the start and one that a scan inserts while the refresh pings are both
there. In the sessions one patcher and one syncer already overlap in every way two sessions can (the
properties are about a session and whoever is on its node), two nodes let a
batch fail on one and go on to the other, and one retry separates first, further
and last connects. `OperationsCatchUp` has no deaths, as a request that is lost
with its process needs none to be made up for by a synchronisation. In `Groups`
two nodes are the least that can be locked in opposite orders; `AtOnce` = 2 lets
any two of the two handlers and the job overlap, and a third would only add
another of the same sort. In `RoutingFavorites` two radios hear each other and a
third node; two workers let the two jobs of a refresh overlap. In `FleetConfig`
two requests allow an alignment after a form, or saved defaults and their
application; `MaxEvents` = 2 allows a synchronisation that reads before and
stores after a job, together with a page opened earlier or a change on a radio.

**Deadlock.** Job runs disable it: jobs run out and processes may be dead or
finished, so the system does stop; the operations runs, because each patcher
serves one request; `RoutingFavorites` and `FleetConfig`, because the requests and
events of a run are bounded. The inventory and `Groups` never stop and are checked
for deadlock.

**Symmetry** is used only in runs without liveness properties. In the job runs
the permuted sets are workers, threads and handlers with `OnceWorkers` empty;
in `Operations` the nodes, in `InventoryIdentity` the synchronisations. Addresses and slots, and whatever a SELECT puts in
order, are never permuted.

**Fairness.** A live process goes on: weak fairness of each worker's, thread's
and handler's steps, of the start of the web process when it is down and of the
recovery. Requests, crashes and database failures get none; `Progress` excludes
them, save for a poisoned session, whose failure is certain. The refresh and
the synchronisations go on because pings and radio sessions have timeouts.
Strong fairness of `RefreshCommit` says that the refresh is not aborted every
time: a collision needs a synchronisation in the instant of the commit, minutes
apart, and under weak fairness alone a scheduler that hits that instant each
time would be a behaviour. `Converges` is conditional on hosts that eventually
stop changing and scans that stop. The group job goes on weakly; each request strongly, since an insert
that waits for another transaction is woken whenever that one ends, though the
next may take the key again. Sessions
go on weakly, as sockets have timeouts; `CatchesUp` further assumes that
`sync_all` is started again and again by the scheduler with the node among those
that are reachable, and that a radio tried again and again at times answers in full and has its row saved before somebody
patches it: no property of the code could replace this, as nothing keeps a
patch from coming between the two each time.

## 5. What the runs found

Two places where the program disagrees with its own comments or pages, each with
a counterexample (`findings` in `PROJECT.json`): the recovery that fails running
jobs of external workers as orphans, and the dry run that writes configuration
and altitude into the inventory.

Met while modelling, and visible in the definitions, but not promised otherwise
by anything in the repository: pending jobs are lost with the queue of the local
executor; two stations that do not identify themselves share one placeholder
row, which keeps the endpoints of both when one of them identifies itself; a station
that once presented an alias may be listed twice; a scan leaves the failure counter
standing, so that one more failed ping turns the endpoint offline again; a refresh turns a node offline
whose endpoint it has not pinged; two threads of one process that connect at the
same time restore each other's socket timeout: one may then wait without a limit,
and the limit may stay behind as the default of the process (`TimeoutScoped` bounds
this); an external worker can claim the job of POST /api/sync between its creation
and its start; a copy that was read before a job and stored after it hides what the
job did, until the next synchronisation; a patch of the role is never sent; a position without an altitude
sets the radio's altitude to zero, and an altitude without a position is reported
as done and not sent; a camel-case module section is only ever merged into the
copy; the primary channel is never cloned; since radios omit fields at their
default, a field that is at its default on the source is never aligned, and the
comparison does not show a switch that is on at one side and off at the other;
the batch form cannot set a field to zero; the structured editor submits every
field of its page and so undoes what changed since the page was rendered, and one
empty number field fails the whole form; of a JSON list that names a channel
twice, a merge takes the last entry as a whole where the list is its base and
each entry field by field where it is laid over another; a list that names a node twice fails an
assignment; an import that fails after creating its group leaves the group empty.

## 6. What is proved

For every value of the constants, by `tlapm`:

*`JobExecution_proofs`*. `TypeCorrect`. Under `SingleExecutor` (no external
worker, or external mode without POST /api/sync): `Exclusive` (no two runners
hold a job) and `RunOnce` (a body starts at most once). `ExclusiveRun` is not
inductive: it says nothing of a job that nobody holds yet. `ExclInv` adds where
a job can be: in one runner's hands, in the queue once, or pending for a worker
to claim, and that these exclude one another; that whoever is about to start a
body holds a job never run; and that pending jobs were never run, which is why
a claim is safe. Steps fall into quiet ones, which take no job up, and four that
do (a claim, a thread's take, a submission, an enqueue), each with its lemma.
`SingleExecutor` is needed: with both, an external worker can claim the job
that POST /api/sync has committed and not yet started.

*`InventorySync_proofs`*. `TypeCorrect`, strengthened by "who is about to commit
has made a plan".
`Identity`: `LinksTruthful`, whatever sessions present. The invariant says which
stations a row has (`StationsOf`: the one of its identity, or all that were stored in
it without any), that its endpoints belong to them, and that each plan, however long
ago it was made, concerns rows that have its station.
`Linked`: `NodesLinked`, which is inductive with the types.
`Once`: `ListedOnce`, which speaks of stations with one address that were never
stored under less than their owner id, beside any others. If such a station has a
row at all, its lookup finds it, by id or as a
placeholder by endpoint (here `NodesLinked` is used); so an insert was planned
when the station had no row, and since then at most its owner row may have come
to be, which the unique constraint detects.
`Patience`: `OfflineAfterFailures`, with any number of scans. `CountInv` says that
the counter of each endpoint equals the history `missed`, also in the rows the
refresh has read, however long ago; scans change the status of these rows and
insert others, which nobody has pinged.

*`JobLifecycle_proofs`*. Where one executor serves the jobs (`SingleExecutor`)
and no recovery meets a live worker (`NoRecoveryRace`: no external workers, or
one start of the web process; otherwise the finding of section 5 applies):
`Refinement`, that `JobExecution` goes through the steps of `JobLifecycle`.
`LifeInv` adds to `ExclInv` what status and rows a job has, depending on how far
its holder is. Each action maps to one abstract step or a stutter; for a worker's
begin and end this needs that nobody else can have changed the status.
`RecoveryTruthful` has no assumption: in every deployment, each job a recovery fails
is nobody's, or in the hands of an external worker that held it already when the
recovery looked (`HitsOnlySurvivors`); without external workers all are orphans
(`RecoversOnlyOrphans`). `RecoveryInv` says that the rows a recovery has read are
begun, so that nobody can take them up any more, and that threads and handlers of
the web process do not run before it is up. `RunningRun`: `RunningIsRun` without external workers.
`Evidence`: `EvidenceAgrees`; its half about failed jobs (`FailureShown`) needs
no assumption about the deployment, the half about successful ones does, and is
only claimed where the database does not fail. `Heartbeats`: `HeartbeatTruthful`
for `SingleExecutor`, however often workers die and recoveries run. No job is
counted twice because whatever was counted is `Spent`: ended, and in no worker's
hands; so the sum of the counts is at most the number of spent jobs, and each
new count takes a job that no sum contains yet.

*`NodeOperations_proofs`*. `TypeCorrect`. `TimeoutKept`: `TimeoutScoped`, for any
number of sessions in each process. `TimeoutInv` adds that two connects under way in
one process are crossed, and the process marked, and that in the other processes
what a connect keeps to restore is the default.
`NothingElse`: `OnlyAsked`, if no position comes without an altitude.
`SuccessHolds`: `SuccessIsWritten`, if patches are no dry runs and no altitude
comes without a position. `Agreement`: `AloneAgrees`, under both conditions.
Each condition excludes a case listed in section 5 in which the property fails.
The properties alone are not inductive, as they say nothing of a session on its
way. `WriteInv` adds that sessions that share a node are tainted (`Apart`), that
an untainted one has seen what the radio still has of the sections it has yet to
write (`Fresh`), and that whatever it need not write any more is on the radio and,
after the commit, in the row (`Stored`). A step of one session disturbs another
only on a node they share (`Alone`, `OthersKeep`), which leaves one obligation
per action. `AgreementInv` adds that an untainted session has loaded the row as
it is (`LookInv`) and that row and radio differ at most in what a patch on the
node is setting (`AgreeInv`). With a partial configuration, an overlap or a
broken session the node becomes doubtful until a sound synchronisation, which is
how the properties are stated.

*`Lists_proofs`*. The loops are recursive functions on the indices of the list.
What they return is shown for every length by an induction whose statements are
sets of indices (`NatSet`, `UpTo`): the library's induction theorems take
predicates, and no prover here can instantiate those. `LoopExists` says that
there is a function that goes through the turns of a loop, which a recursive
definition needs before anything follows from it.

*`Groups_proofs`*. `Types`; `DoneAsAskedHolds` and `OncePerNodeHolds`, for the
invariants of those names; `PatchesMembers`, for `JobPatchesMembers`. `Covered` follows a
request: each node of its list that was no member when the members were read is
still to be inserted, or is inserted, or was a member since; so nothing is left
out when it answers, whatever other requests commit or roll back meanwhile. An
import turns into an assignment on its way, which is why `Labelled` says what
kind of request is at which label. `JobInv` says that between the reads of the
group job, whoever has been a member all the time is in what was read, and whatever
was read has been one at some time.

*`RoutingFavorites_proofs`*. `Types`. `TargetsOnly`: `OnlyTargets`.
`SuccessReached`: `SuccessIsReached`; `Busy` says that a target which is done
with was once as wanted unless one has failed. `RefreshSettled`: `RefreshSettles`
speaks of the end only, and the invariant is what still has to happen: whatever
a radio does not have as the refresh wants it is `Pending`, in a queued job
or ahead of the thread that runs one, and while nothing else disturbs the refresh,
queue and threads have no other jobs (`OnlyOurs`). The two jobs never undo each
other because the targets of the one are none of the other. `RefreshShown`:
`RefreshShows`; a copy that is not what the radio has is `late`, or not among those
synchronised last, or will be synchronised by a job that runs (`Shown`, `Syncs`),
however the two jobs and the scheduler overlap. A step of
a thread is described field by field (`After`), so that each action has one
lemma about the thread and one about the others. `PageAgrees`: `VisibilityAgrees`,
with no assumption about the copies at all. `RowsOf` says that the rows list each
link once, `Found` what the loop over them has found after any part of them;
that the rows are twice the pairs and the one-way links is counted with the
two rows of each pair (`TwoRows`).

*`FleetConfig_proofs`*. `Types`, and `KeysStay`: `KeysStayPut`. The radios alone
are no inductive invariant: what is on its way to them counts. `Waiting` and
`Running` say that no queued job, saved default or patch being written has a
security section, and that each is a patch of known fields. Each way to make a
patch (forms, editor, alignment, clone, merges) has its lemma.
`Reviewed`: `AsReviewed`. Its core are lemmas about the operators: which settings
`Explicit` finds in each kind of merge (those of one argument over those of the
other), and that the two channels a copy lists stay in their places. With them
the invariant carries that a job's patch says exactly what its history `asked`
says, from the request through the queue and the merge with the clone to the last
node. The hypothesis `ListsOnce` is that no JSON field names a channel twice, the
case of section 5 where base and override differ; every other theorem does
without it.
`Aligned`: `AlignedMatch`. The property speaks of the end of the job only.
`AlignedInv` says of the whole way that copies that are not `late` show exactly what
radios have off their defaults (`Exact`), that what is asked for and what is written are values
of the source (`Faithful`) and all that the profile reaches (`Covers`), and that
each target is still to be done or agrees with the source already. The source may
be among its own targets: what is written to it is what it has.

## 7. What is only model-checked

Liveness (`PendingIsClaimed`, `RunningEndsOrWorkerDied`, `RunningEnds`,
`Converges`, `CatchesUp`, `EverythingEnds`, `JobsEnd`), which is out of the
prover's reach. Every invariant and every other action property of the passing
runs has its theorem; where one needs more than the model, its condition is named
in section 6. What the models exhibit and no property forbids - hazards without a
property, or with one that only bounds the damage - says so in its note in
`PROJECT.json`.

## 8. What is not modelled

- Configuration snapshots and the desired-state record: rows that are inserted
  and that nothing modelled reads. The diff of two snapshots is read-only.
- Dry runs of the multi-node patch job and the NodeDB branch of the batch form,
  in `FleetConfig`: the former are in `NodeOperations`, the latter in
  `RoutingFavorites`. The spread of locations around a point is floating-point
  arithmetic.
- Attributes a synchronisation copies beside those a patch sets (battery,
  firmware, hardware). `delete_node_endpoints` has no caller.
- Time. Heartbeat age (twenty seconds on the dashboard) and staleness in
  minutes are wall-clock comparisons; the freshness mark may change any node.
- Duplicate rows in `node_endpoints`, which has no unique constraint: the model
  keeps a set of pairs.
- Address reassignment: an address that moves to another radio would make
  `LinksTruthful` fail by the environment alone.
- A node patched through an endpoint where another radio answers: each node of
  `NodeOperations` has one radio. `LinksTruthful` is about the links it goes by.
- Page rendering, authentication (a signed cookie per request, no state), audit
  rows (a step that may fail), the map (a read-only projection), the command line
  (the services, one after the other), MeshCore and the command-line fallback
  (placeholders), cron parsing, CIDR expansion, settings and migrations.
