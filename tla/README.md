# Verification of the RSCD manager

TLA+ models of the backend in `src/backend/src`, the TLC configurations that
check them on small instances, and TLAPS proofs of what matters most for every
instance.  Paths below are relative to `src/backend/src` unless they start with
`src/`.

## 1. The system

The RSCD manager installs, removes and watches agents on a fleet of Windows
hosts.  One Node.js process serves an HTTP API and Socket.IO events, keeps its
data in MongoDB, and reaches the hosts over WMI (a Python child process or a
relay).  Nothing is persisted outside MongoDB; every flag, set, queue and cache
named below is in the memory of that process.  Code between two `await`s is
atomic; everything else interleaves.

| Component | State | Operations | Hard behaviour | What makes it correct |
|---|---|---|---|---|
| Worker pool (`utils/pool.js`) | shared cursor, result array, runners | `runPool` | runners share a cursor across awaits; a rejection ends the call, not the others | each item once; at most `limit` together; resolved only when complete; always settles |
| Deployment jobs (`services/deploymentService.js`, `models/Job.js`) | Job document; sets `running`, `cancelFlags`; locals of a run | create, schedule, run, worker per endpoint, cancel, retry | un-awaited and overtaking updates; cancel against start and end; partial database failures; restarts | statistics count each endpoint once; a cancel spares what is queued; a retry repeats only failures; a job ends |
| Install and uninstall pipelines (`deployInstall.js`, `deployUninstall.js`, `registrySoftware.js`, `packageStore.js`) | staged files on the host | connect, detect, transfer, run, verify, clean up | calls whose script fails or comes late | what runs is the package |
| RSCD uninstall (`winRemote.js`, `rscdDetection.js`) | the host's service, MSI products, registry, directories | detect, stop, disable, MSI, registry, directories, verify, retry | a poll that fails, partial cleanup | success only when nothing is left |
| Connectivity (`connectivity.js`, `agentProbe.js`, `utils/wmiCredentials.js`, `utils/dnsCache.js`) | VM document; session cache; probes in flight | probe, check and update | snapshot before an await, written after it | a stale write is put right by a later look |
| Quick checks and background inventory (`vmCheckQueue.js`) | `inventoryInFlight`, `inventoryPending`, `inventoryWorkers` | check, queue, drain, run | bound and duplicates across awaits | at most N inventories, one per host, none lost |
| Monitor (`monitor.js`) | `running`, `paused`, timer | cycle, pause, resume, start-up sweep | overlapping cycles, pauses | one cycle at a time; not during an import |
| Import (`import.js`) | VM documents | parse, save in batches | overlapping imports, new and renamed endpoints; pause of the monitor | no name twice unless two writers looked it up together; the monitor goes on when imports cease |
| Endpoint deletion (`vmCleanup.js`) | VM and Job documents | clean up jobs, delete | read-modify-write of a job under its run; a job created during the deletion | no endpoint comes back into a job; no count of a run is lost |
| Full sync (`endpointSync.js`, `systemState.js`) | `state.running`, progress, SyncRun documents | start (boot, timer, manual), batch, finish | flag tested before awaits; failure before the `try` | one sync at a time; the flag never stays set |
| Fleet jobs (`vcRedist2015.js`, `endpointReadiness.js`, `localUserProvision.js`) | Job documents | run over the fleet | cancel ignored; a sweep that throws | flags come back; records are true |
| WMI sessions (`agentProbe.js`, `utils/wmiCredentials.js`) | session cache; the last answer of the relay | log in, try targets and credentials in turn, drop on edit | logins under way during an edit; outages of the relay | a session is not used long after the record changed |
| Remote execution (`utils/wmiExec.js`, `wmiRelayServer.js`) | child processes, requests | run with timeout | timeout against a late answer | the caller is told what became of the command |
| Remote desktop (`remoteDesktop.js`) | sessions with a time to live | launch, end, expire | button, closed page and timer end one session | a session ends once |
| Activity log (`activityLog.js`, `utils/audit.js`) | log documents | write, trim | concurrent trims | the log is within its limit when nobody writes |
| Endpoint API (`api/routes/vms.js`, `endpointDetail.js`, `endpointOps.js`, `programQuery.js`) | VM documents | edit, exclude, tabs, program query | a tab that timed out writes late | the record follows the edit |
| Pure algorithms (`versionUtils.js`, `readinessSummary.js`, `dashboard.js`) | none | compare versions, summarise | malformed values | a total order; sums that add up |
| Frontend (`src/frontend/src`) | query state, job lists, sync banner | fetch with retry, apply socket events | late answers, lost events | loading and spinner end; the newest call is shown |

Interactions: the routes call the services; deployment jobs, the monitor, quick
checks and fleet jobs all run over `runPool`; the pipelines report to a job
through callbacks nobody awaits; monitor, checks, sync, uninstall and the API
all write the same VM document; `vmCleanup` cancels, rewrites and deletes Job
documents; import pauses the monitor and queues checks.

`PROJECT.json` lists every component with what is modelled of it, and the
hazards of the code at their lines.

## 2. Modules

| Module | What it is |
|---|---|
| `PoolContract` | abstract: what a caller of a pool is promised |
| `WorkerPool` | `utils/pool.js`, implementing `PoolContract` |
| `DeploymentJob` | `deploymentService.js` with the documents it writes; composes with `PoolContract` |
| `InventoryQueue` | the background inventories of `vmCheckQueue.js` |
| `Fleet` | the constants that the modules below share |
| `FullSync` | `endpointSync.js`: boot, timer, request, run, failures |
| `MonitorImport` | `import.js` (`saveVms`), `POST` and `PUT /api/vms` as writers of names, and `monitor.js`, which the import pauses |
| `EndpointDeletion` | `vmCleanup.js` beside the creation and the runs of jobs |
| `ActivityTrail` | `activityLog.js` and the sessions of `remoteDesktop.js` that write to it |
| `SyncView` | `src/frontend/src/context/SyncContext.jsx` with what the backend tells it |
| `ApiQuery` | `src/frontend/src/hooks/useApiQuery.js` over `request` of `api.js` |
| `FleetJobs` | `vcRedist2015.js`, `endpointReadiness.js`, `localUserProvision.js` |
| `UninstallPipeline` | `winRemote.js` with `rscdDetection.js` and the host it works on |
| `InstallPipeline` | `deployInstall.js`, `deployUninstall.js`, `packageStore.js` and the host |
| `WmiSession` | `connectWmi` and `diagnose` of `agentProbe.js`, `wmiCredentials.js`, and the edit that drops a session |
| `RemoteCall` | `utils/wmiExec.js` and `wmiRelayServer.js` |
| `EndpointRecord` | who writes what the record says of the agent: `connectivity.js`, `endpointSync.js`, the jobs, the API |
| `MC...` | bounds for TLC; `MCFleetUpkeep`, `MCHostWork` and `MCHostAccess` each hold several components |
| `WorkerPoolProofs`, `DeploymentJobProofs`, `InventoryQueueProofs`, `FullSyncProofs`, `FleetJobsProofs` | proofs about one component each |
| `FleetUpkeepProofs`, `HostWorkProofs`, `HostAccessProofs` | proofs about the other components of a batch and about the batch itself |

The components of one of the three batch modules share no state: `part` says
which of them a behaviour belongs to and the others stand still, so that a run
visits the sum of their states.  `MonitorImport` has two parts, imports beside
the monitor and imports beside requests that give names.  In a batch each part has its own fairness, and
a liveness property of one part is stated of that part.

Every definition marked as a mutant or as a faulty variant is not part of the
specification: it is what a plausible bug would make of the definition next to
it, and shows that the properties notice.

In all modules one action is the code between two awaits, a program counter
names the call that is awaited, a failed call is one that had no effect unless
said otherwise, and messages, logs, wording and timestamps are left out.

### WorkerPool

One action per transition of a runner: `Claim` is the loop test with
`index++` (pool.js:8-9, no await between them), `Store` the return of the
worker (10), `Reject` its rejection, which rejects `Promise.all` at once (14),
`Leave` the failed loop test, `ResolveAll` the end of the call.  Items are
their indices.  The refinement reads the cursor as the set of started items.

### DeploymentJob

The variables are in three groups: the database (`body`, `status`, `progress`,
`statistics`, `results`, `agentStatus`), the process (`running`, `cancelFlags`,
`run`, `idle`, `worker`, `verdict`, `stats`, `done`, `sent`, `steps`,
`cancelling`) and history (`spared`, `faults`).  `run[j]` and `worker[j][e]`
are program counters.  An awaited call is one step, taken when the server
applies it and together with the code that follows up to the next await; the
values a call carries are those of the moment it was issued, which matters for
the progress update (`sent`).  The step updates of `hooks.onStatus` are issued
and forgotten (`steps`), and land at any later time: the driver uses a pool of
connections.

What is abstracted: socket events (they decide nothing in the service); a
progress percentage is a number of endpoints; the pipelines are their interface
(any number of reports, perhaps a last one that says "done" or "failed", then a
verdict); `excluded` endpoints are not part of a request; endpoints are claimed
in any order rather than in list order, which adds behaviours; a second cancel
of one job waits for the first.  The cancel flag, `running` and the job
documents are shared by all jobs, the pools are not.

Faults: `CreateError`, `RunError`, `WorkerError`, `FailedWriteError`,
`CancelError` and `StepError` are the places where a database call can reject,
each followed to where the code catches it; `Restart` loses the process and
keeps the database.

### InventoryQueue

`pending`, `inFlight` and `workers` are the three variables of the code
(vmCheckQueue.js:8-10); `waiting` and `probing` count the inventories of each
endpoint that really exist, scheduled or reading (75-78) and probing (81), so
that the code's own books can be compared with them.  `noted` counts checks
between the answer of their write (59) and the code that acts on it (63-70).
`Drain` is the whole loop of `drainBackgroundInventory`, stated by how many
entries it takes (`Taken`) instead of entry by entry; `Finish` is the `finally`
block.  A record is abstracted to what `needsBackgroundInventory` tells apart,
and a check or an inventory leaves it with any value its data could give.  The
setting of the limit is taken to be a number.

### FullSync and SyncView

`syncing` is `state.running`; `syncCall` holds a place for each of the three
ways into `runFullSync`.  The flag is tested on entry, before anything is
awaited, so that two callers may both be on their way.  "stuck" is a caller
whose `SyncRun.create` failed: it lies outside the `try` block
(endpointSync.js:153-155) and the flag stays.  Start-up is followed from
`bootstrap` to the timer, with the one `catch` of app.js:208-211 that ends it
for good.  Endpoints of a batch that is rejected by one failure are worked on
further (`syncLate`).  Of a record only `lastFullSyncAt` is kept.

`SyncView` keeps of that run what is told to a page: events on a socket, lost
when it is not connected, and answers to polls.  `applyStatus` is the whole
function, its comparison with the last status included.  One request of
`syncNow` and one answer to a poll are on their way at a time.

### MonitorImport, EndpointDeletion, ActivityTrail

An import parses its file before anything is awaited, so a file is a set of
names.  `impKnown` is what it read, which is what it decides on later.
The collection is a table from ids to names, so that it can hold two records of
one name: the schema does not forbid it (models/VM.js:5).  Three kinds of
writers look a name up before they give it, with nothing in between: an import
(one look-up for the whole file; a replacement takes all names of its file to
be free from the moment it has listed what it will delete), `POST`
(vms.js:153-157) and the `PUT` that renames a record (vms.js:227-232).  Two
of them may look one name up together and both give it; the variable
`impContested` remembers such names, and the model does duplicate them.
`impOverlap` says whether an import under way began beside another one, which
then resumes the monitor under it.  The monitor has its flag, its pause and the
records whose check it waits for.  The records of a batch are inserted one by
one, in any order, since a failed `insertMany` keeps those that came first;
`deleteMany` is one step.

A creation of a job finds its endpoints (`MakeFinds`), then inserts the job
(`MakeInserts`); all five callers of `Job.create` do, though only deployment
jobs are followed further.  A run begins with the endpoints that still exist,
and each endpoint that passes writes its tally (`DelRunCounts`) or, cancelled,
nothing (`DelRunCancels`).  A deletion reads the jobs (`DelReads`), then saves
or deletes each.  `DelSaved` is what Mongoose makes of the save: of the list,
the total and the progress, the paths whose value changed since it was read.  A
save that replaces the list is refused when the stored version differs, which
is why `version` is part of the job; an update of the run has no version.
Status and results of a job, and the order of a run's own writes, are in
`DeploymentJob`.

A write to the log is four database calls.  The log is the set of the numbers
of its entries, in the order of storing; `TrOldest` is what the sorted and
limited look-up answers.  Two writers may count and look at different moments.

### FleetJobs, UninstallPipeline, InstallPipeline

Each sweep has its flag, its job and its pool, whose workers take endpoints in
the order of the database and go on after one of them rejected it (`fjLeft`).
Requests for one endpoint do the same work with no flag.  One endpoint,
`Watched`, is followed in detail: whether the host has the runtime, what the
record says of it, which of the two was read when.  A request may name an
endpoint that is excluded, which the queries of the sweeps leave out and no
route asks for: it is "skipped" before any session, and what an assessment
makes of that is a step of its own (`"unread"` in `EnsureWrites`).

`UninstallPipeline` separates what is awaited from what is not: the code hands
`net stop`, `taskkill`, `msiexec`, `sc delete`, `reg delete` and `rmdir` to the
host and does not wait for them, so each stays in `upPending` until the host
runs it, at any time or never.  A query that fails reads as an empty answer,
as in the code.  `parseUninstallOutput`, `resolveInstallRoot` and the two
detections are operators.  An installation root set by hand, and a
verification that prints nothing, are not among the hosts and answers tried.

`InstallPipeline` stages chunks.  A script that fails on the host reports an
error nobody reads (`wmiPs` looks for refused logins only), so an appended
chunk may be missing, and one whose call timed out may still be appended later
(`ipLate`).  The host lists a program once at most: `Without` is its list when
one was removed or is listed anew.  Jobs have directories of their own, named by their
ids.  The exception in the code is outside of this module: two requests that
remediate one endpoint at once share `readiness-vc-<id>`
(endpointReadiness.js:223, vcRedist2015.js:99).

### WmiSession, RemoteCall, EndpointRecord

`WmiSession` follows one endpoint and several callers through the relay check,
the cached session, the targets and the credentials.  A session carries the
version of the record it was made with and whether its login was under way
during an edit (`late`).

`RemoteCall` has two clocks, one that kills the process and one of the HTTP
request, in ticks of five seconds; a timer at zero fires before time goes on
(`Urgent`).  `rcLookup` counts the ticks the relay has spent on the look-up of
the host's names, to which relayDns.js sets no limit; `ResolveMax` only bounds
what is tried.

`EndpointRecord` splits a check at its probe: what was read before is written
after it.  Checks of one kind share a probe (`probeWithDedup`), which keeps the
record it began with.  The version "True" is what registrySoftware.js:18 makes
of every version.

## 3. Runs

| Run | Question | Bounds | Result |
|---|---|---|---|
| `WorkerPool` | `PoolContract` implemented; always answered; survivors drain the list | lengths 0..4, concurrency -1..3 | holds |
| `DeploymentJob_onejob` | books, removal records and cancel of one job; every job ends | 2 endpoints, 2 runners, 1 step update in flight, 1 failed call | holds |
| `DeploymentJob_faults` | two failed calls and restarts; `JobInv`; each job's pool keeps `PoolContract` | 3 endpoints, 2 runners | holds |
| `DeploymentJob_retry` | a retry repeats only failures | 2 jobs (a job and its retry), 2 endpoints, 1 runner | holds |
| `InventoryQueue` | books, bound, order; queued is started; needy is probed | 3 endpoints, limit 1, 1 check about to ask, 1 restart | holds |
| `FleetUpkeep` | synchronisation, imports and monitor, deletions, log, spinner, queries | 2 endpoints, 1 fault, 1 repeated request; batches of 1; 2 imports of one name beside the monitor, and 1 import of any names with 2 requests, 2 names and 2 ids; 1 job created while every set of endpoints may be deleted; a log of 2, 4 other entries; 1 retry, 3 calls | holds (428,533 states) |
| `HostWork` | sweeps, removal of the agent, installation | 3 endpoints, 2 workers, 2 requests, 1 fault, 6 states of a host, 1 poll; excluded endpoints; 2 chunks, two installing jobs and one removing job | holds (345,480 states) |
| `HostAccess` | sessions, one call, one record | 1 endpoint, 2 callers and 3 kinds of checks, 1 fault, 1 edit; the configured time limits in ticks, look-ups of up to 8 ticks | holds (252,337 states) |
| `DeploymentJob_cancel` | "Cancel queued work" (ARCHITECTURE.md:164) | 2 endpoints | violated |
| `DeploymentJob_lateStep` | "Retry failed endpoints" (ARCHITECTURE.md:165) | 2 endpoints | violated |
| `RecordFilter` | "Only uninstall versions below threshold" (JobsPage.jsx:177) | as `HostAccess` | violated |
| `StoredPair` | "override the chain when username+password are stored" (DECISIONS.md:155) | as `HostAccess` | violated |

What the properties say:

* Pools and jobs: `ImplementsContract`, `AlwaysSettles`, `SurvivorsDrain`;
  `SettledTally` (statistics count each endpoint once, though updates
  overtake), `RemovalIsRecorded`, `CancelFlagSparesQueued`, `CompletedIsQuiet`,
  `OneFaultNeverStrands`, `RetryRepeatsOnlyFailures`, `EveryJobEnds`,
  `PoolsKeepContract`.
* Inventories: `QueueInv` (the proved invariant), `AtMostLimit`,
  `FirstComeFirstServed`, `QueuedIsStarted`, `NeedyIsProbed`.
* Fleet: `SyncAlone` (never two runs, and the flag stands exactly while one
  does), `SyncsReachAll`, `NamesUnique`, `PauseFollowsImports`,
  `MonitorAlwaysBack`, `TrailKept`.  `NamesUnique`: no two records of one name,
  unless two writers had both looked it up before either gave it.
  `JobsFollowDeletions`: an endpoint that was deleted is in no job, unless the
  job was being created meanwhile; what a run has counted is in its document;
  and the percentage belongs to the tally beside it, unless a deletion computed
  it from one that the run has overtaken or the run cancelled endpoints (which
  pass uncounted, deploymentService.js:193-198).
* Portal: `SpinnerStops`, `NewestShown`, `LoadingEnds`.
* Hosts: `SweepsAccountedFor`, `VcRecordTrue` ("installed" is never claimed of
  a host without the runtime, and a passed readiness only of one that was
  skipped unread), `SuccessMeansClean` (removed means removed,
  whatever the host does with the commands), `StagedIsPackage`,
  `HostWorkEnds`.
* Way to a host: `SessionFollowsRecord`, `OutagesEnd`, `ExecVerdictArrives`,
  `CallSettles`, `RecordComesBack`.

`...TypeOK` is the type invariant of the modules of a batch.

Why the bounds are enough: with more items than runners a runner claims more
than once, so that a claim can meet every state of the others; with two runners
all overtakings of two updates occur; two faults are one more than the code is
built to survive.  With three endpoints and a limit of one, two wait behind an
inventory.  `MaxSteps` bounds the un-awaited updates in flight together; one is
enough to overtake any awaited one, and two of them commute or overwrite one
another like one that is late.  In the batches one fault reaches every place
where a call can fail, and one more fault or edit repeats a place the first one
has visited; two importers, requests, deleters or callers are what the
interleavings that matter need, three of them only repeat a pair; two ids hold a duplicate, one
job meets every deletion (several jobs share nothing but the deletion that
reads them, and the theorems are about any number); a look-up of 8 ticks is
longer than the 6 by which a request outlasts its process; a log of two with
four other entries lets two writers be too many together; two chunks can be lost, swapped
or doubled; three reloads put two superseded calls beside the newest.
Endpoints are interchangeable wherever their environment is the same, which is
where symmetry is used.  Deadlock is not checked where the system rests: a job
that ended, a system without requests, a bound that is used up.

### The four violations

* `DeploymentJob_cancel`: a cancel accepted between the insertion of the job
  and its start sets the flag, and `runJob` deletes it (deploymentService.js:173)
  and writes "running" over "cancelled" (186).  Every queued endpoint is then
  operated on.
* `DeploymentJob_lateStep`: a step update issued just before an endpoint fails
  (deployUninstall.js:71, then 77 without an await between) is applied after
  the final result, which `retryFailed` then no longer finds.
* `RecordFilter`: the registry script prints `($p.DisplayVersion -or "")`, a
  boolean; a synchronisation stores "True" as the version of the agent, which
  `isBelowVersion` puts below every threshold.
* `StoredPair`: `syncOneEndpoint` goes on with the record its own check has
  written and read back, without the password, which the schema does not
  select; its session is tried with the platform accounts.

### What the models show beside the properties

These follow from the code as modelled or as read next to it, and no run states
them:

* Two writers that look one name up together both give it: two imports, two
  `POST`s, a `POST` and a `PUT`.  vms.js:155 answers "already exists" to a
  request that comes later.  `NamesUnique` excepts exactly these names.
* A job that is created while one of its endpoints is deleted
  (deploymentService.js:126-134 around vmCleanup.js:8-58) goes on naming the
  endpoint; a run that begins later leaves it out.  `JobsFollowDeletions` excepts
  exactly these jobs and endpoints.
* A deletion may write a percentage it has computed from a tally that the run has
  overtaken (vmCleanup.js:34-38); it stands until the next endpoint passes.
* An assessment counts an endpoint that was skipped as excluded for one that has
  the runtime (endpointReadiness.js:170 with vcRedist2015.js:146-148), so that
  `readiness.allPass` may be written of a host nobody read; RUNBOOK.md:107 says
  that the assessment "runs three checks (live WMI when online)".
  `VcRecordTrue` excepts exactly this.
* A relay that takes long over the names of a host lets the request to it time out
  while its command runs on (`ExecVerdictArrives` excepts it), and an answer
  that is cut off leaves its caller waiting for good (wmiExec.js:151-161).
* A cancel of a sweep writes a status that the sweep never reads and overwrites at
  its end; a sweep that a failed call ended leaves its job at "running".
* Two jobs may operate on one endpoint at the same time: nothing is locked per
  endpoint, while ARCHITECTURE.md:137 says "sequential steps per host".
* `createInstallJob` tests the environment named in the request and, unlike
  `createUninstallJob` (deploymentService.js:129-132), never compares it with
  the environment of the endpoints; DECISIONS.md:135 asks for `confirmedProd`.
* A running service is often not told to stop before its processes are killed:
  the status that `_detectServiceState` (winRemote.js:135-176) looks at has been
  overwritten by the merge of the detections (rscdDetection.js:21-55).
* The kind of a failed login is lost where a text written for the operator is
  classified again (agentProbe.js:236, 309).
* A probe through the relay and its process there have timers of the same
  length, so that the caller may be told of the relay instead of the host.
* A run that fails unheard between two polls leaves the status as it was; the
  comparison with the last one (SyncContext.jsx:68) drops it and the spinner
  stays.  `SpinnerStops` excepts exactly this case.
* An answer whose body is cut off reads as an empty object (api.js:30) and is
  shown as "empty".  A query that is disabled while it loads stays at
  "loading" until it is enabled again.
* `JobsPage` patches a list that may not be loaded yet; `JobPage` starts loads
  that do not supersede one another, and joins the room of its job only once,
  so that a reconnected socket hears nothing of it.
* DECISIONS.md:98 gives the poll 12 s, SyncContext.jsx:124 two.

## 4. Fairness

`WorkerPool`: weak fairness on each runner and on the end of the call; a worker
settles because every remote call carries a timeout (`utils/wmiExec.js`), and
the event loop runs every continuation.

`DeploymentJob`: weak fairness on the steps of each run, each worker, each
cancel and each step update, for the same reason and because the driver answers
every call.  Operators submit, cancel and retry as they like: no fairness.
`EveryJobEnds` allows one failed call and excepts the job whose scheduling it
hit; of a second one a job need not recover (`OneFaultNeverStrands`).

`InventoryQueue`: weak fairness on what is scheduled and on the end of every
database call and probe (`Fairness`), for the same reasons.  `NeedyIsProbed`
speaks of a healthy fleet (`HealthyFleet`): the monitor checks every endpoint
in every cycle and finds it online, and the database does not fail every time
an inventory reads from it.

`MCFleetUpkeep`: the event loop gets to every callback that is due, in the
backend and in the page (weak fairness per caller and per call), and timers fire
again and again.  Strong fairness once: a host that is asked again and again
answers at some time.  No fairness on requests of operators.  `SyncsReachAll`
excepts the two places the code does not recover from, `MonitorAlwaysBack`
imports that go on for ever.

`MCHostWork`: the steps of a sweep and of a removal go on, and work on a host
ends, since `wmiExec.js` kills what runs too long.  Nothing makes the host run
a command it was handed.

`MCHostAccess`: callers come again (monitor and synchronisation are periodic),
each step of a login ends by its time limit, time passes, what is due happens;
strong fairness on a host that is asked again and again.

## 5. Proofs

`WorkerPoolProofs` assumes that lengths are naturals and concurrencies
integers.  `PoolInv` is inductive: besides the properties it says that what the
cursor passed is exactly what finished, threw or is held by a busy runner
(`IndexInv`), and that a runner leaves only an exhausted pool (`RunnerInv`).
`NoItemTwice` alone is not inductive, since nothing else ties the items held to
the cursor.  `PoolImplementsContract` maps every step to a step of the contract
or a stutter; the bound on items in progress is a counting argument
(`RoomForClaim`: a runner that claims is not busy, and there are at most
`limit` runners).

`InventoryQueueProofs` assumes a finite fleet and a positive limit.  `QueueInv`
is inductive: the bound and the freedom from duplicates hold because the set,
the list and the counter agree with the inventories that exist (`BooksAgree`),
and one call of the loop starts at most one inventory because nothing waits
beside a free place (`NoIdleWorker`): `DrainKeeps` proves what the loop leaves
from what its callers guarantee (`MayDrain`), `MayDrainAfterQueue` and
`MayDrainAfterFinish` that they do.

`DeploymentJobProofs` assumes a finite fleet, requests that name endpoints, and
positive concurrencies; jobs, requests, faults and restarts are arbitrary.
`JobInv` is inductive: a verdict is known exactly after the remote operation
(`VerdictInv`), jobs not inserted have no workers and the final write comes
after all workers (`PlaceInv`), what a worker has behind it (`RemovalInv`), how
many faults a run that ended badly has met (`StrandInv`), and where the word
"failed" comes from (`FailureInv`).  The proof first shows what any step can do
to a run, a worker and a document (`NextMoves`, `FlagMoves`, `FailureMoves`,
one lemma per group of actions), then preserves each part from that alone.  The
type invariant is not inductive without `VerdictInv`: a result is a listed
status only because no worker records an unknown verdict.
`RetriesRepeatOnlyFailures` adds a relation between two jobs (`RetryInv`).

`FullSyncProofs` proves `SyncAlone` for every fleet, failures and restarts.
`AloneInv` is inductive: the flag has at most one holder and is set exactly when
it has one (`FlagInv`; a call that died in `SyncRun.create` holds it for good),
the initial run is idle until start-up asks for it (`BootInv`: start-up
schedules it without a look at where it is), and only failed calls leave
endpoints behind (`LateInv`).  Every step is one of a few moves of a caller
(`RunMoves`, `NextMoves`), and each move keeps the flag (`MoveKeepsFlag`).

The tally (`SettledTally`) needs `TallyInv`: the counters of a run agree with
the verdicts known so far, and from the moment it closes every endpoint has
returned, so that the last write stores final numbers.  Each step counts one
endpoint or none (`CountsNone`, `CountsCancelled`, `CountsVerdict`), and each of
the two adds one element to one of the counted sets.  `PoolsKeepContract` is a
refinement per job: what any step does to the pool of a run is one of ten moves
(`PoolMoves`), the move keeps `PoolInv` (runners that are left and endpoints in
flight are together no more than the limit; nobody works once the run has gone
on), and is a step of `PoolContract` or a stutter.

`FullSyncProofs` also proves the types: that only endpoints of the fleet have a
snapshot (`SyncTypesHold`).

`FleetUpkeepProofs`, for any importers, names, sizes, limits and bounds:

* `PauseFollowsImports`: `PauseInv` adds what makes the one boolean enough.
  While nothing has overlapped, at most one import is busy, so the one that
  resumes the monitor is the one that paused it.  `CycleInv` adds that a cycle
  never waits for its list and for checks at once.
* `NamesUnique`, for any importers, requests, names and ids: `NamesInv` says, of a
  name that is not contested, that one record has it (`OneRecord`), that one
  writer at most is about to give it (`OneWriter`), and that no record has it
  then but those which this writer will delete or rename (`NoOthers`).  Without
  the last two `NamesUnique` is not inductive: it says nothing of what was looked
  up and not yet written.
* `JobsFollowDeletions`, for any fleet, creations and deletions: `CopyInv` says
  that the document which a request has read names the endpoints of the stored
  one as long as the versions agree.  Versions only grow, so a save that would
  bring an endpoint back is refused.  `FoundInv` and `NamedInv` say that what a
  creation found, or a job names, of the endpoints of a deletion under way is
  remembered in `delRaced` or will be dealt with, and `TallyInv` ties the
  document's counts to the run's.
* `TrailKept`: `TrailInv` says that a log over its limit has a write under way
  which will take it back by itself (`Covers`): one that has not counted, has
  counted enough, or is about to delete enough of what is still there.  Another
  write that deletes takes as much from the excess as it takes from what is
  found (`DeletionSparesCover`).
* `NewestShown`: `QueryInv` adds that no call is newer than the counter, that the
  call with the counter's number is alive and asks for what is wanted, and that
  its answer is awaited, shown, or an error (`CurrentInv`); hence a superseded
  call may end in any way.
* `FleetUpkeepTypeOK`: `ShareInv` (what a run has done and has left are no more
  than the fleet), `AnswerTypes` (no status is ahead of the backend), `BoundInv`
  (a call that waits to be made again has a retry left), and the plain types.
* `UpkeepIsEachPart`: a behaviour of the batch is a behaviour of each of its
  parts, so that all of this holds of what the run checks (`FleetUpkeepIsSafe`).

`FleetJobsProofs` proves `VcRecordTrue`.  `RecordInv` says that work which has
read the runtime (and a readiness that follows) is on a host that has it
(`ClaimInv`), and that work which is alone on the host writes "missing" only
where it is, since whoever installs the runtime is the one that will write
(`LoneInv`).  `VcRecordTrue` alone is not inductive: it says nothing of what is
read and not yet written.  `SweepsAccountedFor` follows from `SweepInv`: until a
call fails no worker is left behind by its sweep, and a sweep that is not in its
pool has no work and, at its report, a job that is not "running".

`HostWorkProofs`:

* `StagedIsPackage`, for any number of chunks.  `ChunkInv` says that a chunk is
  appended once at most: a late chunk is not in the file, one that was not sent
  is neither there nor late.  Hence a file that is the package has no chunk to
  come (`WholeFileIsQuiet`), and nothing changes it between its hash and its
  installer.
* `SuccessMeansClean`, for any host and any directories.  A host that runs a
  command late only removes (`CommandsOnlyRemove`), so what a verification has
  found to be gone stays gone (`VerifiedIsClean`); `RemovalInv` adds which fields
  a removal has at which place and that it has a result exactly when it ended.
* `HostWorkTypeOK` for the sweeps, the removal and the pipelines together, and
  `HostWorkIsSafe`: the composition that the run checks keeps what each part keeps.

`HostAccessProofs`:

* `SessionFollowsRecord`: `WsInv` says that a login keeps the version of the
  record that it read, and that there is one session at most.
* `ExecVerdictArrives`, however long look-ups take: `RequestInv` adds what is left
  of the request to what the look-up has taken.  While the process runs, the sum
  is at least what is left of the process and what the request has beyond it
  (`Beyond`); a request that times out while the relay lives has therefore lost
  all of that to the look-up.  `CallInv` has the types and the bound on
  `rcLookup`.
* `HostAccessTypeOK` for sessions, calls and records together, and
  `HostAccessIsSafe`: the composition that the run checks keeps what each part
  keeps.

Every invariant and every action property that a run checks is thus stated by a
theorem.  Only model-checked: the liveness properties (`AlwaysSettles`,
`SurvivorsDrain`, `EveryJobEnds`, `QueuedIsStarted`, `NeedyIsProbed`,
`SyncsReachAll`, `MonitorAlwaysBack`, `SpinnerStops`, `LoadingEnds`,
`HostWorkEnds`, `OutagesEnd`, `CallSettles`, `RecordComesBack`), since the prover
does not handle fairness and ENABLED, and that the four documented statements
are violated.

The assumptions are those the modules state for their constants
(`...Assumption`): finite fleets, natural bounds, positive limits.  The bounds of
the runs (`MaxFaults`, `MaxEdits`, `MaxWrites`...) are arbitrary naturals in the
theorems.

## 6. Plan

Proofs to come: the safety half of the liveness properties, that is what may
never happen between a cause and its effect (a queued inventory is not
forgotten, a session that outlived its record is not renewed), stated as
invariants and proved.  The modules of these components hold no RECURSIVE
operator.

Then: `JobPage` and `useLiveData` of the frontend (late loads beside events),
the cache of `utils/dnsCache.js`, and the interface of the pipelines in
`DeploymentJob` as an abstraction of `UninstallPipeline` and `InstallPipeline`.

Not modelled: the tabs of an endpoint and the program query (they read a host
and cache what they read, and nothing else looks at it), the summaries of the
dashboard (counts over a query), components that are layout, the vendored
`wmiexec.py` and `wmi_probe.py`, child processes and sockets themselves,
spreadsheet parsing, build and deployment files: their behaviour is I/O or data
conversion that no property here tells apart.
