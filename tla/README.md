# Upstand control plane: a TLA+ verification project

Upstand is a self-hosted platform that builds and runs applications. Its control
plane accepts requests (`apps/server`, `packages/api`), keeps records in
PostgreSQL (`packages/db`, `packages/repositories`), and hands long work to
BullMQ queues in Redis through a transactional outbox; a separate process
(`apps/schedules`) publishes the outbox, runs the workers and reconciles what
failed. This directory models the part of it that is hardest to test: what
happens to a command, a deployment, a backup, a migration or a notification when
processes crash, hang, overlap and race.

## 1. Inventory

| Component | State | Operations | What is hard |
| --- | --- | --- | --- |
| Transactional outbox (`usecases/outbox`, `repositories/outbox`, `infrastructure/outbox`) | rows of `outbox`: status, attempts, available_at, claimed_at | create, claimBatch, publish, markPublished, markFailed, retryDeadLetter, prunePublished | claims are leases, so publishers overlap; the queue and the table cannot be written atomically |
| Deployment queueing (`queue-deployment.usecase.ts`) | deployment row, resource status, outbox command | execute | one transaction over three records |
| Deployment worker (`deployment-worker.ts`) | job, execution token, attempt, heartbeat, flags of the execution | processJob: lock, load, claim, heartbeat, pipeline, catch, finally | jobs are delivered more than once; an execution may outlive its job, its lock and its row |
| Resource lock (`resource-lock.ts`) | one Redis key with a TTL per resource, renewal timer | acquire, renew, assertOwned, release | leases expire under a suspended process; replies get lost |
| Deployment API (`deployment.router.ts`, `web-server/maintenance.ts`) | Redis cancellation marker | cancelDeploymentJob, killBuild, retryDeployment, removeDeployment, clearHistory, cleanAllDeploymentQueue | reads, queue operations and writes are separate awaits |
| Reconciler (`reconcile-stale-deployments.usecase.ts`, `StaleDeploymentScheduler`) | none | execute: find, mark, stop | acts on what it read earlier |
| Backup runs (`usecases/backup`, `createBackupRunHandler`) | run rows, Redis lock of the schedule, objects in storage | trigger, claim, dump, verify, prune, recover stale runs, delete the schedule | three leases of different length (job, row, lock); updates by id; retention decides on what it read earlier |
| Workload migration (`usecases/server/*migrat*`, `docker-workload-migration.port.ts`) | migration row with token and checkpoint, placement, services on two servers | request, execute step by step, cancel, roll back, confirm, resume | no heartbeat during a step; rollback undoes in several steps; operator and worker write the same row |
| Notification delivery (`usecases/notification`) | delivery row with claim stamp and attempts | publish, claim, send, record, operator retry, delete channel | claim of five minutes against a job lock of seconds; the provider cannot be asked whether it took a message |
| Schedules process (`apps/schedules`) | timers, workers | start, recover, stop | recovery after a failed restart |
| Autoscaling, Docker cleanup, previews | counters, Docker's state | timers | mostly Docker's own state |
| Control-plane transfer, secrets, SCIM, rate limits, terminal and Docker brokers, monitoring, CLI, web, desktop | various | various | not the core of the program; see section 8 |

How they interact. The API and the use cases write the aggregate and an outbox
row in one transaction. A publisher claims the row, reads the cancellation marker
and adds a BullMQ job whose id is the row's id. A worker slot takes the job, takes
the resource's Redis lease, claims the deployment row with a fresh execution
token, runs the pipeline while two timers renew lease and heartbeat, and records
the outcome only if lease and token are still its own. The API cancels by setting
the marker and, if no slot is active, by removing the job and updating the row.
The reconciler ends rows whose heartbeat stopped. Backups, migrations and
notifications follow the same pattern with leases of their own: a job brings a
worker to the row, and a conditional UPDATE decides whether it may have it.

What makes each part correct. Outbox: nothing is acknowledged that was not handed
over, nothing is forgotten, dead letters are deserved. Worker: one execution per
resource as far as leases allow, one writer of the outcome, every deployment ends,
every lease is freed. API: a terminal deployment is never executed again, an
accepted cancellation holds. Reconciler: abandoned executions end, live ones are
spared. Backups: one at a time per schedule, what retention keeps can be restored,
the lock comes free. Migration: the application runs where its resource is placed,
the status moves along its table, a finished migration stays finished.
Notifications: no message twice without a fault, attempts bounded, every delivery
ends. The hazards behind these, line by line, are in `PROJECT.json`.

## 2. Modules

| Module | What it is |
| --- | --- |
| `Handoff` | abstract specification of the outbox: accept, hand over, withdraw, settle |
| `Outbox` | the outbox table, its publishers, operator retry and retention |
| `MCOutbox` + `MCOutbox.cfg`, `MCOutboxFence.cfg` | instances for TLC |
| `Outbox_proofs` | theorems about `Outbox` |
| `Lifecycle` | abstract specification of a deployment record |
| `Deployment` | publication, BullMQ, Redis leases, worker, API, reconciler, composed |
| `MCDeployment` + `MCDeployment*.cfg` | instances for TLC |
| `Deployment_proofs` | theorems about `Deployment` |
| `JobQueue` | a BullMQ queue as the next three use it: lock, retry, stalled check |
| `Notification`, `MCNotification` + 2 cfg, `Notification_proofs` | delivery of notifications |
| `Backup`, `MCBackup` + cfg, `Backup_proofs`, `Retention_proofs` | the runs of one backup schedule; the lock; what retention keeps |
| `Migration`, `MCMigration` + 2 cfg, `Migration_proofs`, `Placement_proofs` | the migration of one application; lease and status; placement and services |

### Outbox

A row's timestamps are counters of ticks that run down: `availableIn` for
`available_at`, `leaseLeft` for `claimed_at` plus the lease. `ClaimBatch` is one
SQL statement and one action; its set `S` stands for limit, order and
`SKIP LOCKED`. `publishBatch` is split at its awaits: `BeginPublish` (payload
check, marker), `AddJob` / `AddJobFails` (the job may or may not have arrived),
`MarkPublished`, `MarkPublishedThrows`, `MarkFailed`, `AbandonBatch` (a crash, or
a failing `markFailed`). `prunePublished` is two statements and two actions.
`ClaimStamp` is what the publisher passes as `claimedAt`: nothing, because
`claimBatch` returns raw rows with the key `claimed_at`. `handed` and `withdrawn`
are history variables.

### Deployment

One action per await-to-await step of `processJob`; `pc` says where a slot is.

| `pc` | code |
| --- | --- |
| `took` | before `ResourceLock.acquire` |
| `locked` | lock taken, scope being created |
| `found` | row read, not terminal |
| `running` | row claimed, pipeline |
| `catch` | start of the catch block |
| `failing` | marker read, outcome not yet recorded |
| `closing` | finally block, before the marker is deleted |
| `release` | before `resourceLock.release` |

A slot executes one job at a time, so its name stands for the random tokens of
that execution. `token`, `attempt` and `age` are the lease columns of the row;
`age` counts ticks since the heartbeat. `lock` is the Redis key, `leaked` the
resources whose key a timer of a finished execution keeps renewing. `claimed`,
`lockLost`, `leaseLost`, `sawCancel` and `throws` are the local variables of
`processJob` and `ResourceLock`. `paused`, `claimant` and `accepted` are history.
API requests and the reconciler have their own program counters, so they interleave
with the workers at every await.

Faults are bounded by `MaxFaults` and chosen by `FaultKinds`: `crash` (the process
dies), `freeze` (it is suspended or cut off and may come back), `redis` (a lock
operation times out), `db` (a query of the worker fails), `leak` (an error where
the code releases nothing), `ttl` (the marker expires after an hour).

Abstractions:

- the pipeline (build, deploy, health check, routing) is one step that succeeds or
  fails; a killed build is one way to fail;
- publication is `pending`, `checked`, `published`, with lost acknowledgements and
  takeovers as loops; the full protocol is `Outbox`;
- one API request is served at a time, and it fails half-way only where `job.remove`
  throws: looking the job up and removing it are separate steps (`CancelLookup`,
  `KillBuild`, then `JobRemove`), and the job may become active in between;
- the reconciler handles one candidate per pass, and a pass is shorter than a
  tick; a tick is longer than a heartbeat interval;
- `retryDeployment` queues a new row, so it is `QueueDeployment` of another id;
- delayed jobs are waiting jobs: BullMQ's delays are not timed;
- previews and the desktop's in-process mode are left out.

### JobQueue

Operators for the steps of a queue, conjoined with the worker's own steps by the
modules below. A job is delivered under a lock that its slot renews (`holder`). When
the slot dies (`JobDropped`) or is suspended, the stalled check (`JobFoundSilent`)
makes the job pending again, up to `MaxStalledCount` times; a slot that lost the
lock can no longer complete or retry the job. The outbox hands over every command
(module `Outbox`), so a job is pending as soon as its transaction commits.

### Notification

`pc` follows `DeliverNotificationUseCase.execute`: `claim`, `channel`, `send`,
`record`, `catch`. `stamp` is `processing_started_at`, named by the worker that
wrote it, `stale` says that it is more than five minutes old. `view` is the
operator's read of the row before the retry's transaction: `fresh` until some write
moves `updated_at`. Faults: `crash`, `stall` (BullMQ redelivers the job of a
suspended worker), `slow` (the claim grows old under a living worker), `db`,
`reply` (the provider took the message but its answer was lost). `sends` and
`abandoned` are history.

### Backup

One schedule; runs are numbered in order of creation, an object is named by its run
and the number of the upload. `pc` follows `createBackupRunHandler` and, from `check`
to `forget`, `ExecuteBackupRunUseCase`. Rows, lock and storage are written by id or
by run, not by token, as in the code. While a worker lives its timer renews row and
lock, so they run out by themselves only when nobody is at work; a suspension
(`freeze`) or a backlog lets the lock run out otherwise. A request to delete the
schedule counts as a fault, for the bound's sake; failing dumps, verifications and
deletions are ordinary (`MaxFailures`). Between a trigger's lock and its
transaction less than the lock's six hours pass.

### Migration

One migration; `Job` is the request's job, that of the operator's rollback, and that
of a process start, and their ids are the tokens. `pc` is `top` at the head of the
loop of `execute` and `step` in its switch, where `seen` (the status as read) selects
the case; the other values are the awaits inside a case, `cancel`, the catch block
and `fail`. `services` is the set of servers that run the application. The heartbeat
is written by the steps only, so it may be older than five minutes at any time
(`Lapsed`). The operator's requests read and write in separate steps: under READ
COMMITTED a transaction does not lock what it reads. A request may end half-way
where that matters: `ConfirmFails` is the confirmation whose second transaction fails
after the source was removed.

Services are removed by `DockerService.removeResource`, which has four outcomes
(`RemoveResource`): it returns or throws, with the service gone or not. It returns
with the service still there when `service.remove()` fails with an error other than
404, which is only logged, and it throws with the service gone when the wait for the
containers does. `misreported` holds the servers whose last removal ended in one of
these two ways. Whether it returned is all a caller knows: a rollback goes on to the
placement (`Place`, which may fail on its own, `PlaceFails`) or is tried once more
from the catch block (`Undo`, `UndoFails`).

`usurped`, `raced`, `astray`, `misreported` and `starved` are history and name the
exceptions of the properties.

Left out: the routes of the proxies, the preflight's checks other than the absence of
the service on the target (they are one nondeterministic failure), deletion of the
resource during its migration.

## 3. Runs

| Run | Instance | Shows |
| --- | --- | --- |
| `outbox` | a deployment command and a malformed one, 2 publishers, 2 attempts, 1 fault, fair; 280 k states | `AckedMeansHanded`, `DeadLetterIsEarned`, `ImplementsHandoff`, `EveryCommandSettles`, `TypeOK` |
| `outbox_fence` | 2 well-formed commands, batches of 1 | `SupersededMarkIsIgnored` fails |
| `deployment` | 1 deployment, 2 slots, 2 attempts, 1 fault of any kind, 1 request; 1.9 M states | `OnlyLatestClaimantSettles`, `HealthyNeverStale`, `ImplementsLifecycle`, `TypeOK` |
| `deployment_shared` | 2 deployments of 1 resource, 2 slots, freeze or Redis fault; 2 M states | `Exclusion` |
| `deployment_live` | 1 deployment, 2 slots, 1 crash, 1 request, fair | `EveryDeploymentEnds`, `EveryLockIsReleased` |
| `deployment_lost_retry` | 1 suspension, fair | `EveryRetryHappens` fails |
| `deployment_cancel` | 1 request, no fault | `AcceptedCancellationHolds` fails |
| `notification` | 1 delivery, 2 jobs, 2 workers, 2 attempts, 2 faults, fair; 216 k states | `DuplicateNeedsFault`, `AttemptsBounded`, `DeliveredIsFinal`, `EndsUnlessAbandoned`, `TypeOK` |
| `notification_crash` | 1 delivery, 1 job, 1 crash, fair | `EveryDeliveryEnds` fails |
| `backup` | 2 runs, 2 workers, retention 1, 1 recovery, 2 failures, 1 fault, fair; 430 k states | `OneBackupAtATime`, `RetainedBackupsExist`, `FinishedRunFreesLock`, `EveryRunEnds`, `TypeOK` |
| `migration` | 2 workers, 3 jobs, 2 requests, 1 fault of any kind, fair; 1.2 M states | `ServedWherePlaced`, `SettledAsRecorded`, `TerminalIsFinal`, `StatusFollowsTable`, `EveryMigrationSettles`, `TypeOK` |
| `migration_rollback` | 2 workers, 2 requests, no fault | `RollbackServes` fails |

Bounds. Two slots are what it takes for a zombie and its successor; two attempts
have a first, a last and a retry; thresholds of one or two ticks distinguish
fresh, claimable, stale and candidate heartbeats, in the order the code's defaults
have (30 minutes for a takeover, a day for the reconciler). One fault reaches each
hazard listed; the theorems below need no bound. Slots are interchangeable, so the
safety runs of `Deployment` use symmetry; runs with liveness do not. In `outbox` a
claim lasts one tick (`Lease = 0` is the tick in which it was taken), which is enough
for it to run out, or not, between any two steps; a command of another kind takes
the path of a deployment command without marker. In `notification` the second job
is the operator's retry and two faults let a duplicate be followed by another; in
`backup` two runs and a retention of one make the second run prune the first. Apart
from the outbox's, the runs do not check deadlock: the system rests once all work is
done.

### What the violations show

- `outbox_fence`: `markPublished` and `markFailed` test `claimed_at` only when
  they get a stamp, and they never do. A publisher whose lease ran out changes
  the row of its successor. The other outbox properties hold all the same: the
  price is a second publication, an early retry or a dead letter of a command that
  is being published.
- `deployment_lost_retry`: a slot is suspended while it runs; BullMQ gives the job
  to another slot, which cannot claim the row and completes the job; the first
  slot comes back, fails, records `retrying`, and there is no job left. The
  reconciler only looks at `running`.
- `deployment_cancel`: the marker set between the catch block's read and the
  finally block's delete is lost, and the deployment is executed again.
- `notification_crash`: the worker dies after its claim; BullMQ redelivers the job
  within a minute; the claim is younger than five minutes, so `claimForDelivery`
  returns nothing and the use case returns; the job is complete. The row stays
  `processing`, which the operator's retry refuses.
- `migration_rollback`: the shadow is removed and the wait for its containers throws
  in the catch block, which therefore skips the placement. The migration has failed,
  the source runs, and the resource is placed on the target, where nothing runs. This
  needs no crash and no failing write: an error of a Docker call is an ordinary
  outcome of the step. `RollbackServes` is broken in another way too: the confirmation
  removes the source's service before it records anything, so when that removal throws
  after the service is gone, when the second transaction fails, or in between, the
  operator's rollback is accepted and removes the target's service as well.

### What the exceptions in the properties say

A property of a passing run excludes what the code does not promise, and no more:

- `DuplicateNeedsFault`, `AttemptsBounded`: one more for each fault;
  `EndsUnlessAbandoned`: unless a worker died, or could not write, on this delivery
  (a claim that could not be written counts on the job's last attempt only).
- `OneBackupAtATime`: no suspended process and no recovered run. A recovery gives the
  run a second job; the first one's final attempt releases the run's lock although
  the second one is at work. `RetainedBackupsExist` holds with recoveries as long as
  no two workers have been at work at once, and no run was claimed from a worker that
  was still at it: a worker that comes back from a suspension may prune on the
  strength of its own backup, whose row the other claimant then marks failed. `FinishedRunFreesLock` is for the case
  without faults: a crash, or a failing release after a success, leaves the lock to
  its six hours. `EveryRunEnds`: a run may stay `running` or `queued` if it lost an
  attempt before its backup began, since such attempts use up the job but not the
  row.
- `StatusFollowsTable`, `TerminalIsFinal`: `usurped` is a lease taken from, or shared
  with, a living worker; `raced` is a rollback that met a confirmation or a row that
  had ended since the operator's read. `ServedWherePlaced` excludes both, and
  `astray`: a shadow removed although the row shows no rollback; a rollback that begins
  when the source is already gone; and a shadow removed for a
  placement that never came, because the last removal threw (`migration_rollback`), the
  write failed, or the worker died before it and had no lease left for a successor to
  take over. A removal that throws once, and a confirmation that failed and was followed
  by nothing, are not excluded. `SettledAsRecorded` is for the case without faults; it
  allows a difference only on a server whose last removal was misreported: with the error
  of `service.remove()` only logged, a cancelled migration may leave its shadow and a
  completed one its source. The other server, the placement and the deployment record
  are as recorded all the same.
- The reconciler's query has a fixed cutoff of a day, so `staleAfterSeconds` below a
  day has no effect. `CandidateAge` and `StaleAfter` are separate constants, and
  `HealthyNeverStale` is proved for all their values.

## 4. Fairness

Outbox: publishers poll every second and their calls have timeouts
(`PublisherStep`, weak); a claimable row is not passed over for ever because
`ORDER BY available_at` puts it first (`Claims`, strong, since other claims may
interrupt it); time passes. Nothing is assumed of Redis accepting jobs.

Deployment: publishers, slots (a build ends or is killed by its timeouts), the
heartbeat timer, BullMQ's stalled check, Redis' expiry, API handlers, the
reconciler's timer and the clock go on (all weak). Nobody has to queue, cancel,
evict, fail, crash or come back from a suspension.

Notification, Backup, Migration: workers go on with what they do (sends, dumps and
Docker calls have timeouts, so each step ends), a pending job is taken by some slot,
the stalled check finds the jobs of dead slots, a claim or a heartbeat nobody renews
grows old, and the recovery timer runs (all weak, per worker, job and row; for
`Migration` it is enough that some worker, slot or check goes on while any can, since
attempts, redeliveries and steps are bounded). Nobody
has to trigger, retry, cancel, confirm, delete or start anything, and no fault has
to happen.

## 5. What is proved

For every number of messages, publishers, deployments, slots, faults and requests,
from the assumptions on constants named in the modules:

- `Outbox_proofs`: `OutboxInv` is inductive. It adds to the properties that a
  publisher works only on rows that exist (`WorkIsAccepted`), that it reaches the
  acknowledgement only through the queue or a marker (`AckIsEarned`), and that the
  ids the retention job selected are still published (`PruneSetIsPublished`):
  without these the properties are true but not inductive. From it follow
  `OutboxTypes`, `AcknowledgedOnlyAfterHandOver`, `DeadLettersAreEarned` and
  the refinement `OutboxImplementsHandoff`.
- `Deployment_proofs`: `DeploymentInv` is inductive. Its parts are the reasons for
  the properties: an execution beyond doubt holds the key (`HolderIsKnown`) gives
  `LockExcludes`; a running row carries the token of its latest claimant
  (`TokenIsClaimants`) gives `TokensFenceZombies`; the heartbeat of an execution
  that was never suspended is at most a tick old (`FreshWhileHealthy`) gives
  `ReconcilerSparesHealthy`; nothing refers to a row not yet written
  (`NothingBeforeTheRow`) is what `DeploymentImplementsLifecycle` needs.

- `Notification_proofs`: `NotificationInv` is inductive. A claim spends a message
  and an attempt; `MessageLeft` says that an open or dead delivery, or one whose
  claimant is about to record a failure, has its message left unless a fault paid for
  it, and counts the workers that may still send with `Cardinality`; `AttemptLeft`
  says the same of attempts, for which the claimant's copy must be the row's
  (`ClaimantCounts`). From it `DuplicatesNeedFaults`, `AttemptsStayBounded`,
  `DeliveredStays` and `TypeCorrect`.
- `Backup_proofs`: `BackupInv` is inductive. A working slot's run has the schedule's
  lock (`WorkingHoldsLock`), so two working slots have the same run, so the same job,
  as without recoveries there is one (`NoJobBeyondRecovery`), and a job has one
  holder (`BusyHoldsJob`, `HeldIsActive`): `BackupsApart`. `NoJobBeforeRun` is needed
  because a lock may run out and be taken before its run exists.
  `FinishedRunsFreeLock` needs `QuietInv`, what is true until the first fault: one run
  at a time has anything left to do and the lock is its own (`LockServesLive`), a
  running row has its worker (`RunningIsExecuted`), a waiting job can have its row
  (`PendingIsClaimable`), and the worker knows the status of its run and whether the
  attempt is the last (`KnowsItsRun`), which is when it gives the lock back.
- `Retention_proofs`: `RetainedBackupsStay`, for every retention count and any
  faults. The success of a run is `Settled` when its row names a file, its worker
  cannot fail any more and nobody is about to delete it; a run is `Covered` when
  `Retention` newer ones are settled, and covered runs stay covered (`CoveredStays`).
  The invariant says that a succeeded run whose file is gone is covered
  (`LostIsCovered`), and so is each run a retention pass is about to delete
  (`VictimIsCovered`). For the pass itself (`ListCovers`): the runs it spares are newer
  than all it found expired, and they are settled, since the worker that lists is the
  only one at work (`SoleWorker`). The newest of a set of runs is a minimum of a
  well-founded relation, cited from the library as a fact about sets.
- `Migration_proofs`: `MigrationInv` is inductive. What the holder of the lease has
  read of the status is still true (`HolderKnowsStatus`), because no two slots
  execute one job (`SoleExecutor`) and the operator's rollback clears the token; what
  the operator read still allows the rollback or the row has ended
  (`RollbackStillDue`): `StatusFollowsTableHolds` and `TerminalIsFinalHolds`.
- `Placement_proofs`: `ServedWherePlacedHolds`, for any number of faults, from
  `PlacementInv`. A worker loses its lease only to a rollback or to the end
  (`LostLeaseIsLate`), so whoever still acts without one acts within a rollback; the
  placement follows the status (`PlacedByStatus`) and goes back only within a rollback
  (`PlacesInRollback`); the shadow is removed only in a rollback (`UndoneInRollback`)
  and the source's service only for a placement on the target, and no rollback begins
  after that but one that counts as `astray` (`SourceGivenUpForTarget`); the row leaves
  `rolling-back` only where the application is served (`RollbackEndsServed`). The
  outcomes of a removal need no case of their own in these parts: what matters is
  whether the service is gone when the rollback ends, not what was reported.
  `SettledAsRecordedHolds` adds `JobsAreKept` (without faults slots and active jobs
  are paired), `ShadowAsReported` (a service left on the target by a cancellation was
  reported as removed) and `CourseInv`: until it is rolled back, a migration is executed
  by one worker, whose position says which servers run the application (`OnCourse`).

Each preservation lemma has one step per action, or per group of actions that
leave its variables alone.

## 6. Only model-checked

The liveness properties (temporal reasoning under fairness is outside the prover):
`EveryCommandSettles`, `EveryDeploymentEnds`, `EveryLockIsReleased`,
`EndsUnlessAbandoned`, `EveryRunEnds`, `EveryMigrationSettles`; and the properties that
are violated. Every invariant and every action property of the passing runs is
proved. The finite instances are those of section 3; the inductive invariants were
checked on them first, and `RetentionInv`, `PlacementInv` and `CourseInv` on instances
with two faults besides. Those refuted earlier forms of `RetainedBackupsExist` and
`ServedWherePlaced` that hold for one fault: the claim of a run from a living worker,
and the death of a worker without lease before its placement, are the exceptions they
added.

## 7. Plan

1. Outbox, deployment core (done).
2. Notification delivery, backup runs, workload migration (done).
3. Proofs of every invariant and action property of the passing runs (done).
4. Failing API requests (between `job.remove` and the database update) and
   resource status as a property of its own: which deployment may set it.
5. `WorkerManager` recovery in the schedules process; restore of a backup.

## 8. Not modelled

`WorkerManager`'s own start and restart, restoring a backup and editing a schedule
are in the plan.
Autoscaling, Docker cleanup and the Docker broker act on Docker, whose state is not
this program's. Control-plane transfer, secrets and configuration are conversions
and storage. Authentication, SCIM and rate limits filter requests. The desktop
application runs one process with in-process queue and locks. The web interface,
the CLI and the documentation site are clients. The build pipeline itself
(Dockerfile, Nixpacks, registries, Caddy routing) is abstracted to its outcome, and
so are dump, upload and verification of a backup and the preflight and validation of
a migration.
