------------------------------- MODULE Backup -------------------------------
(***************************************************************************)
(* The backup runs of one schedule: the trigger that takes the schedule's  *)
(* Redis lock and creates the run, the workers that claim a run, dump,     *)
(* upload, verify and prune, the recovery of runs whose worker went        *)
(* silent, and the deletion of the schedule.                               *)
(*                                                                         *)
(* Runs are numbered in the order of their creation.  An object in storage *)
(* is named by its run and the number of the upload, since every upload    *)
(* has a key of its own.  While a worker is alive its timer renews the     *)
(* lock and the row every minute, so that neither runs out by itself; both *)
(* run out when nobody is at work, and under a process that is suspended.  *)
(***************************************************************************)
EXTENDS Integers, FiniteSets, FiniteSetsExt

CONSTANTS
  MaxRuns,          \* bound on the runs of the schedule
  Worker,           \* worker slots of the backup queue
  None,             \* stands for NULL
  Retention,        \* schedule.retentionCount, 0 for none
  Verification,     \* schedule.restoreVerification
  JobAttempts,      \* attempts of one BullMQ job
  MaxStalledCount,  \* redeliveries of a silent job before BullMQ fails it
  MaxRecoveries,    \* bound on recoveries of one run
  MaxFailures,      \* bound on dumps, verifications and deletions that fail
  FaultKinds,       \* of "crash", "freeze", "backlog", "db", "redis", "delete"
  MaxFaults         \* bound on faults and requests to delete the schedule

ASSUME BackupAssumption ==
  /\ MaxRuns \in Nat
  /\ None # {}
  /\ None \notin Worker
  /\ None \notin 1 .. MaxRuns
  /\ None \notin (1 .. MaxRuns) \X (0 .. MaxRecoveries)
  /\ Retention \in Nat
  /\ Verification \in BOOLEAN
  /\ JobAttempts \in Nat \ {0}
  /\ MaxStalledCount \in Nat
  /\ MaxRecoveries \in Nat
  /\ MaxFailures \in Nat
  /\ MaxFaults \in Nat

VARIABLES
  schedule,   \* the backup_schedule row exists
  lock,       \* the Redis lock of the schedule: the run that holds it
  trigger,    \* the run a trigger holds the lock for and has not created yet
  status,     \* backup_run.status, "absent" or "deleted" for no row
  stale,      \* runs whose updated_at is more than five minutes old
  fileKey,    \* backup_run.file_key: the number of the upload, 0 for NULL
  storage,    \* the objects in the destination
  uploads,    \* uploads made for each run
  recovered,  \* recovery commands created for each run
  jobState, tries, stalls, holder,  \* BullMQ: module JobQueue
  pc,         \* where each worker is in createBackupRunHandler
  job,        \* the job it works on
  last,       \* its job is at its final attempt
  owns,       \* ownsExecution
  file,       \* the upload it made
  victims,    \* expired objects its retention pass has still to delete
  deleting,   \* objects the schedule's deletion has still to delete, or None
  failures,   \* ordinary failures of a step so far
  faults,     \* faults so far
  frozen,     \* history: some process was suspended under its leases
  dismantled, \* history: the deletion of the schedule has begun
  overlapped, \* history: two workers were at work at once, or at one run
  starved     \* history: runs that lost an attempt before the backup began

Run == 1 .. MaxRuns
\* The job of the trigger and those of the recoveries.
Job == Run \X (0 .. MaxRecoveries)

INSTANCE JobQueue WITH Slot <- Worker

runVars == <<status, stale, fileKey>>
jobVars == <<jobState, tries, stalls, holder>>
workerVars == <<pc, job, last, owns, file, victims>>
deletionVars == <<deleting, dismantled>>
historyVars == <<frozen, overlapped, starved>>
vars == <<schedule, lock, trigger, runVars, storage, uploads, recovered,
          jobVars, workerVars, deletionVars, failures, faults, historyVars>>

Status == {"absent", "queued", "running", "succeeded", "failed", "deleted"}
Control == {"idle", "find", "claim", "lock", "check", "dump", "store",
            "verify", "list", "prune", "forget", "release", "catch", "throw"}

\* The renewal timer runs in these states, and the lock has been ensured.
Working == {"check", "dump", "store", "verify", "list", "prune", "forget",
            "release", "catch"}

\* The run worker w is busy with.
At(w) == job[w][1]

\* Some worker keeps run r alive.
Attended(r) ==
  \E w \in Worker : pc[w] \in Working \union {"lock"} /\ At(w) = r

-----------------------------------------------------------------------------
Init ==
  /\ schedule = TRUE
  /\ lock = None
  /\ trigger = None
  /\ status = [r \in Run |-> "absent"]
  /\ stale = {}
  /\ fileKey = [r \in Run |-> 0]
  /\ storage = {}
  /\ uploads = [r \in Run |-> 0]
  /\ recovered = [r \in Run |-> 0]
  /\ QueueInit
  /\ pc = [w \in Worker |-> "idle"]
  /\ job = [w \in Worker |-> None]
  /\ last = [w \in Worker |-> FALSE]
  /\ owns = [w \in Worker |-> FALSE]
  /\ file = [w \in Worker |-> 0]
  /\ victims = [w \in Worker |-> {}]
  /\ deleting = None
  /\ failures = 0
  /\ faults = 0
  /\ frozen = FALSE
  /\ dismantled = FALSE
  /\ overlapped = FALSE
  /\ starved = {}

\* A fault of kind k, or the request to delete the schedule, while the bound
\* allows one.
Fault(k) ==
  /\ k \in FaultKinds
  /\ faults < MaxFaults
  /\ faults' = faults + 1

\* An ordinary failure of a step, while the bound allows one.
Failure ==
  /\ failures < MaxFailures
  /\ failures' = failures + 1

\* The backup_run row is there.
RowExists(r) == status[r] \notin {"absent", "deleted"}

\* Leaving a job without forgetting it.
LeaveWithJob(w) ==
  /\ pc' = [pc EXCEPT ![w] = "idle"]
  /\ last' = [last EXCEPT ![w] = FALSE]
  /\ owns' = [owns EXCEPT ![w] = FALSE]
  /\ file' = [file EXCEPT ![w] = 0]
  /\ victims' = [victims EXCEPT ![w] = {}]
  /\ UNCHANGED job

\* Slot w is done with its job.
Leave(w) ==
  /\ pc' = [pc EXCEPT ![w] = "idle"]
  /\ job' = [job EXCEPT ![w] = None]
  /\ last' = [last EXCEPT ![w] = FALSE]
  /\ owns' = [owns EXCEPT ![w] = FALSE]
  /\ file' = [file EXCEPT ![w] = 0]
  /\ victims' = [victims EXCEPT ![w] = {}]

\* Slot w goes on to c with what it has in hand.
GoTo(w, c) ==
  /\ pc' = [pc EXCEPT ![w] = c]
  /\ UNCHANGED <<job, last, owns, file, victims>>

(***************************************************************************)
(* The lock of the schedule.                                               *)
(***************************************************************************)

\* releaseBackupRunLock: compare and delete.
ReleaseLock(r) == lock' = IF lock = r THEN None ELSE lock

\* Run r has something left to do: its trigger, a job or a running row.
Live(r) ==
  \/ trigger = r
  \/ status[r] = "running"
  \/ \E j \in Job : j[1] = r /\ jobState[j] \in {"pending", "active"}

\* The lock is not renewed for six hours: under a suspended worker, before a
\* backlogged run begins, or by itself once nothing is left of its run.
LockExpires ==
  /\ lock # None
  /\ \/ Attended(lock) /\ Fault("freeze") /\ frozen' = TRUE
     \/ ~Attended(lock) /\ Live(lock) /\ Fault("backlog") /\ UNCHANGED frozen
     \/ ~Attended(lock) /\ ~Live(lock) /\ UNCHANGED <<faults, frozen>>
  /\ lock' = None
  /\ UNCHANGED <<schedule, trigger, runVars, storage, uploads, recovered,
                 jobVars, workerVars, deletionVars, overlapped, starved,
                 failures>>

(***************************************************************************)
(* TriggerBackupRunUseCase.                                                *)
(***************************************************************************)

\* A cron tick or a user triggers the schedule: acquireBackupRunLock.  When
\* the lock is taken, nothing happens; so one trigger at a time is between the
\* lock and its transaction.
Trigger(r) ==
  /\ schedule
  /\ trigger = None
  /\ status[r] = "absent"
  /\ \A q \in Run : q < r => status[q] # "absent"
  /\ lock = None
  /\ lock' = r
  /\ trigger' = r
  /\ UNCHANGED <<schedule, runVars, storage, uploads, recovered, jobVars,
                 workerVars, deletionVars, faults, historyVars, failures>>

\* The run and its outbox command, in one transaction.
CreateRun ==
  /\ trigger # None
  /\ schedule
  /\ status' = [status EXCEPT ![trigger] = "queued"]
  /\ JobAdded(<<trigger, 0>>)
  /\ trigger' = None
  /\ UNCHANGED <<schedule, lock, stale, fileKey, storage, uploads, recovered,
                 workerVars, deletionVars, faults, historyVars, failures>>

\* The transaction fails, as it must once the schedule is gone.
CreateRunFails ==
  /\ trigger # None
  /\ \/ ~schedule /\ UNCHANGED faults
     \/ schedule /\ Fault("db")
  /\ ReleaseLock(trigger)
  /\ trigger' = None
  /\ UNCHANGED <<schedule, runVars, storage, uploads, recovered, jobVars,
                 workerVars, deletionVars, historyVars, failures>>

\* The process dies between the lock and the transaction: the lock stays.
TriggerCrash ==
  /\ trigger # None
  /\ Fault("crash")
  /\ trigger' = None
  /\ UNCHANGED <<schedule, lock, runVars, storage, uploads, recovered,
                 jobVars, workerVars, deletionVars, historyVars, failures>>

(***************************************************************************)
(* The queue, and processes that die.                                      *)
(***************************************************************************)

\* A free slot takes a job and sees how many attempts it has had.
Take(w, j) ==
  /\ pc[w] = "idle"
  /\ JobTaken(w, j)
  /\ pc' = [pc EXCEPT ![w] = "find"]
  /\ job' = [job EXCEPT ![w] = j]
  /\ last' = [last EXCEPT ![w] = FinalAttempt(j)]
  /\ UNCHANGED <<schedule, lock, trigger, runVars, storage, uploads,
                 recovered, owns, file, victims, deletionVars, faults,
                 historyVars, failures>>

\* The stalled check finds the lock of an active job expired.
JobStalls(j) ==
  /\ JobFoundSilent(j)
  /\ \/ holder[j] = None /\ UNCHANGED <<faults, frozen>>
     \/ holder[j] # None /\ Fault("freeze") /\ frozen' = TRUE
  /\ UNCHANGED <<schedule, lock, trigger, runVars, storage, uploads,
                 recovered, workerVars, deletionVars, overlapped, starved,
                 failures>>

\* The process of slot w dies.
Crash(w) ==
  /\ pc[w] # "idle"
  /\ Fault("crash")
  /\ JobDropped(w, job[w])
  /\ Leave(w)
  /\ starved' = IF owns[w] THEN starved ELSE starved \union {At(w)}
  /\ UNCHANGED <<schedule, lock, trigger, runVars, storage, uploads,
                 recovered, deletionVars, frozen, overlapped, failures>>

(***************************************************************************)
(* createBackupRunHandler up to the execution of the run.                  *)
(***************************************************************************)

\* The run is there and not finished.
Find(w) ==
  /\ pc[w] = "find"
  /\ status[At(w)] \in {"queued", "running", "failed"}
  /\ GoTo(w, "claim")
  /\ UNCHANGED <<schedule, lock, trigger, runVars, storage, uploads,
                 recovered, jobVars, deletionVars, faults, historyVars,
                 failures>>

\* A run that has succeeded is done: the handler returns.
FindSucceeded(w) ==
  /\ pc[w] = "find"
  /\ status[At(w)] = "succeeded"
  /\ JobReturns(w, job[w])
  /\ Leave(w)
  /\ UNCHANGED <<schedule, lock, trigger, runVars, storage, uploads,
                 recovered, deletionVars, faults, historyVars, failures>>

\* The run is gone, or the query fails.
FindFails(w) ==
  /\ pc[w] = "find"
  /\ \/ ~RowExists(At(w)) /\ UNCHANGED <<faults, starved>>
     \/ Fault("db") /\ starved' = starved \union {At(w)}
  /\ GoTo(w, "throw")
  /\ UNCHANGED <<schedule, lock, trigger, runVars, storage, uploads,
                 recovered, jobVars, deletionVars, frozen, overlapped,
                 failures>>

\* The WHERE clause of claimForExecution.
Claimable(r) ==
  \/ status[r] \in {"queued", "failed"}
  \/ status[r] = "running" /\ r \in stale

\* claimForExecution succeeds: this worker owns the execution.
Claim(w) ==
  /\ pc[w] = "claim"
  /\ Claimable(At(w))
  /\ status' = [status EXCEPT ![At(w)] = "running"]
  /\ stale' = stale \ {At(w)}
  /\ owns' = [owns EXCEPT ![w] = TRUE]
  /\ pc' = [pc EXCEPT ![w] = "lock"]
  /\ overlapped' = (overlapped \/ Attended(At(w)))
  /\ UNCHANGED <<schedule, lock, trigger, fileKey, storage, uploads,
                 recovered, jobVars, job, last, file, victims, deletionVars,
                 faults, frozen, starved, failures>>

\* Another worker has the run: throw, so that BullMQ tries again later.
ClaimRefused(w) ==
  /\ pc[w] = "claim"
  /\ \/ ~Claimable(At(w)) /\ UNCHANGED <<faults, starved>>
     \/ Fault("db") /\ starved' = starved \union {At(w)}
  /\ GoTo(w, "throw")
  /\ UNCHANGED <<schedule, lock, trigger, runVars, storage, uploads,
                 recovered, jobVars, deletionVars, frozen, overlapped,
                 failures>>

\* Going on without looking at the lock.
EnsureNothing(w) == TRUE

\* ensureBackupRunLock: the lock is the run's, or free and then taken.
LockEnsured(w) == lock \in {At(w), None}

\* The schedule's lock is the run's.
EnsureLock(w) ==
  /\ pc[w] = "lock"
  /\ LockEnsured(w)
  /\ lock' = At(w)
  /\ GoTo(w, "check")
  /\ overlapped' = (overlapped \/ \E v \in Worker : pc[v] \in Working)
  /\ UNCHANGED <<schedule, trigger, runVars, storage, uploads, recovered,
                 jobVars, deletionVars, faults, frozen, starved, failures>>

\* Another run has the lock, or Redis fails: the row stays running.
EnsureLockFails(w) ==
  /\ pc[w] = "lock"
  /\ \/ ~LockEnsured(w) /\ UNCHANGED faults
     \/ Fault("redis")
  /\ starved' = starved \union {At(w)}
  /\ GoTo(w, "throw")
  /\ UNCHANGED <<schedule, lock, trigger, runVars, storage, uploads,
                 recovered, jobVars, deletionVars, frozen, overlapped,
                 failures>>

\* The row has not been touched for five minutes.
RowGoesStale(r) ==
  /\ status[r] = "running"
  /\ r \notin stale
  /\ \/ Attended(r) /\ Fault("freeze") /\ frozen' = TRUE
     \/ ~Attended(r) /\ UNCHANGED <<faults, frozen>>
  /\ stale' = stale \union {r}
  /\ UNCHANGED <<schedule, lock, trigger, status, fileKey, storage, uploads,
                 recovered, jobVars, workerVars, deletionVars, overlapped,
                 starved, failures>>

\* heartbeatExecution of a worker that has come back.
Heartbeat(w) ==
  /\ pc[w] \in Working
  /\ At(w) \in stale
  /\ stale' = stale \ {At(w)}
  /\ UNCHANGED <<schedule, lock, trigger, status, fileKey, storage, uploads,
                 recovered, jobVars, workerVars, deletionVars, faults,
                 historyVars, failures>>

\* A recovery that forgets the outbox command.
RecoverWithoutCommand(r) ==
  /\ status[r] = "running"
  /\ r \in stale
  /\ recovered[r] < MaxRecoveries
  /\ status' = [status EXCEPT ![r] = "queued"]
  /\ stale' = stale \ {r}
  /\ recovered' = [recovered EXCEPT ![r] = @ + 1]
  /\ UNCHANGED <<schedule, lock, trigger, fileKey, storage, uploads, jobVars,
                 workerVars, deletionVars, faults, historyVars, failures>>

\* recoverStaleBackupRuns: requeueStaleForRecovery and a new outbox command,
\* in one transaction.
RecoverStale(r) ==
  /\ status[r] = "running"
  /\ r \in stale
  /\ recovered[r] < MaxRecoveries
  /\ status' = [status EXCEPT ![r] = "queued"]
  /\ stale' = stale \ {r}
  /\ recovered' = [recovered EXCEPT ![r] = @ + 1]
  /\ JobAdded(<<r, recovered[r] + 1>>)
  /\ UNCHANGED <<schedule, lock, trigger, fileKey, storage, uploads,
                 workerVars, deletionVars, faults, historyVars, failures>>

(***************************************************************************)
(* ExecuteBackupRunUseCase.execute.                                        *)
(***************************************************************************)

\* updateById with status s: whoever has the row, as long as it exists.
UpdateRun(r, s) ==
  /\ status' = [status EXCEPT ![r] = IF RowExists(r) THEN s ELSE @]
  /\ stale' = stale \ {r}

\* Schedule, resource, destination and organization are in order.
Check(w) ==
  /\ pc[w] = "check"
  /\ schedule
  /\ GoTo(w, "dump")
  /\ UNCHANGED <<schedule, lock, trigger, runVars, storage, uploads,
                 recovered, jobVars, deletionVars, faults, historyVars,
                 failures>>

\* failBeforeExecution; or a query fails and the row stays running.
CheckFails(w) ==
  /\ pc[w] = "check"
  /\ \/ /\ UpdateRun(At(w), "failed")
        /\ (~schedule /\ UNCHANGED failures) \/ Failure
        /\ UNCHANGED faults
     \/ Fault("db") /\ UNCHANGED <<status, stale, failures>>
  /\ GoTo(w, "throw")
  /\ UNCHANGED <<schedule, lock, trigger, fileKey, storage, uploads,
                 recovered, jobVars, deletionVars, historyVars>>

\* createBackup: a new object is uploaded.
Dump(w) ==
  LET n == uploads[At(w)] + 1
  IN  /\ pc[w] = "dump"
      /\ storage' = storage \union {<<At(w), n>>}
      /\ uploads' = [uploads EXCEPT ![At(w)] = n]
      /\ file' = [file EXCEPT ![w] = n]
      /\ pc' = [pc EXCEPT ![w] = "store"]
      /\ UNCHANGED <<schedule, lock, trigger, runVars, recovered, jobVars,
                     job, last, owns, victims, deletionVars, faults,
                     historyVars, failures>>

\* createBackup throws.
DumpFails(w) ==
  /\ pc[w] = "dump"
  /\ Failure
  /\ GoTo(w, "catch")
  /\ UNCHANGED <<schedule, lock, trigger, runVars, storage, uploads,
                 recovered, jobVars, deletionVars, faults, historyVars>>

\* The run is recorded as succeeded with its file.
Store(w) ==
  /\ pc[w] = "store"
  /\ RowExists(At(w))
  /\ UpdateRun(At(w), "succeeded")
  /\ fileKey' = [fileKey EXCEPT ![At(w)] = file[w]]
  /\ GoTo(w, IF Verification THEN "verify" ELSE "list")
  /\ UNCHANGED <<schedule, lock, trigger, storage, uploads, recovered,
                 jobVars, deletionVars, faults, historyVars, failures>>

\* The row has disappeared, or the update fails.
StoreFails(w) ==
  /\ pc[w] = "store"
  /\ \/ ~RowExists(At(w)) /\ UNCHANGED faults
     \/ Fault("db")
  /\ GoTo(w, "catch")
  /\ UNCHANGED <<schedule, lock, trigger, runVars, storage, uploads,
                 recovered, jobVars, deletionVars, historyVars, failures>>

\* verifyBackup reads the object back: without it, it throws.
Verify(w) ==
  /\ pc[w] = "verify"
  /\ <<At(w), file[w]>> \in storage
  /\ GoTo(w, "list")
  /\ UNCHANGED <<schedule, lock, trigger, runVars, storage, uploads,
                 recovered, jobVars, deletionVars, faults, historyVars,
                 failures>>

\* verifyBackup, or recording its result, throws.
VerifyFails(w) ==
  /\ pc[w] = "verify"
  /\ \/ <<At(w), file[w]>> \notin storage /\ UNCHANGED failures
     \/ Failure
  /\ GoTo(w, "catch")
  /\ UNCHANGED <<schedule, lock, trigger, runVars, storage, uploads,
                 recovered, jobVars, deletionVars, faults, historyVars>>

\* Succeeded runs with a file that are newer than r.
Newer(r) ==
  {q \in Run : q > r /\ status[q] = "succeeded" /\ fileKey[q] # 0}

\* Keeping one run too few.
ExpiredOffByOne ==
  {<<r, fileKey[r]>> : r \in
    {q \in Run : /\ status[q] = "succeeded"
                 /\ fileKey[q] # 0
                 /\ Retention # 0
                 /\ Cardinality(Newer(q)) + 1 >= Retention}}

\* The files of succeeded runs beyond the newest retentionCount.
Expired ==
  {<<r, fileKey[r]>> : r \in
    {q \in Run : /\ status[q] = "succeeded"
                 /\ fileKey[q] # 0
                 /\ Retention # 0
                 /\ Cardinality(Newer(q)) >= Retention}}

\* enforceRetention reads the runs of the schedule, newest first.
List(w) ==
  /\ pc[w] = "list"
  /\ victims' = [victims EXCEPT ![w] = Expired]
  /\ pc' = [pc EXCEPT ![w] = "prune"]
  /\ UNCHANGED <<schedule, lock, trigger, runVars, storage, uploads,
                 recovered, jobVars, job, last, owns, file, deletionVars,
                 faults, historyVars, failures>>

\* Reading the runs fails: a finished run takes the failure path.
ListFails(w) ==
  /\ pc[w] = "list"
  /\ Retention # 0
  /\ Fault("db")
  /\ GoTo(w, "catch")
  /\ UNCHANGED <<schedule, lock, trigger, runVars, storage, uploads,
                 recovered, jobVars, deletionVars, historyVars, failures>>

\* The newest expired file the worker has left.
Victim(w) == CHOOSE v \in victims[w] : \A u \in victims[w] : u[1] <= v[1]

\* deleteBackup of an expired file.
Prune(w) ==
  /\ pc[w] = "prune"
  /\ victims[w] # {}
  /\ Victim(w) \in storage
  /\ storage' = storage \ {Victim(w)}
  /\ GoTo(w, "forget")
  /\ UNCHANGED <<schedule, lock, trigger, runVars, uploads, recovered,
                 jobVars, deletionVars, faults, historyVars, failures>>

\* The file is missing or cannot be deleted: logged, and its row stays.
PruneFails(w) ==
  /\ pc[w] = "prune"
  /\ victims[w] # {}
  /\ \/ Victim(w) \notin storage /\ UNCHANGED failures
     \/ Failure
  /\ victims' = [victims EXCEPT ![w] = @ \ {Victim(w)}]
  /\ UNCHANGED <<schedule, lock, trigger, runVars, storage, uploads,
                 recovered, jobVars, pc, job, last, owns, file, deletionVars,
                 faults, historyVars>>

\* deleteById of the expired run; a failure is logged and the row stays.
Forget(w) ==
  LET r == Victim(w)[1]
  IN  /\ pc[w] = "forget"
      /\ \/ /\ status' = [status EXCEPT ![r] = "deleted"]
            /\ stale' = stale \ {r}
            /\ UNCHANGED faults
         \/ Fault("db") /\ UNCHANGED <<status, stale>>
      /\ victims' = [victims EXCEPT ![w] = @ \ {Victim(w)}]
      /\ pc' = [pc EXCEPT ![w] = "prune"]
      /\ UNCHANGED <<schedule, lock, trigger, fileKey, storage, uploads,
                     recovered, jobVars, job, last, owns, file, deletionVars,
                     historyVars, failures>>

\* All expired files are dealt with.
Pruned(w) ==
  /\ pc[w] = "prune"
  /\ victims[w] = {}
  /\ GoTo(w, "release")
  /\ UNCHANGED <<schedule, lock, trigger, runVars, storage, uploads,
                 recovered, jobVars, deletionVars, faults, historyVars,
                 failures>>

\* The handler releases the lock and returns.
Release(w) ==
  /\ pc[w] = "release"
  /\ ReleaseLock(At(w))
  /\ JobReturns(w, job[w])
  /\ Leave(w)
  /\ UNCHANGED <<schedule, trigger, runVars, storage, uploads, recovered,
                 deletionVars, faults, historyVars, failures>>

\* Redis fails: the handler takes its failure path after a success.
ReleaseFails(w) ==
  /\ pc[w] = "release"
  /\ Fault("redis")
  /\ GoTo(w, "throw")
  /\ UNCHANGED <<schedule, lock, trigger, runVars, storage, uploads,
                 recovered, jobVars, deletionVars, historyVars, failures>>

\* The catch block of the use case records the failure, whoever has the row
\* by now; when the update fails the row stays as it is.
Catch(w) ==
  /\ pc[w] = "catch"
  /\ \/ UpdateRun(At(w), "failed") /\ UNCHANGED faults
     \/ Fault("db") /\ UNCHANGED <<status, stale>>
  /\ GoTo(w, "throw")
  /\ UNCHANGED <<schedule, lock, trigger, fileKey, storage, uploads,
                 recovered, jobVars, deletionVars, historyVars, failures>>

\* Keeping the lock after the final attempt.
ThrowWithLock(w) ==
  /\ pc[w] = "throw"
  /\ JobThrows(w, job[w])
  /\ Leave(w)
  /\ UNCHANGED <<schedule, lock, trigger, runVars, storage, uploads,
                 recovered, deletionVars, faults, historyVars, failures>>

\* The catch block of the handler: the final attempt of an execution of its
\* own gives the lock back, unless Redis fails.
Throw(w) ==
  /\ pc[w] = "throw"
  /\ IF last[w] /\ owns[w]
       THEN \/ ReleaseLock(At(w)) /\ UNCHANGED faults
            \/ Fault("redis") /\ UNCHANGED lock
       ELSE UNCHANGED <<lock, faults>>
  /\ JobThrows(w, job[w])
  /\ Leave(w)
  /\ UNCHANGED <<schedule, trigger, runVars, storage, uploads, recovered,
                 deletionVars, historyVars, failures>>

(***************************************************************************)
(* DeleteBackupScheduleUseCase.                                            *)
(***************************************************************************)

\* It reads the runs of the schedule.
StartDeletion ==
  /\ schedule
  /\ deleting = None
  /\ deleting' = {<<r, fileKey[r]>> : r \in
                    {q \in Run : RowExists(q) /\ fileKey[q] # 0}}
  /\ Fault("delete")
  /\ dismantled' = TRUE
  /\ UNCHANGED <<schedule, lock, trigger, runVars, storage, uploads,
                 recovered, jobVars, workerVars, frozen, overlapped,
                 starved, failures>>

\* The object of the newest run that is left.
Doomed == CHOOSE v \in deleting : \A u \in deleting : u[1] <= v[1]

\* The objects of the runs go one after the other.
DeleteObject ==
  /\ deleting \notin {None, {}}
  /\ Doomed \in storage
  /\ storage' = storage \ {Doomed}
  /\ deleting' = deleting \ {Doomed}
  /\ UNCHANGED <<schedule, lock, trigger, runVars, uploads, recovered,
                 jobVars, workerVars, dismantled, faults, historyVars,
                 failures>>

\* An object is missing or cannot be deleted: the request fails half-way.
DeletionFails ==
  /\ deleting \notin {None, {}}
  /\ \/ Doomed \notin storage /\ UNCHANGED failures
     \/ Failure
  /\ deleting' = None
  /\ UNCHANGED <<schedule, lock, trigger, runVars, storage, uploads,
                 recovered, jobVars, workerVars, dismantled, faults,
                 historyVars>>

\* The schedule goes, and its runs with it.
DeleteSchedule ==
  /\ deleting = {}
  /\ deleting' = None
  /\ schedule' = FALSE
  /\ status' = [r \in Run |-> IF RowExists(r) THEN "deleted" ELSE status[r]]
  /\ stale' = {}
  /\ UNCHANGED <<lock, trigger, fileKey, storage, uploads, recovered, jobVars,
                 workerVars, dismantled, faults, historyVars, failures>>

-----------------------------------------------------------------------------
WorkerStep(w) ==
  \/ Find(w) \/ FindSucceeded(w) \/ FindFails(w)
  \/ Claim(w) \/ ClaimRefused(w)
  \/ EnsureLock(w) \/ EnsureLockFails(w)
  \/ Check(w) \/ CheckFails(w)
  \/ Dump(w) \/ DumpFails(w)
  \/ Store(w) \/ StoreFails(w)
  \/ Verify(w) \/ VerifyFails(w)
  \/ List(w) \/ ListFails(w)
  \/ Prune(w) \/ PruneFails(w) \/ Forget(w) \/ Pruned(w)
  \/ Release(w) \/ ReleaseFails(w)
  \/ Catch(w) \/ Throw(w)

Next ==
  \/ \E r \in Run : Trigger(r) \/ RowGoesStale(r) \/ RecoverStale(r)
  \/ CreateRun \/ CreateRunFails \/ TriggerCrash
  \/ LockExpires
  \/ \E w \in Worker : WorkerStep(w) \/ Heartbeat(w) \/ Crash(w)
  \/ \E w \in Worker, j \in Job : Take(w, j)
  \/ \E j \in Job : JobStalls(j)
  \/ StartDeletion \/ DeleteObject \/ DeletionFails \/ DeleteSchedule

Spec == Init /\ [][Next]_vars

(***************************************************************************)
(* Workers and triggers go on with what they do, free slots take pending   *)
(* jobs, the stalled check and the recovery timer find the silent, time    *)
(* passes.  Nobody has to trigger a backup or to delete the schedule.      *)
(***************************************************************************)
Fairness ==
  /\ WF_vars(CreateRun \/ CreateRunFails)
  /\ \A w \in Worker : WF_vars(WorkerStep(w))
  /\ \A j \in Job : WF_vars(\E w \in Worker : Take(w, j))
  /\ \A j \in Job : WF_vars(holder[j] = None /\ JobStalls(j))
  /\ \A r \in Run : WF_vars(faults' = faults /\ RowGoesStale(r))
  /\ \A r \in Run : WF_vars(RecoverStale(r))

FairSpec == Spec /\ Fairness

-----------------------------------------------------------------------------
Flags == {schedule, frozen, dismantled, overlapped}

TypeOK ==
  /\ lock \in Run \union {None}
  /\ trigger \in Run \union {None}
  /\ status \in [Run -> Status]
  /\ stale \subseteq Run
  /\ fileKey \in [Run -> Nat]
  /\ storage \subseteq Run \X Nat
  /\ uploads \in [Run -> Nat]
  /\ recovered \in [Run -> 0 .. MaxRecoveries]
  /\ QueueTypeOK
  /\ pc \in [Worker -> Control]
  /\ job \in [Worker -> Job \union {None}]
  /\ \A w \in Worker : pc[w] = "idle" <=> job[w] = None
  /\ last \in [Worker -> BOOLEAN]
  /\ owns \in [Worker -> BOOLEAN]
  /\ file \in [Worker -> Nat]
  /\ victims \in [Worker -> SUBSET (Run \X Nat)]
  /\ deleting \in {None} \union SUBSET (Run \X Nat)
  /\ failures \in 0 .. MaxFailures
  /\ faults \in 0 .. MaxFaults
  /\ starved \subseteq Run
  /\ Flags \subseteq BOOLEAN

\* The schedule's lock keeps backups apart: as long as no process was
\* suspended and no run was recovered, at most one worker is between
\* ensureBackupRunLock and releaseBackupRunLock, whatever crashes, failing
\* calls and expiries of the lock of a backlogged run there are.
OneBackupAtATime ==
  ~frozen /\ (\A r \in Run : recovered[r] = 0) =>
    \A v, w \in Worker : pc[v] \in Working /\ pc[w] \in Working => v = w

\* What retention keeps can be restored: each of the newest retentionCount
\* succeeded runs has its file, although the worker that prunes decides on a
\* list it read before, and runs are claimed, recovered and redone meanwhile.
\* Two backups at work at once, a run claimed from a worker that is still at
\* it, or the deletion of the schedule may break it.
RetainedBackupsExist ==
  overlapped \/ dismantled \/
    \A r \in Run :
      (/\ status[r] = "succeeded"
       /\ Retention = 0 \/ Cardinality(Newer(r)) < Retention)
        => <<r, fileKey[r]>> \in storage

\* Without a fault no run keeps the lock once all its jobs have ended, so that
\* the schedule's next backup is never held up for the lock's six hours.
FinishedRunFreesLock ==
  faults = 0 /\ schedule /\ lock # None => Live(lock)

\* A created run ends, succeeded or failed or deleted, also when the worker
\* that claimed it dies; a run that lost an attempt before its backup began
\* may stay behind.
EveryRunEnds ==
  \A r \in Run :
    status[r] = "queued" ~>
      status[r] \in {"succeeded", "failed", "deleted"} \/ r \in starved

-----------------------------------------------------------------------------
(***************************************************************************)
(* Why OneBackupAtATime holds: the parts of an inductive invariant.        *)
(***************************************************************************)

\* No process was suspended and no run was recovered.
Undisturbed == ~frozen /\ \A r \in Run : recovered[r] = 0

\* A run that is still to be created has no row and no job.
NoJobBeforeRun ==
  /\ trigger # None => ~RowExists(trigger)
  /\ \A j \in Job :
       j[1] = trigger \/ status[j[1]] = "absent" => jobState[j] = "none"

\* Jobs beyond the recoveries of their run do not exist.
NoJobBeyondRecovery ==
  \A j \in Job : j[2] > recovered[j[1]] => jobState[j] = "none"

\* Only an active job carries a lock.
HeldIsActive == \A j \in Job : holder[j] # None => jobState[j] = "active"

\* A busy slot has its job's lock at BullMQ.
BusyHoldsJob ==
  frozen \/ \A w \in Worker :
    pc[w] # "idle" => jobState[job[w]] = "active" /\ holder[job[w]] = w

\* A working slot's run has the schedule's lock.
WorkingHoldsLock ==
  Undisturbed => \A w \in Worker : pc[w] \in Working => lock = At(w)

BackupInv ==
  /\ TypeOK
  /\ NoJobBeforeRun
  /\ NoJobBeyondRecovery
  /\ HeldIsActive
  /\ BusyHoldsJob
  /\ WorkingHoldsLock

(***************************************************************************)
(* Why FinishedRunFreesLock holds: what is true as long as there was no    *)
(* fault.  One run at a time has anything left to do, one worker at most   *)
(* is at it, and it knows the status of its run.                           *)
(***************************************************************************)

\* The schedule is there, nothing is suspended, stale or recovered.
Calm ==
  /\ schedule
  /\ ~frozen
  /\ deleting = None
  /\ stale = {}
  /\ \A r \in Run : recovered[r] = 0

\* An active job has a slot that works on it.
ActiveIsHeld ==
  \A j \in Job : jobState[j] = "active" =>
    \E w \in Worker : holder[j] = w /\ job[w] = j

\* The lock is that of the run that has something left to do.
LockServesLive == \A r \in Run : Live(r) => lock = r

\* A worker is at a running run.
RunningIsExecuted ==
  \A r \in Run : status[r] = "running" =>
    \E w \in Worker :
      pc[w] \in {"lock", "check", "dump", "store", "catch"} /\ At(w) = r

\* A job that waits can have its run.
PendingIsClaimable ==
  \A j \in Job : jobState[j] = "pending" => status[j[1]] \in {"queued", "failed"}

\* What worker w may take for granted at each step; at the final attempt it
\* knows that it is the final one.
KnowsItsRun(w) ==
  /\ pc[w] \in {"find", "claim"} => status[At(w)] \in {"queued", "failed"}
  /\ pc[w] \in {"lock", "check", "dump", "store"} => status[At(w)] = "running"
  /\ pc[w] \in {"verify", "list"} => status[At(w)] = "succeeded"
  /\ pc[w] = "catch" => status[At(w)] \in {"running", "succeeded"}
  /\ pc[w] = "throw" => status[At(w)] = "failed"
  /\ pc[w] \in Working \union {"lock", "throw"} => owns[w]
  /\ pc[w] # "idle" => last[w] = FinalAttempt(job[w])

QuietInv ==
  faults = 0 =>
    /\ Calm
    /\ ActiveIsHeld
    /\ LockServesLive
    /\ RunningIsExecuted
    /\ PendingIsClaimable
    /\ \A w \in Worker : KnowsItsRun(w)
    /\ lock # None => Live(lock)

(***************************************************************************)
(* Why RetainedBackupsExist holds: a file is deleted only while enough     *)
(* newer backups exist that nothing can take back any more.                *)
(***************************************************************************)

\* At most one worker is at work, and at most one execution is at a run.
SoleWorker ==
  overlapped \/ \A v, w \in Worker : v # w =>
    /\ ~(pc[v] \in Working /\ pc[w] \in Working)
    /\ ~(/\ pc[v] \in Working \union {"lock"}
         /\ pc[w] \in Working \union {"lock"}
         /\ At(v) = At(w))

\* A deletion that is under way has begun.
DeletionIsKnown == deleting # None => dismantled

\* A worker that prunes has files to delete, and no other worker has.
VictimsWhilePruning ==
  \A w \in Worker :
    /\ pc[w] \notin {"prune", "forget"} => victims[w] = {}
    /\ pc[w] = "forget" => victims[w] # {}

\* Until its worker records it, an execution has not succeeded.
NotYetSucceeded ==
  overlapped \/ \A w \in Worker :
    pc[w] \in {"lock", "check", "dump", "store"} => status[At(w)] # "succeeded"

\* The upload a worker is about to record exists.
UploadExists ==
  overlapped \/ dismantled \/ \A w \in Worker :
    pc[w] = "store" => <<At(w), file[w]>> \in storage

\* The success of run k is final: its worker cannot fail any more, and no
\* worker is about to delete it.
Settled(k) ==
  /\ status[k] = "succeeded"
  /\ fileKey[k] # 0
  /\ \A w \in Worker :
       /\ pc[w] \in {"verify", "list", "catch"} => At(w) # k
       /\ \A v \in victims[w] : v[1] # k

\* Retention does not keep run r, and never will again.
Covered(r) ==
  /\ Retention # 0
  /\ Cardinality({k \in Run : k > r /\ Settled(k)}) >= Retention

\* A succeeded run without a file is one that retention has given up.
LostIsCovered ==
  overlapped \/ dismantled \/ \A r \in Run :
    status[r] = "succeeded" /\ <<r, fileKey[r]>> \notin storage => Covered(r)

\* So is one whose file is about to be deleted.
VictimIsCovered ==
  overlapped \/ dismantled \/ \A w \in Worker :
    \A v \in victims[w] : Covered(v[1])

RetentionInv ==
  /\ SoleWorker
  /\ DeletionIsKnown
  /\ VictimsWhilePruning
  /\ NotYetSucceeded
  /\ UploadExists
  /\ LostIsCovered
  /\ VictimIsCovered
=============================================================================
