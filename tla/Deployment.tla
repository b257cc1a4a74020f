----------------------------- MODULE Deployment -----------------------------
(***************************************************************************)
(* The life of a deployment: the row and the outbox command written by     *)
(* QueueDeploymentUseCase, the BullMQ job made from the command, the       *)
(* workers that execute it (DeploymentWorker.processJob) under the         *)
(* per-resource Redis lease (ResourceLock) and the execution token of the  *)
(* row, the API operations that cancel, kill, clean and remove, and the    *)
(* reconciler of executions that lost their worker.                        *)
(*                                                                         *)
(* A worker is one processing slot; it runs one execution at a time, so    *)
(* its name stands for the random tokens of that execution (the row's      *)
(* executionToken once it has claimed, the lock's token once it has the    *)
(* lock).  Time is the age of a row's last heartbeat, in ticks.            *)
(***************************************************************************)
EXTENDS Integers

CONSTANTS
  Deployment,   \* deployment ids, also outbox message ids and BullMQ job ids
  Resource,     \* resources
  ResourceOf,   \* the resource each deployment is of
  Worker,       \* processing slots of the deployment workers
  Nobody,       \* NULL: no worker, no token, no deployment
  MaxAttempts,  \* deploymentReliability.maxAttempts
  ClaimLease,   \* claimForExecution's leaseMs (30 min), in ticks
  StaleAfter,   \* deploymentReliability.staleAfterSeconds, in ticks
  CandidateAge, \* the reconciler's own cutoff (86400 s), in ticks
  FaultKinds,   \* which faults happen
  MaxFaults,    \* how many
  MaxRequests   \* how many API requests

ASSUME DeploymentAssumption ==
  /\ ResourceOf \in [Deployment -> Resource]
  /\ Nobody \notin Worker \cup Deployment
  /\ MaxAttempts \in Nat \ {0}
  /\ ClaimLease \in Nat \ {0}
  /\ StaleAfter \in Nat \ {0}
  /\ CandidateAge \in Nat \ {0}
  /\ MaxFaults \in Nat
  /\ MaxRequests \in Nat

VARIABLES
  dstatus,   \* deployment.status, plus "none" and "removed" for no row
  token,     \* deployment.executionToken
  attempt,   \* deployment.attempt
  age,       \* ticks since deployment.heartbeatAt (and updatedAt)
  rstatus,   \* resource.status
  marker,    \* deployments with a Redis cancellation marker
  command,   \* the outbox command and where its publisher is
  job,       \* state of the BullMQ job; "waiting" includes delayed
  made,      \* job.attemptsMade
  stalls,    \* how often BullMQ found the job stalled
  runner,    \* the slot holding BullMQ's lock on the job
  lock,      \* the Redis lease of each resource
  leaked,    \* resources whose lease a lost timer keeps renewing
  pc,        \* where each slot is in processJob
  on,        \* the deployment it works on
  claimed,   \* slots whose execution has claimed its row
  lockLost,  \* slots whose ResourceLock has a renewalError
  leaseLost, \* slots with executionLeaseLost
  sawCancel, \* slots that found the marker in their catch block
  throws,    \* slots whose processJob will reject
  frozen,    \* slots that make no progress
  apiPc, apiOn, apiSaw, cleanSet, \* the API request being served
  requests,  \* API requests so far
  reconPc, reconOn, reconSaw,     \* the stale-deployment reconciler
  faults,    \* faults so far
  paused,    \* history: slots frozen since they took their lock
  claimant,  \* history: the slot that last claimed each row
  accepted   \* history: running deployments whose cancellation was accepted

rowVars == <<dstatus, token, attempt, age, rstatus, claimant>>
jobVars == <<job, made, stalls, runner>>
lockVars == <<lock, leaked>>
flagVars == <<claimed, lockLost, leaseLost, sawCancel, throws>>
workerVars == <<pc, on, flagVars, frozen, paused>>
apiVars == <<apiPc, apiOn, apiSaw, cleanSet, requests, accepted>>
reconVars == <<reconPc, reconOn, reconSaw>>
vars == <<rowVars, marker, command, jobVars, lockVars, workerVars, apiVars,
          reconVars, faults>>

Terminal == {"success", "failed", "stale", "cancelled"}
DeploymentStatus == {"none", "queued", "running", "retrying", "removed"}
                      \cup Terminal
ResourceStatus == {"stopped", "queued", "running"}
CommandState == {"none", "pending", "checked", "published"}
JobState == {"none", "waiting", "active", "completed", "failed"}
Control == {"idle", "took", "locked", "found", "running", "catch", "failing",
            "closing", "release"}
ApiControl == {"idle", "setMarker", "lookup", "kill", "remove", "mark", "write",
               "clean", "cleanMark"}

\* Old enough for every threshold; ages saturate here.
AgeCap == ClaimLease + StaleAfter + CandidateAge

-----------------------------------------------------------------------------
Init ==
  /\ dstatus = [d \in Deployment |-> "none"]
  /\ token = [d \in Deployment |-> Nobody]
  /\ attempt = [d \in Deployment |-> 0]
  /\ age = [d \in Deployment |-> 0]
  /\ rstatus = [r \in Resource |-> "stopped"]
  /\ claimant = [d \in Deployment |-> Nobody]
  /\ marker = {}
  /\ command = [d \in Deployment |-> "none"]
  /\ job = [d \in Deployment |-> "none"]
  /\ made = [d \in Deployment |-> 0]
  /\ stalls = [d \in Deployment |-> 0]
  /\ runner = [d \in Deployment |-> Nobody]
  /\ lock = [r \in Resource |-> Nobody]
  /\ leaked = {}
  /\ pc = [w \in Worker |-> "idle"]
  /\ on = [w \in Worker |-> Nobody]
  /\ claimed = {} /\ lockLost = {} /\ leaseLost = {} /\ sawCancel = {}
  /\ throws = {} /\ frozen = {} /\ paused = {}
  /\ apiPc = "idle" /\ apiOn = Nobody /\ apiSaw = "none" /\ cleanSet = {}
  /\ requests = 0 /\ accepted = {}
  /\ reconPc = "idle" /\ reconOn = Nobody /\ reconSaw = "stopped"
  /\ faults = 0

Fault(kind) ==
  /\ kind \in FaultKinds
  /\ faults < MaxFaults
  /\ faults' = faults + 1

(***************************************************************************)
(* Queueing and publication.                                               *)
(***************************************************************************)

\* QueueDeploymentUseCase.execute: one transaction writes the row, the
\* resource's status and the outbox command.  retryDeployment queues a new row.
QueueDeployment(d) ==
  /\ dstatus[d] = "none"
  /\ dstatus' = [dstatus EXCEPT ![d] = "queued"]
  /\ rstatus' = [rstatus EXCEPT ![ResourceOf[d]] = "queued"]
  /\ command' = [command EXCEPT ![d] = "pending"]
  /\ UNCHANGED <<token, attempt, age, claimant, marker, jobVars, lockVars,
                 workerVars, apiVars, reconVars, faults>>

\* BullMqOutboxJobPublisher.publish reads the cancellation marker first.
PublishCheck(d) ==
  /\ command[d] = "pending"
  /\ command' = [command EXCEPT ![d] =
                   IF d \in marker THEN "published" ELSE "checked"]
  /\ UNCHANGED <<rowVars, marker, jobVars, lockVars, workerVars, apiVars,
                 reconVars, faults>>

\* Then it adds the job, which BullMQ ignores while a job of that id exists.
\* The acknowledgement may be lost, and the command is then published again; or
\* a second publisher has taken the command over and checked it as well.
PublishAdd(d) ==
  /\ command[d] = "checked"
  /\ command' \in {[command EXCEPT ![d] = s] :
                     s \in {"published", "pending", "checked"}}
  /\ IF job[d] = "none"
       THEN job' = [job EXCEPT ![d] = "waiting"]
       ELSE UNCHANGED job
  /\ UNCHANGED <<rowVars, marker, made, stalls, runner, lockVars, workerVars,
                 apiVars, reconVars, faults>>

\* The job and its counters are gone.
RemoveJob(d) ==
  /\ job' = [job EXCEPT ![d] = "none"]
  /\ made' = [made EXCEPT ![d] = 0]
  /\ stalls' = [stalls EXCEPT ![d] = 0]

\* removeOnComplete / removeOnFail drop old finished jobs.
EvictJob(d) ==
  /\ job[d] \in {"completed", "failed"}
  /\ RemoveJob(d)
  /\ UNCHANGED <<rowVars, marker, command, runner, lockVars, workerVars,
                 apiVars, reconVars, faults>>

-----------------------------------------------------------------------------
(***************************************************************************)
(* BullMQ and Redis leases, as the worker uses them.                       *)
(***************************************************************************)

\* A worker slot that still renews its ResourceLock on r.
Renewing(w, r) ==
  /\ pc[w] \notin {"idle", "took"}
  /\ ResourceOf[on[w]] = r
  /\ w \notin lockLost \cup frozen

\* A lease taken without a TTL.
LockNeverExpires(r) == FALSE /\ UNCHANGED vars

\* The TTL of a lease nobody renews runs out.
LockExpires(r) ==
  /\ lock[r] # Nobody
  /\ r \notin leaked
  /\ ~Renewing(lock[r], r)
  /\ lock' = [lock EXCEPT ![r] = Nobody]
  /\ UNCHANGED <<rowVars, marker, command, jobVars, leaked, workerVars, apiVars,
                 reconVars, faults>>

\* ResourceLock.renew finds another owner (or none) behind its key.
RenewLoses(w) ==
  /\ pc[w] \notin {"idle", "took"}
  /\ w \notin lockLost \cup frozen
  /\ lock[ResourceOf[on[w]]] # w
  /\ lockLost' = lockLost \cup {w}
  /\ UNCHANGED <<rowVars, marker, command, jobVars, lockVars, pc, on, claimed,
                 leaseLost, sawCancel, throws, frozen, paused, apiVars,
                 reconVars, faults>>

\* ResourceLock.renew times out; it never tries again.
RenewFails(w) ==
  /\ pc[w] \notin {"idle", "took"}
  /\ w \notin lockLost \cup frozen
  /\ Fault("redis")
  /\ lockLost' = lockLost \cup {w}
  /\ UNCHANGED <<rowVars, marker, command, jobVars, lockVars, pc, on, claimed,
                 leaseLost, sawCancel, throws, frozen, paused, apiVars,
                 reconVars>>

\* Nobody renews BullMQ's lock on the job of d.
Silent(d) == LET w == runner[d] IN on[w] # d \/ w \in frozen

\* BullMQ gives a job whose worker stopped renewing it to the queue again,
\* once (maxStalledCount: 1), then fails it.
StalledCheck(d) ==
  /\ job[d] = "active"
  /\ Silent(d)
  /\ job' = [job EXCEPT ![d] = IF stalls[d] < 1 THEN "waiting" ELSE "failed"]
  /\ stalls' = [stalls EXCEPT ![d] = 1]
  /\ runner' = [runner EXCEPT ![d] = Nobody]
  /\ UNCHANGED <<rowVars, marker, command, made, lockVars, workerVars, apiVars,
                 reconVars, faults>>

\* The slot's execution is over: its timers and its flags go with it.
Forget(w) ==
  /\ pc' = [pc EXCEPT ![w] = "idle"]
  /\ on' = [on EXCEPT ![w] = Nobody]
  /\ claimed' = claimed \ {w}
  /\ lockLost' = lockLost \ {w}
  /\ leaseLost' = leaseLost \ {w}
  /\ sawCancel' = sawCancel \ {w}
  /\ throws' = throws \ {w}
  /\ frozen' = frozen \ {w}
  /\ paused' = paused \ {w}

\* BullMQ settles the job of a processor that returned or rejected, if the slot
\* still holds the job.
SettleJob(w, rejected) ==
  LET d == on[w] IN
  /\ IF runner[d] = w
       THEN /\ job' = [job EXCEPT ![d] =
                         IF ~rejected THEN "completed"
                         ELSE IF made[d] + 1 < MaxAttempts THEN "waiting"
                         ELSE "failed"]
            /\ made' = [made EXCEPT ![d] = IF rejected THEN @ + 1 ELSE @]
            /\ runner' = [runner EXCEPT ![d] = Nobody]
       ELSE UNCHANGED <<job, made, runner>>
  /\ UNCHANGED stalls

-----------------------------------------------------------------------------
(***************************************************************************)
(* DeploymentWorker.processJob.                                            *)
(***************************************************************************)
TakeJob(w, d) ==
  /\ pc[w] = "idle"
  /\ job[d] = "waiting"
  /\ job' = [job EXCEPT ![d] = "active"]
  /\ runner' = [runner EXCEPT ![d] = w]
  /\ pc' = [pc EXCEPT ![w] = "took"]
  /\ on' = [on EXCEPT ![w] = d]
  /\ UNCHANGED <<rowVars, marker, command, made, stalls, lockVars, flagVars,
                 frozen, paused, apiVars, reconVars, faults>>

\* ResourceLock.acquire: SET NX.  With the resource busy the job is moved to
\* delayed, which costs it no attempt.
AcquireLock(w) ==
  /\ pc[w] = "took"
  /\ w \notin frozen
  /\ LET d == on[w]
         r == ResourceOf[d]
     IN  \/ /\ lock[r] = Nobody
            /\ lock' = [lock EXCEPT ![r] = w]
            /\ pc' = [pc EXCEPT ![w] = "locked"]
            /\ paused' = paused \ {w}
            /\ UNCHANGED <<on, flagVars, frozen, jobVars>>
         \/ /\ lock[r] # Nobody
            /\ IF runner[d] = w
                 THEN /\ job' = [job EXCEPT ![d] = "waiting"]
                      /\ runner' = [runner EXCEPT ![d] = Nobody]
                 ELSE UNCHANGED <<job, runner>>
            /\ Forget(w)
            /\ UNCHANGED <<lock, made, stalls>>
  /\ UNCHANGED <<rowVars, marker, command, leaked, apiVars, reconVars, faults>>

\* The SET times out; it may still have reached Redis.  Nobody renews it then.
AcquireFails(w) ==
  /\ pc[w] = "took"
  /\ w \notin frozen
  /\ Fault("redis")
  /\ LET r == ResourceOf[on[w]]
     IN  \/ UNCHANGED lock
         \/ lock[r] = Nobody /\ lock' = [lock EXCEPT ![r] = w]
  /\ SettleJob(w, TRUE)
  /\ Forget(w)
  /\ UNCHANGED <<rowVars, marker, command, leaked, apiVars, reconVars>>

\* createScope rejects between acquire and try: the lock is not released and
\* its timer goes on renewing it.
ScopeFails(w) ==
  /\ pc[w] = "locked"
  /\ w \notin frozen
  /\ Fault("leak")
  /\ leaked' = leaked \cup ({ResourceOf[on[w]]} \cap
                              {r \in Resource : lock[r] = w})
  /\ SettleJob(w, TRUE)
  /\ Forget(w)
  /\ UNCHANGED <<rowVars, marker, command, lock, apiVars, reconVars>>

Goto(w, target) == pc' = [pc EXCEPT ![w] = target]

\* findById: a terminal row ends the job, a missing one is an error.
LoadDeployment(w) ==
  /\ pc[w] = "locked"
  /\ w \notin frozen
  /\ LET s == dstatus[on[w]]
     IN  \/ s \in Terminal /\ Goto(w, "closing")
         \/ s = "removed" /\ Goto(w, "catch")
         \/ s \notin Terminal \cup {"removed"} /\ Goto(w, "found")
  /\ UNCHANGED <<rowVars, marker, command, jobVars, lockVars, on, flagVars,
                 frozen, paused, apiVars, reconVars, faults>>

\* findById or the claim throws before anything was claimed.
LoadFails(w) ==
  /\ pc[w] \in {"locked", "found"}
  /\ w \notin frozen
  /\ Fault("db")
  /\ Goto(w, "catch")
  /\ UNCHANGED <<rowVars, marker, command, jobVars, lockVars, on, flagVars,
                 frozen, paused, apiVars, reconVars>>

\* Forgetting the rows that wait for a retry.
ClaimableRowQueuedOnly(d) ==
  \/ dstatus[d] = "queued"
  \/ dstatus[d] = "running" /\ age[d] > ClaimLease

\* Claiming whatever the row's status.
ClaimableRowAnyStatus(d) == dstatus[d] # "removed"

\* The WHERE clause of claimForExecution.
ClaimableRow(d) ==
  \/ dstatus[d] \in {"queued", "retrying"}
  \/ dstatus[d] = "running" /\ age[d] > ClaimLease

\* claimForExecution and the resource update, in one transaction.  A row that
\* cannot be claimed ends the job.
ClaimForExecution(w) ==
  /\ pc[w] = "found"
  /\ w \notin frozen
  /\ LET d == on[w]
     IN  \/ /\ ClaimableRow(d)
            /\ dstatus' = [dstatus EXCEPT ![d] = "running"]
            /\ token' = [token EXCEPT ![d] = w]
            /\ attempt' = [attempt EXCEPT ![d] = @ + 1]
            /\ age' = [age EXCEPT ![d] = 0]
            /\ claimant' = [claimant EXCEPT ![d] = w]
            /\ rstatus' = [rstatus EXCEPT ![ResourceOf[d]] = "running"]
            /\ claimed' = claimed \cup {w}
            /\ Goto(w, "running")
         \/ /\ ~ClaimableRow(d)
            /\ Goto(w, "closing")
            /\ UNCHANGED <<rowVars, claimed>>
  /\ UNCHANGED <<marker, command, jobVars, lockVars, on, lockLost, leaseLost,
                 sawCancel, throws, frozen, paused, apiVars, reconVars, faults>>

\* Comparing the status only.
OwnsRowByStatus(w, d) == dstatus[d] = "running" /\ w \in claimed

\* The WHERE clause of updateByIdOwned and heartbeatOwned.
OwnsRow(w, d) ==
  /\ dstatus[d] = "running"
  /\ w \in claimed
  /\ token[d] = w

\* The heartbeat timer lives from the claim to the finally block.
Beating(w) == w \in claimed /\ pc[w] \in {"running", "catch", "failing"}

Heartbeat(w) ==
  /\ Beating(w)
  /\ w \notin frozen
  /\ LET d == on[w]
     IN  \/ OwnsRow(w, d) /\ age' = [age EXCEPT ![d] = 0] /\ UNCHANGED leaseLost
         \/ ~OwnsRow(w, d) /\ leaseLost' = leaseLost \cup {w} /\ UNCHANGED age
  /\ UNCHANGED <<dstatus, token, attempt, rstatus, claimant, marker, command,
                 jobVars, lockVars, pc, on, claimed, lockLost, sawCancel,
                 throws, frozen, paused, apiVars, reconVars, faults>>

\* A heartbeat that throws is taken for a lost lease, for good.
HeartbeatFails(w) ==
  /\ Beating(w)
  /\ w \notin frozen
  /\ Fault("db")
  /\ leaseLost' = leaseLost \cup {w}
  /\ UNCHANGED <<rowVars, marker, command, jobVars, lockVars, pc, on, claimed,
                 lockLost, sawCancel, throws, frozen, paused, apiVars,
                 reconVars>>

\* The transaction of flushFinalLogs on the row and its resource.
FlushFinal(w, s) ==
  LET d == on[w] IN
  /\ dstatus' = [dstatus EXCEPT ![d] = s]
  /\ token' = [token EXCEPT ![d] = Nobody]
  /\ age' = [age EXCEPT ![d] = 0]
  /\ rstatus' = [rstatus EXCEPT ![ResourceOf[d]] =
                   IF s = "success" THEN "running"
                   ELSE IF s = "retrying" THEN "queued" ELSE "stopped"]
  /\ UNCHANGED <<attempt, claimant>>

\* The pipeline ran to its end: assertOwned, then flushFinalLogs("success").
PipelineSucceeds(w) ==
  /\ pc[w] = "running"
  /\ w \notin frozen
  /\ \/ /\ w \in lockLost
        /\ Goto(w, "catch")
        /\ UNCHANGED <<rowVars, leaseLost>>
     \/ /\ w \notin lockLost
        /\ OwnsRow(w, on[w])
        /\ FlushFinal(w, "success")
        /\ Goto(w, "closing")
        /\ UNCHANGED leaseLost
     \/ /\ w \notin lockLost
        /\ ~OwnsRow(w, on[w])
        /\ leaseLost' = leaseLost \cup {w}
        /\ Goto(w, "catch")
        /\ UNCHANGED rowVars
  /\ UNCHANGED <<marker, command, jobVars, lockVars, on, claimed, lockLost,
                 sawCancel, throws, frozen, paused, apiVars, reconVars, faults>>

\* Any error of the pipeline, the kill of a cancelled build included.
PipelineFails(w) ==
  /\ pc[w] = "running"
  /\ w \notin frozen
  /\ Goto(w, "catch")
  /\ UNCHANGED <<rowVars, marker, command, jobVars, lockVars, on, flagVars,
                 frozen, paused, apiVars, reconVars, faults>>

\* The catch block gives up silently without its lease, else reads the marker.
CatchError(w) ==
  /\ pc[w] = "catch"
  /\ w \notin frozen
  /\ \/ /\ w \in leaseLost
        /\ Goto(w, "closing")
        /\ UNCHANGED sawCancel
     \/ /\ w \notin leaseLost
        /\ sawCancel' = IF on[w] \in marker THEN sawCancel \cup {w}
                                            ELSE sawCancel \ {w}
        /\ Goto(w, "failing")
  /\ UNCHANGED <<rowVars, marker, command, jobVars, lockVars, on, claimed,
                 lockLost, leaseLost, throws, frozen, paused, apiVars,
                 reconVars, faults>>

\* Recording a status the other tables use.
FailureStatusMisnamed(w) == IF w \in sawCancel THEN "cancelled" ELSE "error"

\* What the catch block records: nothing but attempts and the marker decide.
FailureStatus(w) ==
  IF w \in sawCancel THEN "cancelled"
  ELSE IF attempt[on[w]] < MaxAttempts THEN "retrying" ELSE "failed"

\* The rest of the catch block.  A retry rejects so that BullMQ delivers the
\* job again; a lost lock or row rejects without recording anything.
RecordFailure(w) ==
  /\ pc[w] = "failing"
  /\ w \notin frozen
  /\ \/ /\ w \notin lockLost
        /\ OwnsRow(w, on[w])
        /\ FlushFinal(w, FailureStatus(w))
        /\ throws' = IF FailureStatus(w) = "retrying" THEN throws \cup {w}
                                                      ELSE throws
        /\ UNCHANGED leaseLost
     \/ /\ w \in lockLost
        /\ throws' = throws \cup {w}
        /\ UNCHANGED <<rowVars, leaseLost>>
     \/ /\ w \notin lockLost
        /\ ~OwnsRow(w, on[w])
        /\ leaseLost' = leaseLost \cup {w}
        /\ throws' = throws \cup {w}
        /\ UNCHANGED rowVars
  /\ Goto(w, "closing")
  /\ UNCHANGED <<marker, command, jobVars, lockVars, on, claimed, lockLost,
                 sawCancel, frozen, paused, apiVars, reconVars, faults>>

\* The marker cannot be read, the row cannot be read or written: the catch block
\* itself rejects, with nothing recorded.
CatchFails(w) ==
  /\ pc[w] \in {"catch", "failing"}
  /\ w \notin frozen \cup leaseLost
  /\ Fault("db")
  /\ throws' = throws \cup {w}
  /\ Goto(w, "closing")
  /\ UNCHANGED <<rowVars, marker, command, jobVars, lockVars, on, claimed,
                 lockLost, leaseLost, sawCancel, frozen, paused, apiVars,
                 reconVars>>

\* The finally block, whoever reached it, deletes the cancellation marker ...
ClearMarker(w) ==
  /\ pc[w] = "closing"
  /\ w \notin frozen
  /\ marker' = marker \ {on[w]}
  /\ Goto(w, "release")
  /\ UNCHANGED <<rowVars, command, jobVars, lockVars, on, flagVars, frozen,
                 paused, apiVars, reconVars, faults>>

\* Releasing without comparing the token.
ReleaseLockUnchecked(w) ==
  /\ pc[w] = "release"
  /\ w \notin frozen
  /\ lock' = [lock EXCEPT ![ResourceOf[on[w]]] = Nobody]
  /\ SettleJob(w, w \in throws)
  /\ Forget(w)
  /\ UNCHANGED <<rowVars, marker, command, leaked, apiVars, reconVars, faults>>

\* ... and releases the lock if the key still holds its token.
ReleaseLock(w) ==
  /\ pc[w] = "release"
  /\ w \notin frozen
  /\ LET r == ResourceOf[on[w]]
     IN  lock' = [lock EXCEPT ![r] = IF @ = w THEN Nobody ELSE @]
  /\ SettleJob(w, w \in throws)
  /\ Forget(w)
  /\ UNCHANGED <<rowVars, marker, command, leaked, apiVars, reconVars, faults>>

\* The release times out; the timer is gone, so the TTL frees the resource.
ReleaseFails(w) ==
  /\ pc[w] = "release"
  /\ w \notin frozen
  /\ Fault("redis")
  /\ SettleJob(w, w \in throws)
  /\ Forget(w)
  /\ UNCHANGED <<rowVars, marker, command, lockVars, apiVars, reconVars>>

\* scope.dispose or the deletion of the marker rejects inside finally: the
\* release after it is skipped and the lock's timer goes on renewing.
FinallyThrows(w) ==
  /\ pc[w] = "closing"
  /\ w \notin frozen
  /\ Fault("leak")
  /\ leaked' = leaked \cup ({ResourceOf[on[w]]} \cap
                              {r \in Resource : lock[r] = w /\ w \notin lockLost})
  /\ SettleJob(w, TRUE)
  /\ Forget(w)
  /\ UNCHANGED <<rowVars, marker, command, lock, apiVars, reconVars>>

\* The process dies; what it wrote stays.
Crash(w) ==
  /\ pc[w] # "idle"
  /\ Fault("crash")
  /\ Forget(w)
  /\ UNCHANGED <<rowVars, marker, command, jobVars, lockVars, apiVars,
                 reconVars>>

\* The process is suspended or cut off, and later goes on where it was.
Freeze(w) ==
  /\ pc[w] # "idle"
  /\ w \notin frozen
  /\ Fault("freeze")
  /\ frozen' = frozen \cup {w}
  /\ paused' = paused \cup {w}
  /\ UNCHANGED <<rowVars, marker, command, jobVars, lockVars, pc, on, flagVars,
                 apiVars, reconVars>>

Thaw(w) ==
  /\ w \in frozen
  /\ frozen' = frozen \ {w}
  /\ UNCHANGED <<rowVars, marker, command, jobVars, lockVars, pc, on, flagVars,
                 paused, apiVars, reconVars, faults>>

-----------------------------------------------------------------------------
(***************************************************************************)
(* The API: cancel, kill, clean the queue, remove.  One request at a time; *)
(* every await is a step.                                                  *)
(***************************************************************************)
Serve(d, target) ==
  /\ apiPc = "idle"
  /\ requests < MaxRequests
  /\ requests' = requests + 1
  /\ apiPc' = target
  /\ apiOn' = d

ApiDone == apiPc' = "idle" /\ apiOn' = Nobody /\ apiSaw' = "none"

\* cancelDeploymentJob reads the deployment ...
CancelRequest(d) ==
  /\ Serve(d, "setMarker")
  /\ dstatus[d] \notin {"none", "removed"}
  /\ apiSaw' = dstatus[d]
  /\ UNCHANGED <<rowVars, marker, command, jobVars, lockVars, workerVars,
                 cleanSet, accepted, reconVars, faults>>

\* ... sets the marker ...
CancelSetMarker ==
  /\ apiPc = "setMarker"
  /\ marker' = marker \cup {apiOn}
  /\ apiPc' = "lookup"
  /\ UNCHANGED <<rowVars, command, jobVars, lockVars, workerVars, apiOn, apiSaw,
                 cleanSet, requests, accepted, reconVars, faults>>

\* ... and looks for the job.  An active job is left to its worker, another is
\* to be removed; without a job the status read at first decides.
CancelLookup ==
  /\ apiPc = "lookup"
  /\ LET d == apiOn
     IN  \/ /\ job[d] = "active"
            /\ accepted' = IF dstatus[d] = "running" THEN accepted \cup {d}
                                                     ELSE accepted
            /\ ApiDone
         \/ /\ job[d] \notin {"active", "none"}
            /\ apiPc' = "remove"
            /\ UNCHANGED <<apiOn, apiSaw, accepted>>
         \/ /\ job[d] = "none"
            /\ apiSaw \in {"queued", "retrying"}
            /\ apiPc' = "mark"
            /\ UNCHANGED <<apiOn, apiSaw, accepted>>
         \/ /\ job[d] = "none"
            /\ apiSaw \notin {"queued", "retrying"}
            /\ ApiDone
            /\ UNCHANGED accepted
  /\ UNCHANGED <<rowVars, marker, command, jobVars, lockVars, workerVars,
                 cleanSet, requests, reconVars, faults>>

\* killBuild looks for the job first; a missing job is an error.
KillBuild(d) ==
  /\ dstatus[d] # "removed"
  /\ \/ job[d] = "active" /\ Serve(d, "kill")
     \/ job[d] \notin {"active", "none"} /\ Serve(d, "remove")
  /\ UNCHANGED <<rowVars, marker, command, jobVars, lockVars, workerVars,
                 apiSaw, cleanSet, accepted, reconVars, faults>>

\* job.remove: it throws when a worker has taken the job since and holds its
\* lock; a job that is gone by now is as good as removed.
JobRemove ==
  /\ apiPc = "remove"
  /\ \/ /\ job[apiOn] = "active"
        /\ ApiDone
        /\ UNCHANGED jobVars
     \/ /\ job[apiOn] = "active" => Silent(apiOn)
        /\ RemoveJob(apiOn)
        /\ runner' = [runner EXCEPT ![apiOn] = Nobody]
        /\ apiPc' = "mark"
        /\ UNCHANGED <<apiOn, apiSaw>>
  /\ UNCHANGED <<rowVars, marker, command, lockVars, workerVars, cleanSet,
                 requests, accepted, reconVars, faults>>

KillSetMarker ==
  /\ apiPc = "kill"
  /\ marker' = marker \cup {apiOn}
  /\ accepted' = IF dstatus[apiOn] = "running" THEN accepted \cup {apiOn}
                                               ELSE accepted
  /\ ApiDone
  /\ UNCHANGED <<rowVars, command, jobVars, lockVars, workerVars, cleanSet,
                 requests, reconVars, faults>>

\* markDeploymentCancelled: the read of its transaction ...
MarkCancelledRead ==
  /\ apiPc = "mark"
  /\ \/ /\ dstatus[apiOn] \in Terminal \cup {"removed"}
        /\ ApiDone
     \/ /\ dstatus[apiOn] \notin Terminal \cup {"removed"}
        /\ apiPc' = "write"
        /\ UNCHANGED <<apiOn, apiSaw>>
  /\ UNCHANGED <<rowVars, marker, command, jobVars, lockVars, workerVars,
                 cleanSet, requests, accepted, reconVars, faults>>

\* ... and its writes, which test nothing.
MarkCancelledWrite ==
  /\ apiPc = "write"
  /\ LET r == ResourceOf[apiOn]
     IN  rstatus' = [rstatus EXCEPT ![r] = IF @ = "queued" THEN "stopped" ELSE @]
  /\ dstatus' = [dstatus EXCEPT ![apiOn] = IF @ = "removed" THEN @
                                                            ELSE "cancelled"]
  /\ ApiDone
  /\ UNCHANGED <<token, attempt, age, claimant, marker, command, jobVars,
                 lockVars, workerVars, cleanSet, requests, accepted, reconVars,
                 faults>>

\* cleanAllDeploymentQueue reads the unfinished deployments ...
CleanRead ==
  /\ Serve(Nobody, "clean")
  /\ cleanSet' = {d \in Deployment :
                    dstatus[d] \in {"queued", "running", "retrying"}}
  /\ cleanSet' # {}
  /\ UNCHANGED <<rowVars, marker, command, jobVars, lockVars, workerVars,
                 apiSaw, accepted, reconVars, faults>>

\* ... overwrites them and stops the running resources, all of them ...
CleanWrite ==
  /\ apiPc = "clean"
  /\ dstatus' = [d \in Deployment |->
                   IF d \in cleanSet /\ dstatus[d] # "removed"
                     THEN "cancelled" ELSE dstatus[d]]
  /\ rstatus' = [r \in Resource |->
                   IF rstatus[r] = "running" THEN "stopped" ELSE rstatus[r]]
  /\ apiPc' = "cleanMark"
  /\ UNCHANGED <<token, attempt, age, claimant, marker, command, jobVars,
                 lockVars, workerVars, apiOn, apiSaw, cleanSet, requests,
                 accepted, reconVars, faults>>

\* ... and, once that has committed, sets their markers.
CleanMark ==
  /\ apiPc = "cleanMark"
  /\ marker' = marker \cup cleanSet
  /\ cleanSet' = {}
  /\ ApiDone
  /\ UNCHANGED <<rowVars, command, jobVars, lockVars, workerVars, requests,
                 accepted, reconVars, faults>>

\* removeDeployment, clearHistory.
RemoveDeployment(d) ==
  /\ Serve(Nobody, "idle")
  /\ dstatus[d] \in Terminal
  /\ dstatus' = [dstatus EXCEPT ![d] = "removed"]
  /\ UNCHANGED <<token, attempt, age, rstatus, claimant, marker, command,
                 jobVars, lockVars, workerVars, apiSaw, cleanSet, accepted,
                 reconVars, faults>>

\* The marker's TTL of an hour.
MarkerExpires(d) ==
  /\ d \in marker
  /\ Fault("ttl")
  /\ marker' = marker \ {d}
  /\ UNCHANGED <<rowVars, command, jobVars, lockVars, workerVars, apiVars,
                 reconVars>>

-----------------------------------------------------------------------------
(***************************************************************************)
(* ReconcileStaleDeploymentsUseCase, one candidate at a time, and time.    *)
(***************************************************************************)

\* findStaleRunning with the cutoff execute passes.
StaleCandidate(d) == dstatus[d] = "running" /\ age[d] > CandidateAge

\* execute reads the candidate and its resource and applies staleAfterSeconds.
ReconcileSelect(d) ==
  /\ reconPc = "idle"
  /\ StaleCandidate(d)
  /\ age[d] > StaleAfter
  /\ reconPc' = "mark"
  /\ reconOn' = d
  /\ reconSaw' = rstatus[ResourceOf[d]]
  /\ UNCHANGED <<rowVars, marker, command, jobVars, lockVars, workerVars,
                 apiVars, faults>>

\* The WHERE clause of markStale without its heartbeat condition.
StaleRowAnyHeartbeat(d) == dstatus[d] = "running"

\* The WHERE clause of markStale.
StaleRow(d) == dstatus[d] = "running" /\ age[d] > StaleAfter

ReconcileMark ==
  /\ reconPc = "mark"
  /\ \/ /\ StaleRow(reconOn)
        /\ dstatus' = [dstatus EXCEPT ![reconOn] = "stale"]
        /\ token' = [token EXCEPT ![reconOn] = Nobody]
        /\ age' = [age EXCEPT ![reconOn] = 0]
        /\ reconPc' = IF reconSaw = "running" THEN "stop" ELSE "idle"
     \/ /\ ~StaleRow(reconOn)
        /\ reconPc' = "idle"
        /\ UNCHANGED <<dstatus, token, age>>
  /\ reconOn' = IF reconPc' = "idle" THEN Nobody ELSE reconOn
  /\ reconSaw' = "stopped"
  /\ UNCHANGED <<attempt, rstatus, claimant, marker, command, jobVars, lockVars,
                 workerVars, apiVars, faults>>

ReconcileStop ==
  /\ reconPc = "stop"
  /\ rstatus' = [rstatus EXCEPT ![ResourceOf[reconOn]] = "stopped"]
  /\ reconPc' = "idle"
  /\ reconOn' = Nobody
  /\ UNCHANGED <<dstatus, token, attempt, age, claimant, marker, command,
                 jobVars, lockVars, workerVars, apiVars, reconSaw, faults>>

\* The execution that keeps the heartbeat of d fresh.
Healthy(w, d) == Beating(w) /\ w \notin frozen /\ on[w] = d /\ OwnsRow(w, d)

\* A tick is longer than a heartbeat interval (15 s) and than a reconciliation
\* pass, which computes its cutoffs once.
Tick ==
  /\ reconPc = "idle"
  /\ \A d \in Deployment : (\E w \in Worker : Healthy(w, d)) => age[d] = 0
  /\ \E d \in Deployment : dstatus[d] = "running" /\ age[d] < AgeCap
  /\ age' = [d \in Deployment |->
               IF dstatus[d] = "running" /\ age[d] < AgeCap
                 THEN age[d] + 1 ELSE age[d]]
  /\ UNCHANGED <<dstatus, token, attempt, rstatus, claimant, marker, command,
                 jobVars, lockVars, workerVars, apiVars, reconVars, faults>>

-----------------------------------------------------------------------------
\* The steps of an execution that nothing but its own failure stops.
WorkerStep(w) ==
  \/ AcquireLock(w) \/ LoadDeployment(w) \/ ClaimForExecution(w)
  \/ PipelineSucceeds(w) \/ PipelineFails(w)
  \/ CatchError(w) \/ RecordFailure(w) \/ ClearMarker(w) \/ ReleaseLock(w)

WorkerFault(w) ==
  \/ AcquireFails(w) \/ ScopeFails(w) \/ LoadFails(w) \/ RenewFails(w)
  \/ HeartbeatFails(w) \/ CatchFails(w) \/ FinallyThrows(w) \/ ReleaseFails(w)
  \/ Crash(w) \/ Freeze(w) \/ Thaw(w)

ApiStep ==
  \/ CancelSetMarker \/ CancelLookup \/ KillSetMarker \/ JobRemove
  \/ MarkCancelledRead \/ MarkCancelledWrite \/ CleanWrite \/ CleanMark

ReconcileStep ==
  \/ \E d \in Deployment : ReconcileSelect(d)
  \/ ReconcileMark \/ ReconcileStop

Next ==
  \/ \E d \in Deployment :
       \/ QueueDeployment(d) \/ PublishCheck(d) \/ PublishAdd(d) \/ EvictJob(d)
       \/ StalledCheck(d) \/ CancelRequest(d) \/ KillBuild(d)
       \/ RemoveDeployment(d) \/ MarkerExpires(d)
       \/ \E w \in Worker : TakeJob(w, d)
  \/ \E w \in Worker : WorkerStep(w) \/ WorkerFault(w) \/ Heartbeat(w)
                       \/ RenewLoses(w)
  \/ \E r \in Resource : LockExpires(r)
  \/ CleanRead
  \/ ApiStep
  \/ ReconcileStep
  \/ Tick

Spec == Init /\ [][Next]_vars

\* Every process that is not suspended goes on: publishers, workers (a build
\* ends or is killed by its timeouts), heartbeat timers, BullMQ's stalled check,
\* Redis' expiry, API handlers, the reconciler's schedule and the clock.  Nobody
\* has to queue, cancel, evict, fail, crash or thaw.
Fairness ==
  /\ \A d \in Deployment :
       /\ WF_vars(PublishCheck(d))
       /\ WF_vars(PublishAdd(d))
       /\ WF_vars(StalledCheck(d))
       /\ WF_vars(\E w \in Worker : TakeJob(w, d))
  /\ \A w \in Worker : WF_vars(WorkerStep(w)) /\ WF_vars(Heartbeat(w))
  /\ \A r \in Resource : WF_vars(LockExpires(r))
  /\ WF_vars(ApiStep)
  /\ WF_vars(ReconcileStep)
  /\ WF_vars(Tick)

FairSpec == Spec /\ Fairness
-----------------------------------------------------------------------------
(***************************************************************************)
(* Properties.                                                             *)
(***************************************************************************)

\* Every variable keeps its type, and a slot that is in processJob works on a
\* deployment.
TypeOK ==
  /\ dstatus \in [Deployment -> DeploymentStatus]
  /\ token \in [Deployment -> Worker \cup {Nobody}]
  /\ attempt \in [Deployment -> Nat]
  /\ age \in [Deployment -> Nat]
  /\ rstatus \in [Resource -> ResourceStatus]
  /\ marker \in SUBSET Deployment
  /\ command \in [Deployment -> CommandState]
  /\ job \in [Deployment -> JobState]
  /\ made \in [Deployment -> Nat]
  /\ stalls \in [Deployment -> Nat]
  /\ runner \in [Deployment -> Worker \cup {Nobody}]
  /\ lock \in [Resource -> Worker \cup {Nobody}]
  /\ leaked \in SUBSET Resource
  /\ pc \in [Worker -> Control]
  /\ on \in [Worker -> Deployment \cup {Nobody}]
  /\ \A w \in Worker : pc[w] # "idle" => on[w] \in Deployment
  /\ claimed \in SUBSET Worker
  /\ lockLost \in SUBSET Worker
  /\ leaseLost \in SUBSET Worker
  /\ sawCancel \in SUBSET Worker
  /\ throws \in SUBSET Worker
  /\ frozen \in SUBSET Worker
  /\ paused \in SUBSET Worker
  /\ apiPc \in ApiControl
  /\ apiOn \in Deployment \cup {Nobody}
  /\ apiPc \in {"setMarker", "lookup", "kill", "remove", "mark", "write"} =>
       apiOn \in Deployment
  /\ apiSaw \in DeploymentStatus
  /\ cleanSet \in SUBSET Deployment
  /\ requests \in Nat
  /\ reconPc \in {"idle", "mark", "stop"}
  /\ reconOn \in Deployment \cup {Nobody}
  /\ reconPc # "idle" => reconOn \in Deployment
  /\ reconSaw \in ResourceStatus
  /\ faults \in Nat
  /\ claimant \in [Deployment -> Worker \cup {Nobody}]
  /\ accepted \in SUBSET Deployment

\* Executions between ResourceLock.acquire and release, and those of them that
\* may have lost the lease: suspended since they took it, or told so by renew.
PastLock(w) == pc[w] \notin {"idle", "took"}
Doubtful(w) == w \in lockLost \cup paused

\* Redis locks serialize the builds of a resource: of two executions that are
\* past ResourceLock.acquire for the same resource, one has been suspended since
\* it took the lock or knows that its lease is lost.
Exclusion ==
  \A v, w \in Worker :
    v # w /\ PastLock(v) /\ PastLock(w) /\ ResourceOf[on[v]] = ResourceOf[on[w]]
      => Doubtful(v) \/ Doubtful(w)

\* Why: an execution beyond doubt is the one whose token is in Redis.
HolderIsKnown ==
  /\ frozen \subseteq paused
  /\ \A w \in Worker :
       PastLock(w) /\ ~Doubtful(w) => lock[ResourceOf[on[w]]] = w

\* The step of w that ends its execution of d with flushFinalLogs.
Settles(w, d) ==
  /\ on[w] = d
  /\ pc[w] \in {"running", "failing"}
  /\ pc'[w] = "closing"

\* The execution token fences off zombies: only the execution that claimed the
\* row last gets to record an outcome, although earlier ones may still run,
\* whatever happened to locks, jobs and heartbeats.
OnlyLatestClaimantSettles ==
  [][\A d \in Deployment :
       dstatus[d] = "running" /\ dstatus'[d] \in {"success", "failed", "retrying"}
         => claimant[d] \in Worker /\ Settles(claimant[d], d)]_vars

\* Why: a running row carries the token of its latest claimant.
TokenIsClaimants ==
  \A d \in Deployment :
    dstatus[d] = "running" => token[d] \in Worker /\ token[d] = claimant[d]

\* The reconciler never gives up an execution that was never suspended: between
\* its read and markStale another worker may have taken the deployment over.
HealthyNeverStale ==
  [][\A d \in Deployment, w \in Worker :
       dstatus[d] = "running" /\ dstatus'[d] = "stale" /\ Healthy(w, d)
         => w \in paused]_vars

\* Why: an execution has claimed its row only once it runs, and the heartbeat of
\* one that was never suspended is at most a tick old.
FreshWhileHealthy ==
  /\ \A w \in claimed : pc[w] \notin {"idle", "took", "locked", "found"}
  /\ \A d \in Deployment, w \in Worker :
       Healthy(w, d) /\ w \notin paused => age[d] <= 1

\* The record of a deployment as Lifecycle sees it.
Abstract ==
  INSTANCE Lifecycle WITH
    status <- dstatus,
    owner <- [d \in Deployment |->
                IF dstatus[d] = "running" THEN token[d] ELSE Nobody]

\* Workers, API and reconciler together move the records along Lifecycle: a
\* terminal deployment is never executed again, although jobs are delivered more
\* than once and requests write what they decided on an earlier read.
ImplementsLifecycle == Abstract!LifecycleSpec

\* Why: no command, job, execution or request is about a row not yet written.
NothingBeforeTheRow ==
  \A d \in Deployment :
    dstatus[d] = "none" =>
      /\ command[d] = "none" /\ job[d] = "none"
      /\ \A w \in Worker : on[w] # d
      /\ apiOn # d /\ reconOn # d /\ d \notin cleanSet

\* The inductive invariant behind the safety properties.
DeploymentInv ==
  /\ TypeOK
  /\ HolderIsKnown
  /\ TokenIsClaimants
  /\ FreshWhileHealthy
  /\ NothingBeforeTheRow

\* No deployment waits or runs for ever, although a worker may crash at any step:
\* the row, the job, the locks and the reconciler bring each to its end.
EveryDeploymentEnds ==
  \A d \in Deployment :
    dstatus[d] = "queued" ~> dstatus[d] \in Terminal \cup {"removed"}

\* No resource stays locked: an execution releases its lease or stops renewing
\* it, and the next deployment of the resource can start.
EveryLockIsReleased ==
  \A r \in Resource : lock[r] # Nobody ~> lock[r] = Nobody

\* Abandoned state is repaired without the original job: a deployment that is
\* to be retried does not stay so for ever.
EveryRetryHappens ==
  \A d \in Deployment : dstatus[d] = "retrying" ~> dstatus[d] # "retrying"

\* A cancellation accepted for a running build ends it: the deployment is not
\* executed again.
AcceptedCancellationHolds ==
  [][\A d \in accepted : attempt'[d] = attempt[d]]_vars
=============================================================================
