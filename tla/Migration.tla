------------------------------ MODULE Migration ------------------------------
(***************************************************************************)
(* The migration of one application from a source to a target server: the  *)
(* workload_migration row with its execution token, the workers that carry *)
(* it from preflight to cutover, the rollback when a step fails after the  *)
(* cutover has begun, and the operator who cancels, rolls back or confirms.*)
(*                                                                         *)
(* A worker's lease is the row's token, the id of its job.  Its heartbeat  *)
(* is written only by the steps themselves, so it may grow old while a     *)
(* step is under way.  Services live on the servers, outside the database; *)
(* the row only remembers whether the shadow was deployed.  The routes of  *)
(* the servers' proxies, which follow the services, are left out.          *)
(***************************************************************************)
EXTENDS Naturals

CONSTANTS
  Worker,           \* worker slots of the migration queue
  None,             \* stands for NULL
  JobAttempts,      \* attempts of one BullMQ job
  MaxStalledCount,  \* redeliveries of a silent job before BullMQ fails it
  MaxRequests,      \* bound on requests of the operator
  FaultKinds,       \* which of "start", "crash", "stall", "db" happen
  MaxFaults         \* bound on faults, unexpected process starts included

ASSUME MigrationAssumption ==
  /\ None \notin Worker
  /\ None \notin {"migrate", "rollback", "recovery"}
  /\ JobAttempts \in Nat \ {0}
  /\ MaxStalledCount \in Nat
  /\ MaxRequests \in Nat
  /\ MaxFaults \in Nat

VARIABLES
  status,           \* workload_migration.status, "absent" before the request
  token,            \* execution_token: the job that executes the migration
  cancelRequested,  \* cancel_requested
  shadow,           \* checkpoint.shadowDeployed
  server,           \* resource.server_id
  services,         \* the servers that run the application
  deployment,       \* status of the deployment record of the migration
  jobState, tries, stalls, holder,  \* BullMQ: module JobQueue
  pc,               \* where each worker is in execute
  job,              \* the job it works on
  seen,             \* the status of the row as it read it last
  seenShadow,       \* and its checkpoint
  started,          \* cutoverStarted
  cancelling,       \* the operator's cancellation is between read and write
  rollingBack,      \* so is the operator's request to roll back
  confirming,       \* where the operator's confirmation is
  requests,         \* requests of the operator so far
  faults,           \* faults so far
  usurped,          \* history: a live worker lost its lease, or shares it
  raced,            \* history: a rollback met a confirmation or a finished row
  astray,           \* history: a rollback the row or the resource do not show
  misreported,      \* history: servers whose last removal did not end as it said
  starved           \* history: a job lost an attempt to a failing write

\* The job of the request, of the operator's rollback, of a process start.
Job == {"migrate", "rollback", "recovery"}
Server == {"source", "target"}

INSTANCE JobQueue WITH Slot <- Worker

rowVars == <<status, token, cancelRequested, shadow>>
jobVars == <<jobState, tries, stalls, holder>>
workerVars == <<pc, job, seen, seenShadow, started>>
operatorVars == <<cancelling, rollingBack, confirming, requests>>
historyVars == <<usurped, raced, astray, misreported, starved>>
vars == <<rowVars, server, services, deployment, jobVars, workerVars,
          operatorVars, faults, historyVars>>

\* TERMINAL_WORKLOAD_MIGRATION_STATUSES.
Terminal == {"completed", "failed", "cancelled"}
\* From here on a failure is rolled back and a cancellation refused.
CutOver == {"cutting-over", "awaiting-confirmation", "rolling-back"}
\* ACTIVE_STATUSES.
Active == {"queued", "preflight", "transferring", "shadow-deploying",
           "validating"} \union CutOver
Status == {"absent"} \union Active \union Terminal

\* ALLOWED_TRANSITIONS.
Allowed(from, to) ==
  \/ to = "preflight" /\ from = "queued"
  \/ to = "transferring" /\ from = "preflight"
  \/ to = "shadow-deploying" /\ from = "transferring"
  \/ to = "validating" /\ from = "shadow-deploying"
  \/ to = "cutting-over" /\ from = "validating"
  \/ to = "awaiting-confirmation" /\ from = "cutting-over"
  \/ to = "completed" /\ from = "awaiting-confirmation"
  \/ /\ to = "rolling-back"
     /\ from \in {"validating", "cutting-over", "awaiting-confirmation"}
  \/ /\ to = "failed"
     /\ from \in {"preflight", "transferring", "shadow-deploying",
                  "validating", "cutting-over", "rolling-back"}
  \/ /\ to = "cancelled"
     /\ from \in {"queued", "preflight", "transferring", "shadow-deploying",
                  "validating", "rolling-back"}

Control == {"idle", "claim", "top", "step", "checkpoint", "deployed", "commit",
            "publish", "place", "cancel", "cancelled", "record", "undo",
            "replace", "fail"}

-----------------------------------------------------------------------------
Init ==
  /\ status = "absent"
  /\ token = None
  /\ cancelRequested = FALSE
  /\ shadow = FALSE
  /\ server = "source"
  /\ services = {"source"}
  /\ deployment = "none"
  /\ QueueInit
  /\ pc = [w \in Worker |-> "idle"]
  /\ job = [w \in Worker |-> None]
  /\ seen = [w \in Worker |-> "absent"]
  /\ seenShadow = [w \in Worker |-> FALSE]
  /\ started = [w \in Worker |-> FALSE]
  /\ cancelling = FALSE
  /\ rollingBack = FALSE
  /\ confirming = "idle"
  /\ requests = 0
  /\ faults = 0
  /\ usurped = FALSE
  /\ raced = FALSE
  /\ astray = FALSE
  /\ misreported = {}
  /\ starved = FALSE

\* A fault of kind k, while the bound allows one.
Fault(k) ==
  /\ k \in FaultKinds
  /\ faults < MaxFaults
  /\ faults' = faults + 1

\* A slot that goes idle and keeps its job.
LeaveWithJob(w) ==
  /\ pc' = [pc EXCEPT ![w] = "idle"]
  /\ UNCHANGED <<job, seen, seenShadow, started>>

\* Slot w is done with its job.
Leave(w) ==
  /\ pc' = [pc EXCEPT ![w] = "idle"]
  /\ job' = [job EXCEPT ![w] = None]
  /\ seen' = [seen EXCEPT ![w] = "absent"]
  /\ seenShadow' = [seenShadow EXCEPT ![w] = FALSE]
  /\ started' = [started EXCEPT ![w] = FALSE]

\* Slot w goes on to c with what it has read.
GoTo(w, c) ==
  /\ pc' = [pc EXCEPT ![w] = c]
  /\ UNCHANGED <<job, seen, seenShadow, started>>

\* The catch block of execute for worker w with a row in status s: it rolls
\* a begun cutover back, and records that first where the status allows it.
Catch(w, s) ==
  IF ~started[w] THEN "fail"
  ELSE IF Allowed(s, "rolling-back") THEN "record"
  ELSE "undo"

\* A step throws.
Throw(w) == GoTo(w, Catch(w, seen[w]))

\* Where a worker moves the placement back to the source.
Reverting == {"undo", "place", "replace"}

\* Worker w is past its claim.
Executing(w) == pc[w] \notin {"idle", "claim"}

\* Writing whoever has the lease.
OwnedByAnyone(w) == status \notin Terminal

\* Writing whatever the status is.
OwnedByToken(w) == token = job[w]

\* The WHERE clause of updateOwned.
Owned(w) == status \notin Terminal /\ token = job[w]

-----------------------------------------------------------------------------
(***************************************************************************)
(* The request, the queue, and processes that start and die.               *)
(***************************************************************************)

\* MigrateResourceUseCase: deployment, migration and outbox command in one
\* transaction.
Migrate ==
  /\ status = "absent"
  /\ status' = "queued"
  /\ deployment' = "queued"
  /\ JobAdded("migrate")
  /\ UNCHANGED <<token, cancelRequested, shadow, server, services,
                 workerVars, operatorVars, faults, historyVars>>

\* A process starts: enqueueResumable.
EnqueueResumable ==
  /\ status \in Active \ {"awaiting-confirmation"}
  /\ jobState["recovery"] = "none"
  /\ Fault("start")
  /\ JobAdded("recovery")
  /\ UNCHANGED <<rowVars, server, services, deployment, workerVars,
                 operatorVars, historyVars>>

\* A free slot takes a job under its lock.
Take(w, j) ==
  /\ pc[w] = "idle"
  /\ JobTaken(w, j)
  /\ pc' = [pc EXCEPT ![w] = "claim"]
  /\ job' = [job EXCEPT ![w] = j]
  /\ UNCHANGED <<rowVars, server, services, deployment, seen, seenShadow,
                 started, operatorVars, faults, historyVars>>

\* The stalled check finds the lock of an active job expired.
JobStalls(j) ==
  /\ JobFoundSilent(j)
  /\ \/ holder[j] = None /\ UNCHANGED faults
     \/ holder[j] # None /\ Fault("stall")
  /\ UNCHANGED <<rowVars, server, services, deployment, workerVars,
                 operatorVars, historyVars>>

\* The process of slot w dies.
Crash(w) ==
  /\ pc[w] # "idle"
  /\ Fault("crash")
  /\ JobDropped(w, job[w])
  /\ Leave(w)
  /\ astray' = (astray \/ (/\ pc[w] \in Reverting
                           /\ server \notin services
                           /\ ~Owned(w)))
  /\ UNCHANGED <<rowVars, server, services, deployment, operatorVars,
                 usurped, raced, misreported, starved>>

(***************************************************************************)
(* The lease.                                                              *)
(***************************************************************************)

\* The WHERE clause of claim, but for the age of the heartbeat.
Claimable(j) ==
  /\ status \in Active
  /\ \/ status = "queued"
     \/ token = None
     \/ token = j

\* The heartbeat of another execution may be five minutes old at any time.
Lapsed == status \in Active

\* The UPDATE of claim.
TakeLease(w) ==
  /\ pc[w] = "claim"
  /\ Claimable(job[w]) \/ Lapsed
  /\ usurped' = \/ usurped
                \/ \E v \in Worker :
                     v # w /\ Executing(v) /\ job[v] \in {token, job[w]}
  /\ token' = job[w]

\* claim succeeds; the worker notes whether the cutover had begun.
Claim(w) ==
  /\ TakeLease(w)
  /\ pc' = [pc EXCEPT ![w] = "top"]
  /\ seen' = [seen EXCEPT ![w] = status]
  /\ seenShadow' = [seenShadow EXCEPT ![w] = shadow]
  /\ started' = [started EXCEPT ![w] = status \in CutOver]
  /\ UNCHANGED <<status, cancelRequested, shadow, server, services,
                 deployment, jobVars, job, operatorVars,
                 faults, raced, astray, misreported, starved>>

\* claim succeeds and the read of the resource throws, outside the try block.
ClaimInVain(w) ==
  /\ TakeLease(w)
  /\ Fault("db")
  /\ starved' = TRUE
  /\ JobThrows(w, job[w])
  /\ Leave(w)
  /\ UNCHANGED <<status, cancelRequested, shadow, server, services,
                 deployment, operatorVars, raced, astray, misreported>>

\* Nothing is left to do: the job is complete.
ClaimSettled(w) ==
  /\ pc[w] = "claim"
  /\ ~Claimable(job[w])
  /\ status \in Terminal \union {"awaiting-confirmation"}
  /\ JobReturns(w, job[w])
  /\ Leave(w)
  /\ UNCHANGED <<rowVars, server, services, deployment, operatorVars, faults,
                 historyVars>>

\* Another worker has the lease, or the statement fails: try again later.
ClaimRefused(w) ==
  /\ pc[w] = "claim"
  /\ \/ /\ ~Claimable(job[w])
        /\ status \notin Terminal \union {"awaiting-confirmation"}
        /\ UNCHANGED <<faults, starved>>
     \/ Fault("db") /\ starved' = TRUE
  /\ JobThrows(w, job[w])
  /\ Leave(w)
  /\ UNCHANGED <<rowVars, server, services, deployment, operatorVars,
                 usurped, raced, astray, misreported>>

\* transition to s succeeds, and the worker goes on to c.
Transition(w, s, c) ==
  /\ Allowed(seen[w], s)
  /\ Owned(w)
  /\ status' = s
  /\ seen' = [seen EXCEPT ![w] = s]
  /\ pc' = [pc EXCEPT ![w] = c]
  /\ UNCHANGED <<token, cancelRequested, job>>

\* The lease is lost, or the statement fails.
CannotWrite(w) ==
  \/ ~Owned(w) /\ UNCHANGED faults
  \/ Owned(w) /\ Fault("db")

(***************************************************************************)
(* The loop of execute.                                                    *)
(***************************************************************************)

\* The row is read; a requested cancellation comes before the next step, and
\* after the cutover has begun it is an error.
Top(w) ==
  /\ pc[w] = "top"
  /\ seen' = [seen EXCEPT ![w] = status]
  /\ seenShadow' = [seenShadow EXCEPT ![w] = shadow]
  /\ pc' = [pc EXCEPT ![w] = IF ~cancelRequested THEN "step"
                             ELSE IF status \notin CutOver THEN "cancel"
                             ELSE Catch(w, status)]
  /\ UNCHANGED <<rowVars, server, services, deployment, jobVars, job,
                 started, operatorVars, faults, historyVars>>

\* Reading the row, or a step before the cutover, throws.
StepFails(w) ==
  /\ \/ pc[w] = "top" /\ Fault("db")
     \/ /\ pc[w] = "step"
        /\ seen[w] \in {"queued", "transferring"}
        /\ CannotWrite(w)
  /\ Throw(w)
  /\ UNCHANGED <<rowVars, server, services, deployment, jobVars,
                 operatorVars, historyVars>>

\* The first transition; and transfer, which only reports its progress.
Advance(w) ==
  /\ pc[w] = "step"
  /\ \/ seen[w] = "queued" /\ Transition(w, "preflight", "top")
     \/ seen[w] = "transferring" /\ Transition(w, "shadow-deploying", "top")
  /\ UNCHANGED <<shadow, server, services, deployment, jobVars,
                 seenShadow, started, operatorVars, faults, historyVars>>

\* preflight: among its checks, the target has no service of that name.
Preflight(w) ==
  /\ pc[w] = "step"
  /\ seen[w] = "preflight"
  /\ "target" \notin services
  /\ Transition(w, "transferring", "top")
  /\ UNCHANGED <<shadow, server, services, deployment, jobVars,
                 seenShadow, started, operatorVars, faults, historyVars>>

\* A check fails, or the transition.
PreflightFails(w) ==
  /\ pc[w] = "step"
  /\ seen[w] = "preflight"
  /\ CannotWrite(w) \/ UNCHANGED faults
  /\ Throw(w)
  /\ UNCHANGED <<rowVars, server, services, deployment, jobVars,
                 operatorVars, historyVars>>

\* deployShadow creates or updates the service on the target.
DeployShadow(w) ==
  /\ pc[w] = "step"
  /\ seen[w] = "shadow-deploying"
  /\ services' = services \union {"target"}
  /\ GoTo(w, "checkpoint")
  /\ UNCHANGED <<rowVars, server, deployment, jobVars, operatorVars,
                 faults, historyVars>>

\* deployAppImage throws, before or after the service was created.
DeployShadowFails(w) ==
  /\ pc[w] = "step"
  /\ seen[w] = "shadow-deploying"
  /\ services' \in {services, services \union {"target"}}
  /\ Throw(w)
  /\ UNCHANGED <<rowVars, server, deployment, jobVars, operatorVars,
                 faults, historyVars>>

\* Progress is reported without the checkpoint.
CheckpointForgotten(w) ==
  /\ pc[w] = "checkpoint"
  /\ Owned(w)
  /\ GoTo(w, "deployed")
  /\ UNCHANGED <<rowVars, server, services, deployment, jobVars, operatorVars,
                 faults, historyVars>>

\* onProgress: the checkpoint remembers the shadow.
Checkpoint(w) ==
  /\ pc[w] = "checkpoint"
  /\ Owned(w)
  /\ shadow' = TRUE
  /\ GoTo(w, "deployed")
  /\ UNCHANGED <<status, token, cancelRequested, server, services, deployment,
                 jobVars, operatorVars, faults, historyVars>>

\* And the status moves on.
Deployed(w) ==
  /\ pc[w] = "deployed"
  /\ Transition(w, "validating", "top")
  /\ UNCHANGED <<shadow, server, services, deployment, jobVars, seenShadow,
                 started, operatorVars, faults, historyVars>>

\* The shadow is there and healthy: the cutover begins.
ValidateShadow(w) ==
  /\ pc[w] = "step"
  /\ seen[w] = "validating"
  /\ "target" \in services
  /\ Transition(w, "cutting-over", "top")
  /\ started' = [started EXCEPT ![w] = TRUE]
  /\ UNCHANGED <<shadow, server, services, deployment, jobVars, seenShadow,
                 operatorVars, faults, historyVars>>

\* The shadow is not healthy, or a write before the cutover fails.
ValidateShadowFails(w) ==
  /\ \/ pc[w] \in {"checkpoint", "deployed"} /\ CannotWrite(w)
     \/ /\ pc[w] = "step"
        /\ seen[w] = "validating"
        /\ CannotWrite(w) \/ UNCHANGED faults
  /\ Throw(w)
  /\ UNCHANGED <<rowVars, server, services, deployment, jobVars,
                 operatorVars, historyVars>>

\* cutover: the target's Caddy routes to the application, or an error.
Cutover(w) ==
  /\ pc[w] = "step"
  /\ seen[w] = "cutting-over"
  /\ started' = [started EXCEPT ![w] = TRUE]
  /\ \E c \in {"commit", "record"} : pc' = [pc EXCEPT ![w] = c]
  /\ UNCHANGED <<rowVars, server, services, deployment, jobVars, job, seen,
                 seenShadow, operatorVars, faults, historyVars>>

\* Placement and status change in one transaction.
Commit(w) ==
  /\ pc[w] = "commit"
  /\ Transition(w, "awaiting-confirmation", "publish")
  /\ server' = "target"
  /\ UNCHANGED <<shadow, services, deployment, jobVars, seenShadow, started,
                 operatorVars, faults, historyVars>>

\* The transaction fails, or the update of the deployment after it.
CommitFails(w) ==
  /\ \/ pc[w] = "commit" /\ CannotWrite(w)
     \/ pc[w] = "publish" /\ Fault("db")
  /\ Throw(w)
  /\ UNCHANGED <<rowVars, server, services, deployment, jobVars,
                 operatorVars, historyVars>>

\* The deployment record says success.
Publish(w) ==
  /\ pc[w] = "publish"
  /\ deployment' = "success"
  /\ JobReturns(w, job[w])
  /\ Leave(w)
  /\ UNCHANGED <<rowVars, server, services, operatorVars, faults,
                 historyVars>>

\* Somebody else has finished the migration.
Finished(w) ==
  /\ pc[w] = "step"
  /\ seen[w] \in Terminal \union {"awaiting-confirmation"}
  /\ JobReturns(w, job[w])
  /\ Leave(w)
  /\ UNCHANGED <<rowVars, server, services, deployment, operatorVars, faults,
                 historyVars>>

\* removeResource on server s, which returns or throws.  It returns with the
\* service still there when the error of its removal is only logged, and it
\* throws with the service gone when the wait for the containers does.
RemoveResource(s, returns) ==
  /\ services' \in {services, services \ {s}}
  /\ misreported' = IF returns <=> s \notin services'
                      THEN misreported \ {s}
                      ELSE misreported \union {s}

\* cleanupShadow as worker w knows the migration: without the checkpoint it
\* does nothing.
CleanupShadow(w) ==
  IF seenShadow[w] THEN RemoveResource("target", TRUE)
                   ELSE UNCHANGED <<services, misreported>>

\* cleanupShadow throws.
CleanupShadowThrows(w) == seenShadow[w] /\ RemoveResource("target", FALSE)

\* The shadow is gone although the row is not rolled back.
ShadowMissed ==
  "target" \notin services' /\ status \notin {"rolling-back", "failed"}

\* A rollback that leaves the resource placed on the target.
RollbackWithoutPlacing(w) ==
  /\ pc[w] = "step"
  /\ seen[w] = "rolling-back"
  /\ CleanupShadow(w)
  /\ astray' = (astray \/ status \notin {"rolling-back", "failed"})
  /\ GoTo(w, "fail")
  /\ UNCHANGED <<rowVars, server, deployment, jobVars, operatorVars, faults,
                 usurped, raced, starved>>

\* A rolling-back migration: the shadow is removed.
Rollback(w) ==
  /\ pc[w] = "step"
  /\ seen[w] = "rolling-back"
  /\ CleanupShadow(w)
  /\ astray' = (astray \/ status \notin {"rolling-back", "failed"})
  /\ GoTo(w, "place")
  /\ UNCHANGED <<rowVars, server, deployment, jobVars, operatorVars, faults,
                 usurped, raced, starved>>

\* And the resource is placed back on the source.
Place(w) ==
  /\ pc[w] = "place"
  /\ server' = "source"
  /\ GoTo(w, "fail")
  /\ UNCHANGED <<rowVars, services, deployment, jobVars, operatorVars,
                 faults, historyVars>>

\* Removing the shadow throws; who knows of the cutover tries once more.
RollbackFails(w) ==
  /\ pc[w] = "step"
  /\ seen[w] = "rolling-back"
  /\ CleanupShadowThrows(w)
  /\ astray' = (astray \/ ShadowMissed \/ (~started[w] /\ server \notin services'))
  /\ Throw(w)
  /\ UNCHANGED <<rowVars, server, deployment, jobVars, operatorVars, faults,
                 usurped, raced, starved>>

\* The write of the placement fails.
PlaceFails(w) ==
  /\ pc[w] = "place"
  /\ Fault("db")
  /\ astray' = (astray \/ (~started[w] /\ server \notin services))
  /\ Throw(w)
  /\ UNCHANGED <<rowVars, server, services, deployment, jobVars, operatorVars,
                 usurped, raced, misreported, starved>>

(***************************************************************************)
(* cancel.                                                                 *)
(***************************************************************************)

\* The shadow is removed, or removing it throws.
Cancel(w) ==
  /\ pc[w] = "cancel"
  /\ \/ CleanupShadow(w) /\ GoTo(w, "cancelled")
     \/ CleanupShadowThrows(w) /\ Throw(w)
  /\ astray' = (astray \/ status \notin Active \ CutOver)
  /\ UNCHANGED <<rowVars, server, deployment, jobVars, operatorVars, faults,
                 usurped, raced, starved>>

\* The row and the deployment record say cancelled.
Cancelled(w) ==
  /\ pc[w] = "cancelled"
  /\ Allowed(seen[w], "cancelled")
  /\ Owned(w)
  /\ status' = "cancelled"
  /\ deployment' = "cancelled"
  /\ JobReturns(w, job[w])
  /\ Leave(w)
  /\ UNCHANGED <<token, cancelRequested, shadow, server, services,
                 operatorVars, faults, historyVars>>

\* The transition is refused or fails, or the deployment's update after it.
CancelledFails(w) ==
  /\ pc[w] = "cancelled"
  /\ \/ ~Allowed(seen[w], "cancelled") /\ UNCHANGED <<status, faults>>
     \/ CannotWrite(w) /\ UNCHANGED status
     \/ /\ Allowed(seen[w], "cancelled") /\ Owned(w)
        /\ Fault("db")
        /\ status' = "cancelled"
  /\ Throw(w)
  /\ UNCHANGED <<token, cancelRequested, shadow, server, services, deployment,
                 jobVars, operatorVars, historyVars>>

(***************************************************************************)
(* The catch block of execute, and fail.                                   *)
(***************************************************************************)

\* The history of a rollback that meets a confirmation or a finished row, or
\* that comes when a confirmation has already removed the source.
RollbackBegins ==
  /\ raced' = (raced \/ confirming # "idle" \/ status \in Terminal)
  /\ astray' = (astray \/ "source" \notin services)

\* A step failed after the cutover began: the row says rolling-back.
RecordRollback(w) ==
  /\ pc[w] = "record"
  /\ Transition(w, "rolling-back", "undo")
  /\ seenShadow' = [seenShadow EXCEPT ![w] = shadow]
  /\ RollbackBegins
  /\ UNCHANGED <<shadow, server, services, deployment, jobVars, started,
                 operatorVars, faults, usurped, misreported, starved>>

\* The transition fails, which is ignored.
RecordFails(w) ==
  /\ pc[w] = "record"
  /\ CannotWrite(w)
  /\ GoTo(w, "undo")
  /\ UNCHANGED <<rowVars, server, services, deployment, jobVars,
                 operatorVars, historyVars>>

\* The shadow is removed, whoever has the lease by now.
Undo(w) ==
  /\ pc[w] = "undo"
  /\ CleanupShadow(w)
  /\ astray' = (astray \/ status \notin {"rolling-back", "failed"})
  /\ GoTo(w, "replace")
  /\ UNCHANGED <<rowVars, server, deployment, jobVars, operatorVars, faults,
                 usurped, raced, starved>>

\* And the resource is placed back on the source; a failure only adds to the
\* error message.
Replace(w) ==
  /\ pc[w] = "replace"
  /\ \/ server' = "source" /\ UNCHANGED <<faults, astray>>
     \/ /\ Fault("db")
        /\ astray' = (astray \/ server \notin services)
        /\ UNCHANGED server
  /\ GoTo(w, "fail")
  /\ UNCHANGED <<rowVars, services, deployment, jobVars, operatorVars,
                 usurped, raced, misreported, starved>>

\* Removing the shadow throws: the resource stays where it is placed, and the
\* shadow may be gone.
UndoFails(w) ==
  /\ pc[w] = "undo"
  /\ CleanupShadowThrows(w)
  /\ astray' = (astray \/ ShadowMissed \/ server \notin services')
  /\ GoTo(w, "fail")
  /\ UNCHANGED <<rowVars, server, deployment, jobVars, operatorVars, faults,
                 usurped, raced, starved>>

\* The first write of fail, if the row is still the worker's.
RowFails(w) ==
  IF Owned(w) THEN status' = "failed" /\ token' = None
              ELSE UNCHANGED <<status, token>>

\* fail: the row, and in any case the deployment record, say failed.  The job
\* is complete.
Fail(w) ==
  /\ pc[w] = "fail"
  /\ RowFails(w)
  /\ deployment' = "failed"
  /\ JobReturns(w, job[w])
  /\ Leave(w)
  /\ UNCHANGED <<cancelRequested, shadow, server, services, operatorVars,
                 faults, historyVars>>

\* Either write fails: the job is tried again.
FailFails(w) ==
  /\ pc[w] = "fail"
  /\ Fault("db")
  /\ starved' = TRUE
  /\ RowFails(w) \/ UNCHANGED <<status, token>>
  /\ JobThrows(w, job[w])
  /\ Leave(w)
  /\ UNCHANGED <<cancelRequested, shadow, server, services, deployment,
                 operatorVars, usurped, raced, astray, misreported>>

(***************************************************************************)
(* The operator.  Each request reads the row first and writes it by id.    *)
(***************************************************************************)

\* One more request, while the bound allows it.
Request ==
  /\ requests < MaxRequests
  /\ requests' = requests + 1

\* CancelWorkloadMigrationUseCase finds the cutover not begun.
RequestCancel ==
  /\ Request
  /\ status \in Active \ CutOver
  /\ ~cancelRequested /\ ~cancelling
  /\ cancelling' = TRUE
  /\ UNCHANGED <<rowVars, server, services, deployment, jobVars, workerVars,
                 rollingBack, confirming, faults, historyVars>>

\* And sets the flag.
WriteCancel ==
  /\ cancelling
  /\ cancelling' = FALSE
  /\ cancelRequested' = TRUE
  /\ UNCHANGED <<status, token, shadow, server, services, deployment,
                 jobVars, workerVars, rollingBack, confirming, requests, faults,
                 historyVars>>

\* RollbackWorkloadMigrationUseCase reads the row in its transaction.
RequestRollback ==
  /\ Request
  /\ Allowed(status, "rolling-back")
  /\ jobState["rollback"] = "none"
  /\ ~rollingBack
  /\ rollingBack' = TRUE
  /\ UNCHANGED <<rowVars, server, services, deployment, jobVars, workerVars,
                 cancelling, confirming, faults, historyVars>>

\* A rollback that forgets the outbox command.
WriteRollbackWithoutCommand ==
  /\ rollingBack
  /\ rollingBack' = FALSE
  /\ status' = "rolling-back"
  /\ token' = None
  /\ RollbackBegins
  /\ UNCHANGED <<cancelRequested, shadow, server, services, deployment,
                 jobVars, workerVars, cancelling, confirming, requests, faults,
                 usurped, misreported, starved>>

\* And takes the lease away, with an outbox command for a new execution.
WriteRollback ==
  /\ rollingBack
  /\ rollingBack' = FALSE
  /\ status' = "rolling-back"
  /\ token' = None
  /\ JobAdded("rollback")
  /\ RollbackBegins
  /\ UNCHANGED <<cancelRequested, shadow, server, services, deployment,
                 workerVars, cancelling, confirming, requests, faults,
                 usurped, misreported, starved>>

\* ConfirmWorkloadMigrationUseCase finds the migration awaiting it.
RequestConfirm ==
  /\ Request
  /\ confirming = "idle"
  /\ status = "awaiting-confirmation"
  /\ confirming' = "cleanup"
  /\ UNCHANGED <<rowVars, server, services, deployment, jobVars, workerVars,
                 cancelling, rollingBack, faults, historyVars>>

\* cleanupSource removes the source's service, or throws and the request ends.
CleanupSource ==
  /\ confirming = "cleanup"
  /\ \/ RemoveResource("source", TRUE) /\ confirming' = "check"
     \/ RemoveResource("source", FALSE) /\ confirming' = "idle"
  /\ UNCHANGED <<rowVars, server, deployment, jobVars, workerVars, cancelling,
                 rollingBack, requests, faults, usurped, raced, astray, starved>>

\* The second transaction reads the row again.
CheckConfirm ==
  /\ confirming = "check"
  /\ confirming' = IF status = "awaiting-confirmation" THEN "write" ELSE "idle"
  /\ UNCHANGED <<rowVars, server, services, deployment, jobVars, workerVars,
                 cancelling, rollingBack, requests, faults, historyVars>>

\* The second transaction fails, or the process of the request dies.
ConfirmFails ==
  /\ confirming \in {"check", "write"}
  /\ Fault("db") \/ Fault("crash")
  /\ confirming' = "idle"
  /\ UNCHANGED <<rowVars, server, services, deployment, jobVars, workerVars,
                 cancelling, rollingBack, requests, historyVars>>

\* And completes the migration.
WriteConfirm ==
  /\ confirming = "write"
  /\ confirming' = "idle"
  /\ status' = "completed"
  /\ token' = None
  /\ raced' = (raced \/ status # "awaiting-confirmation")
  /\ UNCHANGED <<cancelRequested, shadow, server, services, deployment,
                 jobVars, workerVars, cancelling, rollingBack, requests,
                 faults, usurped, astray, misreported, starved>>

-----------------------------------------------------------------------------
WorkerStep(w) ==
  \/ Claim(w) \/ ClaimInVain(w) \/ ClaimSettled(w) \/ ClaimRefused(w)
  \/ Top(w) \/ StepFails(w) \/ Advance(w)
  \/ Preflight(w) \/ PreflightFails(w)
  \/ DeployShadow(w) \/ DeployShadowFails(w)
  \/ Checkpoint(w) \/ Deployed(w)
  \/ ValidateShadow(w) \/ ValidateShadowFails(w)
  \/ Cutover(w) \/ Commit(w) \/ CommitFails(w) \/ Publish(w) \/ Finished(w)
  \/ Rollback(w) \/ RollbackFails(w)
  \/ Place(w) \/ PlaceFails(w)
  \/ Cancel(w) \/ Cancelled(w) \/ CancelledFails(w)
  \/ RecordRollback(w) \/ RecordFails(w)
  \/ Undo(w) \/ Replace(w) \/ UndoFails(w) \/ Fail(w) \/ FailFails(w)

OperatorStep ==
  \/ RequestCancel \/ WriteCancel
  \/ RequestRollback \/ WriteRollback
  \/ RequestConfirm \/ CleanupSource \/ CheckConfirm
  \/ ConfirmFails \/ WriteConfirm

Next ==
  \/ Migrate \/ EnqueueResumable
  \/ OperatorStep
  \/ \E w \in Worker : WorkerStep(w) \/ Crash(w)
  \/ \E w \in Worker, j \in Job : Take(w, j)
  \/ \E j \in Job : JobStalls(j)

Spec == Init /\ [][Next]_vars

(***************************************************************************)
(* Workers go on with what they do, free slots take pending jobs, BullMQ's *)
(* stalled check finds the jobs of dead slots.  It is enough that one of   *)
(* them goes on while any can: attempts, redeliveries and steps are        *)
(* bounded, so none can keep the others waiting for ever.  Nobody has to   *)
(* ask for anything, and no process has to start.                          *)
(***************************************************************************)
Fairness ==
  WF_vars(\/ \E w \in Worker : WorkerStep(w)
          \/ \E w \in Worker, j \in Job : Take(w, j)
          \/ \E j \in Job : holder[j] = None /\ JobStalls(j))

FairSpec == Spec /\ Fairness

-----------------------------------------------------------------------------
Flags == {cancelRequested, shadow, cancelling, rollingBack, usurped, raced,
          astray, starved}

TypeOK ==
  /\ status \in Status
  /\ token \in Job \union {None}
  /\ server \in Server
  /\ services \subseteq Server
  /\ misreported \subseteq Server
  /\ deployment \in {"none", "queued", "success", "failed", "cancelled"}
  /\ QueueTypeOK
  /\ pc \in [Worker -> Control]
  /\ job \in [Worker -> Job \union {None}]
  /\ \A w \in Worker : pc[w] = "idle" <=> job[w] = None
  /\ seen \in [Worker -> Status]
  /\ seenShadow \in [Worker -> BOOLEAN]
  /\ started \in [Worker -> BOOLEAN]
  /\ confirming \in {"idle", "cleanup", "check", "write"}
  /\ requests \in 0 .. MaxRequests
  /\ faults \in 0 .. MaxFaults
  /\ Flags \subseteq BOOLEAN

\* The application runs on the server its resource is placed on, through
\* crashes, retries, cancellations and rollbacks at any step, the operator's
\* rollback of a running cutover and a removal that throws once included.  The
\* exceptions: the time a rollback takes; a lease another worker got while its
\* owner lived (execute does not renew the heartbeat during a step); a rollback
\* that meets a confirmation, or comes after one that removed the source; and a
\* shadow removed although the row moved on, or for a placement that never came:
\* the last removal threw (RollbackServes), the write failed, or a worker died
\* before it that had no lease to pass on.
ServedWherePlaced ==
  \/ usurped \/ raced \/ astray
  \/ status = "rolling-back"
  \/ \E w \in Worker : pc[w] \in Reverting
  \/ server \in services

\* Without faults and races a settled migration is what its status says, on
\* the servers, in the resource and in the deployment record: a cancelled one
\* leaves nothing on the target, one that awaits confirmation runs on both
\* servers and is placed on the target, a completed one runs there alone.  A
\* server may differ only where the last removal from it did not end as
\* reported: with an error only logged, or thrown with the service gone.
SettledAsRecorded ==
  (/\ faults = 0 /\ ~usurped /\ ~raced
   /\ confirming = "idle"
   /\ \A w \in Worker : ~Executing(w)) =>
    /\ status = "cancelled" =>
         /\ server = "source" /\ "source" \in services
         /\ "target" \in services => "target" \in misreported
         /\ deployment = "cancelled"
    /\ status = "awaiting-confirmation" =>
         /\ server = "target" /\ "target" \in services
         /\ "source" \notin services => "source" \in misreported
         /\ deployment = "success"
    /\ status = "completed" =>
         /\ server = "target" /\ "target" \in services
         /\ "source" \in services => "source" \in misreported
         /\ deployment = "success"

\* What the runbook and the command promise: the source remains available, and
\* a migration that was rolled back and is over runs where it is placed.  But
\* cleanupSource removes the source before the confirmation is recorded, and a
\* removal that throws after the shadow is gone ends the rollback before the
\* resource is placed on the source.
RollbackServes ==
  status = "failed" /\ (\A w \in Worker : ~Executing(w)) => server \in services

\* A finished migration stays finished: a worker that lost its lease cannot
\* move it.  Only an operator's write by id after a read out of date can.
TerminalIsFinal ==
  [][(status \in Terminal) => (status' = status \/ raced')]_vars

\* Every change of the status is one of ALLOWED_TRANSITIONS, although workers
\* and operators check the transition against the status they read earlier,
\* and the UPDATE asks only for the lease or the id.  fail, which asks for no
\* transition, may end a migration in any state.  The exceptions are again a
\* lease taken from a living worker and a rollback that meets a confirmation.
StatusFollowsTable ==
  [][\/ status' = status
     \/ status = "absent"
     \/ Allowed(status, status')
     \/ status \notin Terminal /\ status' = "failed"
     \/ usurped' \/ raced']_vars

\* A requested migration settles, awaiting confirmation or finished, whatever
\* worker dies on it, also when the operator takes the lease away for a
\* rollback; unless a job lost an attempt to a failing write.
EveryMigrationSettles ==
  status \in Active \ {"awaiting-confirmation"} ~>
    status \in Terminal \union {"awaiting-confirmation"} \/ starved

-----------------------------------------------------------------------------
(***************************************************************************)
(* Why StatusFollowsTable holds: the parts of an inductive invariant.      *)
(***************************************************************************)

\* There is no lease before there is a row.
NoLeaseBeforeRow == status = "absent" => token = None

\* No two slots execute the same job.
SoleExecutor ==
  \/ usurped
  \/ \A v, w \in Worker :
       v # w /\ Executing(v) /\ Executing(w) => job[v] # job[w]

\* What the holder of the lease has read of the status is still true.
HolderKnowsStatus ==
  \/ usurped \/ status \in Terminal
  \/ \A w \in Worker : Executing(w) /\ token = job[w] => seen[w] = status

\* A migration that could be rolled back when the operator asked for it still
\* can, or it has ended.
RollbackStillDue ==
  \/ usurped \/ raced \/ ~rollingBack
  \/ status \in {"validating"} \union CutOver \union Terminal

MigrationInv ==
  /\ TypeOK
  /\ NoLeaseBeforeRow
  /\ SoleExecutor
  /\ HolderKnowsStatus
  /\ RollbackStillDue

(***************************************************************************)
(* Why ServedWherePlaced holds, for any number of faults.                  *)
(***************************************************************************)

\* The exceptions of ServedWherePlaced.
Exempt == usurped \/ raced \/ astray

\* A worker loses its lease only to a rollback or to the end of the migration.
LostLeaseIsLate ==
  \/ usurped \/ raced
  \/ \A w \in Worker : Executing(w) /\ token # job[w] =>
       status \in Terminal \union {"rolling-back"}

\* The holder of the lease knows that the cutover has begun, and so does who
\* is about to record a rollback.
HolderKnowsCutover ==
  \A w \in Worker :
    /\ pc[w] = "record" => started[w]
    /\ Executing(w) /\ token = job[w] /\ status \in CutOver
         => started[w] \/ usurped

\* Only a migration that was not cut over is being cancelled.
CancelsBeforeCutover ==
  \A w \in Worker : pc[w] \in {"cancel", "cancelled"} => seen[w] \notin CutOver

\* Who is about to place the resource on the source read a rolling-back row.
PlacesInRollback ==
  \A w \in Worker : pc[w] = "place" => seen[w] = "rolling-back"

\* The resource is placed on the target from the commit of the cutover on, and
\* the shadow is there from its validation on, unless it is rolled back.
PlacedByStatus ==
  \/ Exempt
  \/ /\ status \in {"cutting-over", "awaiting-confirmation", "completed"}
          => "target" \in services
     /\ status \in {"awaiting-confirmation", "completed"} => server = "target"
     /\ status \notin {"awaiting-confirmation", "completed", "rolling-back",
                       "failed"} => server = "source"

\* A removed shadow is part of a rollback.
UndoneInRollback ==
  Exempt \/ \A w \in Worker :
    pc[w] \in {"place", "replace"} => status \in {"rolling-back", "failed"}

\* The source is given up only for the target, and then nobody is going to
\* place the resource on the source again.
SourceGivenUpForTarget ==
  \/ Exempt
  \/ confirming = "idle" /\ "source" \in services
  \/ /\ server = "target"
     /\ status \in {"awaiting-confirmation", "completed", "failed"}
     /\ status = "failed" => \A w \in Worker : ~Executing(w)
     /\ \A w \in Worker : pc[w] \notin {"place", "replace"}

\* The holder of the lease ends a rollback only where the application is
\* served, or somebody is about to place it where it is.
RollbackEndsServed ==
  Exempt \/ \A w \in Worker :
    Executing(w) /\ token = job[w] /\ status = "rolling-back" /\ pc[w] = "fail"
      => \/ server \in services
         \/ \E v \in Worker : pc[v] \in Reverting

PlacementInv ==
  /\ LostLeaseIsLate
  /\ HolderKnowsCutover
  /\ CancelsBeforeCutover
  /\ PlacesInRollback
  /\ PlacedByStatus
  /\ UndoneInRollback
  /\ SourceGivenUpForTarget
  /\ RollbackEndsServed
  /\ ServedWherePlaced

(***************************************************************************)
(* Why SettledAsRecorded holds: without faults and races the job of the    *)
(* request is executed once, by one worker, until the migration settles or *)
(* is rolled back.                                                         *)
(***************************************************************************)

\* Without a fault a busy slot has its job's lock, and an active job its slot.
\* A job that is yet to be added is in no slot.
JobsAreKept ==
  faults = 0 =>
    /\ jobState["recovery"] = "none"
    /\ status = "absent" => jobState["migrate"] = "none"
    /\ rollingBack => jobState["rollback"] = "none"
    /\ \A w \in Worker :
         pc[w] # "idle" => jobState[job[w]] = "active" /\ holder[job[w]] = w
    /\ \A j \in Job : jobState[j] = "active" =>
         \E w \in Worker : holder[j] = w /\ job[w] = j

\* The statuses before the shadow is deployed.
BeforeShadow == {"queued", "preflight", "transferring", "shadow-deploying"}

\* The target is free, unless a removal returned with the service still there.
ShadowAsReported ==
  "source" \in services /\ ("target" \in services => "target" \in misreported)

\* Where the worker of the request is, and what it has done to the servers.
OnCourse(w) ==
  \/ /\ pc[w] \in {"top", "step", "cancel"}
     /\ status \in BeforeShadow
     /\ services = {"source"}
  \/ /\ pc[w] \in {"top", "step"}
     /\ status \in {"validating", "cutting-over"}
     /\ services = Server /\ shadow
  \/ /\ pc[w] = "cancel"
     /\ status = "validating"
     /\ services = Server /\ seenShadow[w]
  \/ /\ pc[w] = "cancelled"
     /\ status \in BeforeShadow \union {"validating"}
     /\ ShadowAsReported
  \/ /\ pc[w] = "checkpoint"
     /\ status = "shadow-deploying"
     /\ services = Server
  \/ /\ pc[w] = "deployed"
     /\ status = "shadow-deploying"
     /\ services = Server /\ shadow
  \/ /\ pc[w] \in {"commit", "record"}
     /\ status = "cutting-over"
     /\ services = Server
  \/ /\ pc[w] = "publish"
     /\ status \in {"awaiting-confirmation", "completed"}
  \/ /\ pc[w] = "fail"
     /\ status \in BeforeShadow \union {"validating"}

\* A migration without faults and races that is not rolled back.
Forward ==
  /\ faults = 0 /\ ~usurped /\ ~raced
  /\ status \notin {"rolling-back", "failed"}

CourseInv ==
  Forward =>
    /\ ~astray
    /\ jobState["rollback"] = "none"
    /\ status = "absent" => services = {"source"}
    /\ jobState["migrate"] = "pending" \/ (\E w \in Worker : pc[w] = "claim")
         => status = "queued" /\ services = {"source"}
    /\ \A w \in Worker : Executing(w) =>
         OnCourse(w) /\ (started[w] => status \in CutOver \union {"completed"})
    /\ confirming # "idle" => status = "awaiting-confirmation"
    /\ "source" \notin services =>
         \/ status = "completed"
         \/ status = "awaiting-confirmation" /\ confirming \in {"check", "write"}
         \/ status = "awaiting-confirmation" /\ "source" \in misreported
    /\ status = "completed" \/ confirming \in {"check", "write"} =>
         "source" \notin services \/ "source" \in misreported
    /\ status = "cancelled" => ShadowAsReported /\ deployment = "cancelled"
    /\ status \in {"awaiting-confirmation", "completed"} =>
         deployment = "success" \/ \E w \in Worker : pc[w] = "publish"
==============================================================================
