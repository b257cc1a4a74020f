---------------------------- MODULE Notification ----------------------------
(***************************************************************************)
(* Delivery of notifications: the notification_delivery rows, the BullMQ   *)
(* jobs that ask for a delivery, the workers that claim a row for five     *)
(* minutes, call the provider and record the outcome, and the operator who *)
(* retries a delivery or deletes its channel.                              *)
(*                                                                         *)
(* The outbox hands every job over sooner or later (module Outbox), so a   *)
(* job is here pending as soon as the row's transaction commits.  BullMQ   *)
(* redelivers a job whose worker is silent for its lock time, which is     *)
(* much shorter than the five minutes of the row's claim.                  *)
(***************************************************************************)
EXTENDS Integers, FiniteSets

CONSTANTS
  Delivery,          \* ids of notification_delivery rows
  Worker,            \* worker slots of the delivery queue
  None,              \* stands for NULL
  DeliveryAttempts,  \* attempts after which a failing delivery is dead
  JobAttempts,       \* attempts of one BullMQ job
  MaxStalledCount,   \* redeliveries of a silent job before BullMQ fails it
  MaxRetries,        \* bound on operator retries of one delivery
  FaultKinds,        \* which of "crash", "stall", "slow", "db", "reply" happen
  MaxFaults          \* bound on faults

ASSUME NotificationAssumption ==
  /\ IsFiniteSet(Worker)
  /\ None \notin Worker
  /\ None \notin Delivery \X (0 .. MaxRetries)
  /\ DeliveryAttempts \in Nat \ {0}
  /\ JobAttempts \in Nat \ {0}
  /\ MaxStalledCount \in Nat
  /\ MaxRetries \in Nat
  /\ MaxFaults \in Nat

VARIABLES
  status,     \* notification_delivery.status, "absent" or "deleted" for no row
  attempts,   \* notification_delivery.attempts
  stamp,      \* processing_started_at, named by the worker that wrote it
  stale,      \* deliveries whose stamp is more than five minutes old
  retries,    \* retry commands the operator has issued for each delivery
  view,       \* the operator's read of a failed row: none, fresh or old
  jobState,   \* BullMQ: where each job is
  tries,      \* BullMQ: attemptsMade
  stalls,     \* BullMQ: how often the job was found silent
  holder,     \* BullMQ: the slot whose lock the job carries
  pc,         \* where each worker is in DeliverNotificationUseCase.execute
  job,        \* the job it works on
  att,        \* the attempts column as its claim returned it
  faults,     \* faults so far
  sends,      \* history: how often the provider took the message
  abandoned   \* history: deliveries whose worker or last job gave them up

\* The job of the publication and those of the operator's retries.
Job == Delivery \X (0 .. MaxRetries)

INSTANCE JobQueue WITH Slot <- Worker

rowVars == <<status, attempts, stamp, stale>>
jobVars == <<jobState, tries, stalls, holder>>
workerVars == <<pc, job, att>>
historyVars == <<sends, abandoned>>
vars == <<rowVars, retries, view, jobVars, workerVars, faults, historyVars>>

Status == {"absent", "queued", "processing", "delivered", "failed",
           "dead_letter", "deleted"}
Control == {"idle", "claim", "channel", "send", "record", "catch"}

\* The delivery worker w is busy with.
At(w) == job[w][1]

-----------------------------------------------------------------------------
Init ==
  /\ status = [d \in Delivery |-> "absent"]
  /\ attempts = [d \in Delivery |-> 0]
  /\ stamp = [d \in Delivery |-> None]
  /\ stale = {}
  /\ retries = [d \in Delivery |-> 0]
  /\ view = [d \in Delivery |-> "none"]
  /\ QueueInit
  /\ pc = [w \in Worker |-> "idle"]
  /\ job = [w \in Worker |-> None]
  /\ att = [w \in Worker |-> 0]
  /\ faults = 0
  /\ sends = [d \in Delivery |-> 0]
  /\ abandoned = {}

\* A fault of kind k, while the bound allows one.
Fault(k) ==
  /\ k \in FaultKinds
  /\ faults < MaxFaults
  /\ faults' = faults + 1

\* Every write of a row moves updated_at, which the operator's read remembers.
Touch(d) == view' = [view EXCEPT ![d] = IF @ = "fresh" THEN "old" ELSE @]

\* Slot w is done with its job.
Leave(w) ==
  /\ pc' = [pc EXCEPT ![w] = "idle"]
  /\ job' = [job EXCEPT ![w] = None]
  /\ UNCHANGED att

\* A free slot takes a job under its lock.
Take(w, j) ==
  /\ pc[w] = "idle"
  /\ JobTaken(w, j)
  /\ pc' = [pc EXCEPT ![w] = "claim"]
  /\ job' = [job EXCEPT ![w] = j]
  /\ UNCHANGED <<rowVars, retries, view, att, faults, historyVars>>

\* The stalled check finds the lock of an active job expired: its slot died
\* or, with a fault, is suspended and will go on later.
JobStalls(j) ==
  /\ JobFoundSilent(j)
  /\ \/ holder[j] = None /\ UNCHANGED faults
     \/ holder[j] # None /\ Fault("stall")
  /\ UNCHANGED <<rowVars, retries, view, workerVars, historyVars>>

\* The process of slot w dies; its lock stays until the stalled check.
Crash(w) ==
  /\ pc[w] # "idle"
  /\ Fault("crash")
  /\ JobDropped(w, job[w])
  /\ Leave(w)
  /\ abandoned' = abandoned \union {At(w)}
  /\ UNCHANGED <<rowVars, retries, view, sends>>

-----------------------------------------------------------------------------
(***************************************************************************)
(* The rows: PublishNotificationUseCase and the repository.                *)
(***************************************************************************)

\* The row and its outbox command, in one transaction.  A second publication
\* with the same idempotency key inserts nothing.
Publish(d) ==
  /\ status[d] = "absent"
  /\ status' = [status EXCEPT ![d] = "queued"]
  /\ JobAdded(<<d, 0>>)
  /\ UNCHANGED <<attempts, stamp, stale, retries, view, workerVars, faults,
                 historyVars>>

\* Taking a claim over however young it is.
ClaimableAnyTime(d) == status[d] \in {"queued", "failed", "processing"}

\* The WHERE clause of claimForDelivery.
Claimable(d) ==
  \/ status[d] \in {"queued", "failed"}
  \/ status[d] = "processing" /\ d \in stale

\* claimForDelivery succeeds.
Claim(w) ==
  LET d == At(w)
  IN  /\ pc[w] = "claim"
      /\ Claimable(d)
      /\ status' = [status EXCEPT ![d] = "processing"]
      /\ attempts' = [attempts EXCEPT ![d] = @ + 1]
      /\ stamp' = [stamp EXCEPT ![d] = w]
      /\ stale' = stale \ {d}
      /\ att' = [att EXCEPT ![w] = attempts[d] + 1]
      /\ Touch(d)
      /\ pc' = [pc EXCEPT ![w] = "channel"]
      /\ UNCHANGED <<retries, jobVars, job, faults, historyVars>>

\* claimForDelivery returns no row: the use case returns, and the job counts
\* as complete.
ClaimRefused(w) ==
  /\ pc[w] = "claim"
  /\ ~Claimable(At(w))
  /\ JobReturns(w, job[w])
  /\ Leave(w)
  /\ UNCHANGED <<rowVars, retries, view, faults, historyVars>>

\* The claim statement fails: the use case throws, and in the last attempt of
\* the job nobody is left to claim the row.
ClaimFails(w) ==
  /\ pc[w] = "claim"
  /\ Fault("db")
  /\ JobThrows(w, job[w])
  /\ Leave(w)
  /\ abandoned' = IF FinalAttempt(job[w]) THEN abandoned \union {At(w)}
                                          ELSE abandoned
  /\ UNCHANGED <<rowVars, retries, view, sends>>

\* The worker of the latest claim is still at it.
Attended(d) ==
  \E w \in Worker :
    /\ pc[w] \notin {"idle", "claim"}
    /\ At(w) = d
    /\ stamp[d] = w

\* Five minutes have passed since the claim: by a fault when its claimant is
\* still at it, by itself when the claimant is gone.
ClaimExpires(d) ==
  /\ status[d] = "processing"
  /\ d \notin stale
  /\ \/ Attended(d) /\ Fault("slow")
     \/ ~Attended(d) /\ UNCHANGED faults
  /\ stale' = stale \union {d}
  /\ UNCHANGED <<status, attempts, stamp, retries, view, jobVars, workerVars,
                 historyVars>>

\* The WHERE clause of updateClaimed.
Claimed(d, w) == status[d] = "processing" /\ stamp[d] = w

\* updateClaimed with status s: it clears the stamp of the row it hits.
UpdateClaimed(d, w, s) ==
  IF Claimed(d, w)
    THEN /\ status' = [status EXCEPT ![d] = s]
         /\ stamp' = [stamp EXCEPT ![d] = None]
         /\ stale' = stale \ {d}
         /\ Touch(d)
         /\ UNCHANGED attempts
    ELSE UNCHANGED <<rowVars, view>>

(***************************************************************************)
(* DeliverNotificationUseCase.execute after the claim.                     *)
(***************************************************************************)

\* The channel still exists; rows go with their channel.
FindChannel(w) ==
  /\ pc[w] = "channel"
  /\ status[At(w)] # "deleted"
  /\ pc' = [pc EXCEPT ![w] = "send"]
  /\ UNCHANGED <<rowVars, retries, view, jobVars, job, att, faults,
                 historyVars>>

\* The channel is gone: the dead letter is recorded if the row is there.
ChannelMissing(w) ==
  /\ pc[w] = "channel"
  /\ status[At(w)] = "deleted"
  /\ UpdateClaimed(At(w), w, "dead_letter")
  /\ JobReturns(w, job[w])
  /\ Leave(w)
  /\ UNCHANGED <<retries, faults, historyVars>>

\* transport.send: the provider takes the message.
SendAccepted(w) ==
  /\ pc[w] = "send"
  /\ sends' = [sends EXCEPT ![At(w)] = @ + 1]
  /\ pc' = [pc EXCEPT ![w] = "record"]
  /\ UNCHANGED <<rowVars, retries, view, jobVars, job, att, faults, abandoned>>

\* transport.send throws.  With a fault the provider took the message and
\* only its reply was lost.
SendFails(w) ==
  /\ pc[w] = "send"
  /\ \/ UNCHANGED <<faults, sends>>
     \/ /\ Fault("reply")
        /\ sends' = [sends EXCEPT ![At(w)] = @ + 1]
  /\ pc' = [pc EXCEPT ![w] = "catch"]
  /\ UNCHANGED <<rowVars, retries, view, jobVars, job, att, abandoned>>

\* The delivered status is recorded.
RecordDelivered(w) ==
  /\ pc[w] = "record"
  /\ UpdateClaimed(At(w), w, "delivered")
  /\ JobReturns(w, job[w])
  /\ Leave(w)
  /\ UNCHANGED <<retries, faults, historyVars>>

\* The update throws inside try: an accepted message takes the failure path.
RecordFails(w) ==
  /\ pc[w] = "record"
  /\ Fault("db")
  /\ pc' = [pc EXCEPT ![w] = "catch"]
  /\ UNCHANGED <<rowVars, retries, view, jobVars, job, att, historyVars>>

\* Giving up one attempt late.
StatusAfterFailureOffByOne(n) ==
  IF n > DeliveryAttempts THEN "dead_letter" ELSE "failed"

\* Recording a status the deliveries do not have.
StatusAfterFailureMisnamed(n) ==
  IF n >= DeliveryAttempts THEN "dead" ELSE "failed"

\* delivery.attempts >= 3 ? "dead_letter" : "failed".
StatusAfterFailure(n) ==
  IF n >= DeliveryAttempts THEN "dead_letter" ELSE "failed"

\* The catch block records the failure and throws the error on.
RecordFailure(w) ==
  /\ pc[w] = "catch"
  /\ UpdateClaimed(At(w), w, StatusAfterFailure(att[w]))
  /\ JobThrows(w, job[w])
  /\ Leave(w)
  /\ UNCHANGED <<retries, faults, historyVars>>

\* A statement outside try throws, reading the channel or writing a status
\* other than "delivered": the error reaches BullMQ and nothing is recorded.
ThrowUnrecorded(w) ==
  /\ pc[w] \in {"channel", "catch"}
  /\ Fault("db")
  /\ JobThrows(w, job[w])
  /\ Leave(w)
  /\ abandoned' = abandoned \union {At(w)}
  /\ UNCHANGED <<rowVars, retries, view, sends>>

(***************************************************************************)
(* The operator.                                                           *)
(***************************************************************************)

\* RetryNotificationDeliveryUseCase reads the row before its transaction.
ReadForRetry(d) ==
  /\ retries[d] < MaxRetries
  /\ view[d] = "none"
  /\ status[d] \in {"failed", "dead_letter"}
  /\ view' = [view EXCEPT ![d] = "fresh"]
  /\ UNCHANGED <<rowVars, retries, jobVars, workerVars, faults, historyVars>>

\* Requeueing by id, as updateById does.
RetryableById(d) == status[d] # "deleted"

\* The WHERE clause of requeueIfRetryable.
Retryable(d) == view[d] = "fresh" /\ status[d] \in {"failed", "dead_letter"}

\* A retry that forgets the outbox command.
RetryWithoutCommand(d) ==
  /\ view[d] # "none"
  /\ Retryable(d)
  /\ status' = [status EXCEPT ![d] = "queued"]
  /\ attempts' = [attempts EXCEPT ![d] = 0]
  /\ stamp' = [stamp EXCEPT ![d] = None]
  /\ stale' = stale \ {d}
  /\ view' = [view EXCEPT ![d] = "none"]
  /\ retries' = [retries EXCEPT ![d] = @ + 1]
  /\ UNCHANGED <<jobVars, workerVars, faults, historyVars>>

\* requeueIfRetryable and the new outbox command, in one transaction.
Retry(d) ==
  /\ view[d] # "none"
  /\ Retryable(d)
  /\ status' = [status EXCEPT ![d] = "queued"]
  /\ attempts' = [attempts EXCEPT ![d] = 0]
  /\ stamp' = [stamp EXCEPT ![d] = None]
  /\ stale' = stale \ {d}
  /\ view' = [view EXCEPT ![d] = "none"]
  /\ retries' = [retries EXCEPT ![d] = @ + 1]
  /\ JobAdded(<<d, retries[d] + 1>>)
  /\ UNCHANGED <<workerVars, faults, historyVars>>

\* The row has changed since it was read: the request fails.
RetryRefused(d) ==
  /\ view[d] # "none"
  /\ ~Retryable(d)
  /\ view' = [view EXCEPT ![d] = "none"]
  /\ UNCHANGED <<rowVars, retries, jobVars, workerVars, faults, historyVars>>

\* DeleteNotificationChannelUseCase: the deliveries go with the channel.
DeleteChannel(d) ==
  /\ status[d] \notin {"absent", "deleted"}
  /\ status' = [status EXCEPT ![d] = "deleted"]
  /\ Touch(d)
  /\ UNCHANGED <<attempts, stamp, stale, retries, jobVars, workerVars, faults,
                 historyVars>>

-----------------------------------------------------------------------------
WorkerStep(w) ==
  \/ Claim(w) \/ ClaimRefused(w) \/ ClaimFails(w)
  \/ FindChannel(w) \/ ChannelMissing(w)
  \/ SendAccepted(w) \/ SendFails(w)
  \/ RecordDelivered(w) \/ RecordFails(w)
  \/ RecordFailure(w) \/ ThrowUnrecorded(w)

RowStep(d) ==
  \/ Publish(d) \/ ClaimExpires(d)
  \/ ReadForRetry(d) \/ Retry(d) \/ RetryRefused(d) \/ DeleteChannel(d)

Next ==
  \/ \E w \in Worker : WorkerStep(w) \/ Crash(w)
  \/ \E w \in Worker, j \in Job : Take(w, j)
  \/ \E j \in Job : JobStalls(j)
  \/ \E d \in Delivery : RowStep(d)

Spec == Init /\ [][Next]_vars

(***************************************************************************)
(* Workers go on with what they do, free slots take pending jobs, BullMQ's *)
(* stalled check finds the jobs of dead slots, time passes.  Nobody has to *)
(* publish, retry or delete anything, and no fault has to happen.          *)
(***************************************************************************)
Fairness ==
  /\ \A w \in Worker : WF_vars(WorkerStep(w))
  /\ \A j \in Job : WF_vars(\E w \in Worker : Take(w, j))
  /\ \A j \in Job : WF_vars(holder[j] = None /\ JobStalls(j))
  /\ \A d \in Delivery : WF_vars(faults' = faults /\ ClaimExpires(d))

FairSpec == Spec /\ Fairness

-----------------------------------------------------------------------------
TypeOK ==
  /\ status \in [Delivery -> Status]
  /\ attempts \in [Delivery -> Nat]
  /\ stamp \in [Delivery -> Worker \union {None}]
  /\ stale \subseteq Delivery
  /\ retries \in [Delivery -> 0 .. MaxRetries]
  /\ view \in [Delivery -> {"none", "fresh", "old"}]
  /\ \A d \in Delivery : view[d] # "none" => retries[d] < MaxRetries
  /\ QueueTypeOK
  /\ pc \in [Worker -> Control]
  /\ job \in [Worker -> Job \union {None}]
  /\ \A w \in Worker : pc[w] = "idle" <=> job[w] = None
  /\ att \in [Worker -> Nat]
  /\ faults \in 0 .. MaxFaults
  /\ sends \in [Delivery -> Nat]
  /\ abandoned \subseteq Delivery

\* A recorded delivery is final: neither a worker whose claim was taken over,
\* nor a duplicate job, nor an operator who read the row before it was
\* delivered makes it anything else.
DeliveredIsFinal ==
  [][\A d \in Delivery :
       status[d] = "delivered" => status'[d] \in {"delivered", "deleted"}]_vars

\* The provider takes a message a second time only after a fault: a crash, a
\* slow or suspended worker, a lost reply or a failed write.  Duplicate jobs,
\* retries by BullMQ and retries by the operator alone never send it twice.
DuplicateNeedsFault ==
  \A d \in Delivery : sends[d] <= 1 + faults

\* The attempts of a row stay within the limit but for one attempt for each
\* claim that was taken over, however the jobs of the first publication and of
\* the operator's retries share the row.
AttemptsBounded ==
  \A d \in Delivery : attempts[d] <= DeliveryAttempts + faults

\* A delivery that is queued or being processed ends, delivered or failed or
\* dead or deleted, unless a worker died on it or could not write its outcome,
\* or its job could not even claim it in its last attempt.
EndsUnlessAbandoned ==
  \A d \in Delivery :
    status[d] \in {"queued", "processing"} ~>
      \/ status[d] \in {"delivered", "failed", "dead_letter", "deleted"}
      \/ d \in abandoned

\* The notification worker "retries failed deliveries" (notifications.mdx): a
\* delivery that is published ends as delivered or as a dead letter (or goes
\* with its channel), whatever happens to the worker that claims it.
EveryDeliveryEnds ==
  \A d \in Delivery :
    status[d] = "queued" ~>
      status[d] \in {"delivered", "dead_letter", "deleted"}

-----------------------------------------------------------------------------
(***************************************************************************)
(* Why DuplicateNeedsFault and AttemptsBounded hold: the parts of an       *)
(* inductive invariant.  A delivery spends a message when a worker claims  *)
(* it, and gets it back when the provider refuses the message.             *)
(***************************************************************************)

\* Worker w is past its claim.
Delivering(w) == pc[w] \in {"channel", "send", "record", "catch"}

\* The workers that may still send delivery d.
InFlight(d) == {w \in Worker : pc[w] \in {"channel", "send"} /\ At(w) = d}

\* The messages of delivery d that were sent, or may still be.
Spent(d) == sends[d] + Cardinality(InFlight(d))

\* Delivery d may be claimed, or will be once its claim has expired.
Open(d) ==
  \/ status[d] \in {"absent", "queued", "failed"}
  \/ status[d] = "processing" /\ (d \in stale \/ ~Attended(d))

\* The claimant's copy of the attempts is the row's.
ClaimantCounts ==
  \A w \in Worker :
    Delivering(w) /\ Claimed(At(w), w) => att[w] = attempts[At(w)]

\* An open delivery has an attempt left, or a fault pays for it.
AttemptLeft ==
  \A d \in Delivery :
    /\ attempts[d] <= DeliveryAttempts + faults
    /\ Open(d) => attempts[d] < DeliveryAttempts + faults

\* An open or dead delivery was not sent, and neither was one whose claimant
\* is about to record a failure, but for one message for each fault.
MessageLeft ==
  \A d \in Delivery :
    /\ Spent(d) <= 1 + faults
    /\ Open(d) \/ status[d] = "dead_letter" => Spent(d) <= faults
    /\ \A w \in Worker :
         pc[w] = "catch" /\ At(w) = d /\ Claimed(d, w) => Spent(d) <= faults

NotificationInv ==
  /\ TypeOK
  /\ ClaimantCounts
  /\ AttemptLeft
  /\ MessageLeft
=============================================================================
