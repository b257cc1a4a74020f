------------------------------ MODULE JobQueue ------------------------------
(***************************************************************************)
(* A BullMQ queue as the workers of the schedules process use it: a job is *)
(* delivered to one slot under a lock the slot renews, completes when the  *)
(* handler returns, is retried while attempts are left when it throws, and *)
(* is delivered again when its lock runs out, because the slot died or was *)
(* suspended.  A slot that has lost the lock can no longer move the job.   *)
(*                                                                         *)
(* The operators are steps of the queue alone; the modules that model a    *)
(* worker conjoin them with the worker's own steps.                        *)
(***************************************************************************)
EXTENDS Naturals

CONSTANTS
  Job,              \* ids of jobs
  Slot,             \* worker slots
  None,             \* stands for no slot
  JobAttempts,      \* opts.attempts
  MaxStalledCount   \* redeliveries of a silent job before it fails for good

VARIABLES
  jobState,  \* none (not added yet), pending, active, done
  tries,     \* attemptsMade
  stalls,    \* how often the job was found silent
  holder     \* the slot whose lock the job carries

QueueInit ==
  /\ jobState = [j \in Job |-> "none"]
  /\ tries = [j \in Job |-> 0]
  /\ stalls = [j \in Job |-> 0]
  /\ holder = [j \in Job |-> None]

\* queue.add.
JobAdded(j) ==
  /\ jobState' = [jobState EXCEPT ![j] = "pending"]
  /\ UNCHANGED <<tries, stalls, holder>>

\* Slot w takes a waiting job under its lock.
JobTaken(w, j) ==
  /\ jobState[j] = "pending"
  /\ jobState' = [jobState EXCEPT ![j] = "active"]
  /\ holder' = [holder EXCEPT ![j] = w]
  /\ UNCHANGED <<tries, stalls>>

\* The handler of slot w returned: the job is complete.
JobReturns(w, j) ==
  IF holder[j] = w
    THEN /\ jobState' = [jobState EXCEPT ![j] = "done"]
         /\ holder' = [holder EXCEPT ![j] = None]
         /\ UNCHANGED <<tries, stalls>>
    ELSE UNCHANGED <<jobState, tries, stalls, holder>>

\* job.attemptsMade + 1 >= job.opts.attempts, as the handler computes it.
FinalAttempt(j) == tries[j] + 1 >= JobAttempts

\* The handler of slot w threw: the job waits for its next attempt, if any.
JobThrows(w, j) ==
  IF holder[j] = w
    THEN /\ jobState' = [jobState EXCEPT ![j] =
                           IF FinalAttempt(j) THEN "done" ELSE "pending"]
         /\ tries' = [tries EXCEPT ![j] = @ + 1]
         /\ holder' = [holder EXCEPT ![j] = None]
         /\ UNCHANGED stalls
    ELSE UNCHANGED <<jobState, tries, stalls, holder>>

\* The process of slot w died: nobody renews the lock any more.
JobDropped(w, j) ==
  /\ holder' = [holder EXCEPT ![j] = IF @ = w THEN None ELSE @]
  /\ UNCHANGED <<jobState, tries, stalls>>

\* The stalled check finds the lock of an active job expired.
JobFoundSilent(j) ==
  /\ jobState[j] = "active"
  /\ jobState' = [jobState EXCEPT ![j] =
                    IF stalls[j] < MaxStalledCount THEN "pending" ELSE "done"]
  /\ stalls' = [stalls EXCEPT ![j] = @ + 1]
  /\ holder' = [holder EXCEPT ![j] = None]
  /\ UNCHANGED tries

QueueTypeOK ==
  /\ jobState \in [Job -> {"none", "pending", "active", "done"}]
  /\ tries \in [Job -> Nat]
  /\ stalls \in [Job -> Nat]
  /\ holder \in [Job -> Slot \union {None}]
=============================================================================
