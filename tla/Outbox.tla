------------------------------- MODULE Outbox -------------------------------
(***************************************************************************)
(* The transactional outbox of the control plane: the "outbox" table, the  *)
(* publishers (one OutboxRuntime per schedules process) that claim rows    *)
(* under a lease and hand them to BullMQ, the retry and dead-letter        *)
(* policy, the operator's dead-letter retry and the retention job.         *)
(*                                                                         *)
(* Time is relative: instead of timestamps a row carries the ticks left    *)
(* until it becomes available (available_at) and until its claim goes      *)
(* stale (claimed_at + lease).  Tick lets time pass, also while a          *)
(* publisher is in the middle of a batch, so a publisher may outlive its   *)
(* own claims.                                                             *)
(***************************************************************************)
EXTENDS Integers, FiniteSets

CONSTANTS
  Message,         \* ids of the commands; the id is also the BullMQ job id
  DeployMessage,   \* commands of type deployment.deploy
  Malformed,       \* commands whose payload or type the publisher rejects
  Publisher,       \* publishing processes
  NoPublisher,     \* stands for NULL and undefined
  MaxAttempts,     \* outbox.max_attempts
  BatchSize,       \* rows one claim may take
  Lease,           \* ticks a claim stays valid
  RetryBaseDelay,  \* retryBaseDelayMs in ticks
  MaxRetryDelay,   \* maxRetryDelayMs in ticks
  MaxFaults        \* bound on crashes and failed database writes

ASSUME OutboxAssumption ==
  /\ DeployMessage \subseteq Message
  /\ Malformed \subseteq Message
  /\ NoPublisher \notin Publisher
  /\ MaxAttempts \in Nat \ {0}
  /\ BatchSize \in Nat \ {0}
  /\ Lease \in Nat
  /\ RetryBaseDelay \in Nat
  /\ MaxRetryDelay \in Nat
  /\ MaxFaults \in Nat

VARIABLES
  status,       \* outbox.status, plus "absent" and "pruned" for no row
  attempts,     \* outbox.attempts
  availableIn,  \* ticks until available_at <= now
  leaseLeft,    \* ticks until claimed_at < now - lease
  claimedAt,    \* the claimed_at stamp, named by the publisher that wrote it
  cancelMarker, \* deploy commands with a live Redis cancellation marker
  pc,           \* where each publisher is in publishBatch
  batch,        \* its claimed messages not yet looked at
  cur,          \* the message it is publishing
  pruneSet,     \* ids the retention job selected and will delete
  faults,       \* crashes and failed writes so far
  handed,       \* history: messages BullMQ accepted at least once
  withdrawn     \* history: messages dropped because of a marker

rowVars == <<status, attempts, availableIn, leaseLeft, claimedAt>>
pubVars == <<pc, batch, cur>>
historyVars == <<handed, withdrawn>>
vars == <<rowVars, cancelMarker, pubVars, pruneSet, faults, historyVars>>

Status == {"absent", "pending", "publishing", "published", "dead_letter",
           "pruned"}
Control == {"idle", "batch", "add", "ack", "nack"}

-----------------------------------------------------------------------------
Init ==
  /\ status = [m \in Message |-> "absent"]
  /\ attempts = [m \in Message |-> 0]
  /\ availableIn = [m \in Message |-> 0]
  /\ leaseLeft = [m \in Message |-> 0]
  /\ claimedAt = [m \in Message |-> NoPublisher]
  /\ cancelMarker = {}
  /\ pc = [p \in Publisher |-> "idle"]
  /\ batch = [p \in Publisher |-> {}]
  /\ cur = [p \in Publisher |-> NoPublisher]
  /\ pruneSet = {}
  /\ faults = 0
  /\ handed = {}
  /\ withdrawn = {}

(***************************************************************************)
(* Row operations: DrizzleOutboxRepository.                                *)
(***************************************************************************)

\* create / createMany inside the caller's transaction.  A second insert with
\* the same idempotency key does nothing and returns the existing row.
Create(m) ==
  /\ status[m] = "absent"
  /\ status' = [status EXCEPT ![m] = "pending"]
  /\ attempts' = [attempts EXCEPT ![m] = 0]
  /\ availableIn' = [availableIn EXCEPT ![m] = 0]
  /\ UNCHANGED <<leaseLeft, claimedAt, cancelMarker, pubVars, pruneSet, faults,
                 historyVars>>

\* Forgetting that a claim can go stale.
ClaimableOnlyPending(m) == status[m] = "pending" /\ availableIn[m] = 0

\* The WHERE clause of claimBatch.
Claimable(m) ==
  \/ status[m] = "pending" /\ availableIn[m] = 0
  \/ status[m] = "publishing" /\ leaseLeft[m] = 0

\* claimBatch: one UPDATE statement, so atomic.  It takes some of the claimable
\* rows: the limit and the order pick them, SKIP LOCKED passes over rows another
\* transaction holds.  Only a pending row pays an attempt; taking over a stale
\* claim is free.
ClaimBatch(p) ==
  /\ pc[p] = "idle"
  /\ \E S \in SUBSET {m \in Message : Claimable(m)} :
       /\ S # {}
       /\ Cardinality(S) <= BatchSize
       /\ status' = [m \in Message |->
                       IF m \in S THEN "publishing" ELSE status[m]]
       /\ attempts' = [m \in Message |->
                         IF m \in S /\ status[m] = "pending"
                           THEN attempts[m] + 1 ELSE attempts[m]]
       /\ leaseLeft' = [m \in Message |->
                          IF m \in S THEN Lease + 1 ELSE leaseLeft[m]]
       /\ claimedAt' = [m \in Message |->
                          IF m \in S THEN p ELSE claimedAt[m]]
       /\ batch' = [batch EXCEPT ![p] = S]
  /\ pc' = [pc EXCEPT ![p] = "batch"]
  /\ UNCHANGED <<availableIn, cancelMarker, cur, pruneSet, faults, historyVars>>

\* message.claimedAt as the publisher sees it.  claimBatch returns the raw
\* rows of RETURNING messages.*, whose key is claimed_at, and normalizeRow
\* only casts them: the claimedAt property is undefined.
ClaimStamp(p) == NoPublisher

\* Marking a row that is no longer being published.
MarkableInAnyState(m, stamp) ==
  /\ status[m] \notin {"absent", "pruned"}
  /\ stamp # NoPublisher => claimedAt[m] = stamp

\* The WHERE clause of markPublished and markFailed.
Markable(m, stamp) ==
  /\ status[m] = "publishing"
  /\ stamp # NoPublisher => claimedAt[m] = stamp

\* min(maxRetryDelayMs, retryBaseDelayMs * 2 ** (attempts - 1)).
RetryDelay(n) ==
  LET delay == RetryBaseDelay * 2 ^ (n - 1)
  IN  IF delay \in 0 .. MaxRetryDelay THEN delay ELSE MaxRetryDelay

\* Giving up one attempt too late.
StatusAfterFailureOffByOne(m) ==
  IF attempts[m] > MaxAttempts THEN "dead_letter" ELSE "pending"

\* Recording a status the other tables use.
StatusAfterFailureMisnamed(m) ==
  IF attempts[m] >= MaxAttempts THEN "failed" ELSE "pending"

\* The CASE of markFailed on attempts and max_attempts.
StatusAfterFailure(m) ==
  IF attempts[m] >= MaxAttempts THEN "dead_letter" ELSE "pending"

\* retryDeadLetter: the operator puts a dead letter back with no attempts.
RetryDeadLetter(m) ==
  /\ status[m] = "dead_letter"
  /\ status' = [status EXCEPT ![m] = "pending"]
  /\ attempts' = [attempts EXCEPT ![m] = 0]
  /\ availableIn' = [availableIn EXCEPT ![m] = 0]
  /\ claimedAt' = [claimedAt EXCEPT ![m] = NoPublisher]
  /\ UNCHANGED <<leaseLeft, cancelMarker, pubVars, pruneSet, faults,
                 historyVars>>

\* prunePublished, first statement: select ids of old published rows.
PrunableRows == {m \in Message : status[m] = "published"}

PruneSelect ==
  /\ pruneSet = {}
  /\ pruneSet' \in (SUBSET PrunableRows) \ {{}}
  /\ UNCHANGED <<rowVars, cancelMarker, pubVars, faults, historyVars>>

\* prunePublished, second statement: delete by id, without a status test.
PruneDelete ==
  /\ pruneSet # {}
  /\ status' = [m \in Message |->
                  IF m \in pruneSet THEN "pruned" ELSE status[m]]
  /\ pruneSet' = {}
  /\ UNCHANGED <<attempts, availableIn, leaseLeft, claimedAt, cancelMarker,
                 pubVars, faults, historyVars>>

-----------------------------------------------------------------------------
(***************************************************************************)
(* The publisher: OutboxPublisher.publishBatch over                        *)
(* BullMqOutboxJobPublisher.publish.                                       *)
(***************************************************************************)

\* The loop variable moves on; the last message ends the batch.
NextMessage(p) ==
  /\ cur' = [cur EXCEPT ![p] = NoPublisher]
  /\ pc' = [pc EXCEPT ![p] = IF batch[p] = {} THEN "idle" ELSE "batch"]
  /\ UNCHANGED batch

\* Acknowledging before the queue has the job.
BeginPublishAckFirst(p, m) ==
  /\ pc[p] = "batch"
  /\ m \in batch[p]
  /\ batch' = [batch EXCEPT ![p] = @ \ {m}]
  /\ cur' = [cur EXCEPT ![p] = m]
  /\ pc' = [pc EXCEPT ![p] = "ack"]
  /\ UNCHANGED <<rowVars, cancelMarker, pruneSet, faults, historyVars>>

\* publish(message) up to its first await: a malformed message throws, a
\* deploy command reads the cancellation marker and returns when it is set,
\* every other command goes on to queue.add.
BeginPublish(p, m) ==
  /\ pc[p] = "batch"
  /\ m \in batch[p]
  /\ batch' = [batch EXCEPT ![p] = @ \ {m}]
  /\ cur' = [cur EXCEPT ![p] = m]
  /\ \/ /\ m \in Malformed
        /\ pc' = [pc EXCEPT ![p] = "nack"]
        /\ UNCHANGED withdrawn
     \/ /\ m \notin Malformed
        /\ m \in DeployMessage \cap cancelMarker
        /\ pc' = [pc EXCEPT ![p] = "ack"]
        /\ withdrawn' = withdrawn \cup {m}
     \/ /\ m \notin Malformed
        /\ m \notin DeployMessage \cap cancelMarker
        /\ pc' = [pc EXCEPT ![p] = "add"]
        /\ UNCHANGED withdrawn
  /\ UNCHANGED <<rowVars, cancelMarker, pruneSet, faults, handed>>

\* queue.add with jobId = message.id, which BullMQ deduplicates.
AddJob(p) ==
  /\ pc[p] = "add"
  /\ handed' = handed \cup {cur[p]}
  /\ pc' = [pc EXCEPT ![p] = "ack"]
  /\ UNCHANGED <<rowVars, cancelMarker, batch, cur, pruneSet, faults, withdrawn>>

\* queue.add rejects: Redis refused the job, or took it and the reply got lost.
AddJobFails(p) ==
  /\ pc[p] = "add"
  /\ handed' \in {handed, handed \cup {cur[p]}}
  /\ pc' = [pc EXCEPT ![p] = "nack"]
  /\ UNCHANGED <<rowVars, cancelMarker, batch, cur, pruneSet, faults, withdrawn>>

\* markPublished; a row that no longer matches is left alone.
MarkPublished(p) ==
  /\ pc[p] = "ack"
  /\ LET m == cur[p]
         hit == Markable(m, ClaimStamp(p))
     IN  /\ status' = [status EXCEPT ![m] = IF hit THEN "published" ELSE @]
         /\ claimedAt' = [claimedAt EXCEPT ![m] = IF hit THEN NoPublisher ELSE @]
  /\ NextMessage(p)
  /\ UNCHANGED <<attempts, availableIn, leaseLeft, cancelMarker, pruneSet,
                 faults, historyVars>>

\* markPublished throws inside the same try block: the message, although
\* published, takes the failure path.
MarkPublishedThrows(p) ==
  /\ pc[p] = "ack"
  /\ faults < MaxFaults
  /\ faults' = faults + 1
  /\ pc' = [pc EXCEPT ![p] = "nack"]
  /\ UNCHANGED <<rowVars, cancelMarker, batch, cur, pruneSet, historyVars>>

\* markFailed.  The delay is computed from the publisher's copy of the row, so
\* from any attempt number that row has had.
MarkFailed(p) ==
  /\ pc[p] = "nack"
  /\ LET m == cur[p]
         hit == Markable(m, ClaimStamp(p))
     IN  /\ status' = [status EXCEPT ![m] = IF hit THEN StatusAfterFailure(m)
                                                   ELSE @]
         /\ claimedAt' = [claimedAt EXCEPT ![m] = IF hit THEN NoPublisher ELSE @]
         /\ \E n \in 1 .. MaxAttempts :
              availableIn' = [availableIn EXCEPT
                                ![m] = IF hit THEN RetryDelay(n) ELSE @]
  /\ NextMessage(p)
  /\ UNCHANGED <<attempts, leaseLeft, cancelMarker, pruneSet, faults,
                 historyVars>>

\* The process dies, or markFailed throws and publishBatch rejects: the rest
\* of the batch stays "publishing" until its lease runs out.
AbandonBatch(p) ==
  /\ pc[p] # "idle"
  /\ faults < MaxFaults
  /\ faults' = faults + 1
  /\ pc' = [pc EXCEPT ![p] = "idle"]
  /\ batch' = [batch EXCEPT ![p] = {}]
  /\ cur' = [cur EXCEPT ![p] = NoPublisher]
  /\ UNCHANGED <<rowVars, cancelMarker, pruneSet, historyVars>>

-----------------------------------------------------------------------------
(***************************************************************************)
(* The environment: the cancellation marker (set by the API, expiring      *)
(* after an hour or deleted by a worker) and the passing of time.          *)
(***************************************************************************)
SetCancelMarker(m) ==
  /\ m \in DeployMessage \ cancelMarker
  /\ cancelMarker' = cancelMarker \cup {m}
  /\ UNCHANGED <<rowVars, pubVars, pruneSet, faults, historyVars>>

ClearCancelMarker(m) ==
  /\ m \in cancelMarker
  /\ cancelMarker' = cancelMarker \ {m}
  /\ UNCHANGED <<rowVars, pubVars, pruneSet, faults, historyVars>>

Elapse(n) == IF n > 0 THEN n - 1 ELSE 0

Tick ==
  /\ \E m \in Message : \/ status[m] = "pending" /\ availableIn[m] > 0
                        \/ status[m] = "publishing" /\ leaseLeft[m] > 0
  /\ availableIn' = [m \in Message |-> Elapse(availableIn[m])]
  /\ leaseLeft' = [m \in Message |-> Elapse(leaseLeft[m])]
  /\ UNCHANGED <<status, attempts, claimedAt, cancelMarker, pubVars, pruneSet,
                 faults, historyVars>>

PublisherStep(p) ==
  \/ \E m \in Message : BeginPublish(p, m)
  \/ AddJob(p)
  \/ AddJobFails(p)
  \/ MarkPublished(p)
  \/ MarkFailed(p)

Next ==
  \/ \E m \in Message : Create(m)
  \/ \E m \in Message : RetryDeadLetter(m)
  \/ \E m \in Message : SetCancelMarker(m)
  \/ \E m \in Message : ClearCancelMarker(m)
  \/ PruneSelect
  \/ PruneDelete
  \/ \E p \in Publisher : ClaimBatch(p)
  \/ \E p \in Publisher : PublisherStep(p)
  \/ \E p \in Publisher : MarkPublishedThrows(p)
  \/ \E p \in Publisher : AbandonBatch(p)
  \/ Tick

Spec == Init /\ [][Next]_vars

\* Publishers poll every second and their calls are bounded by timeouts;
\* clocks advance.  ORDER BY available_at puts a row that stays claimable ahead
\* of every row that becomes available later, so no claimable row is passed over
\* for ever.  Nothing is assumed of creation, cancellation, operators, retention
\* or faults, and Redis may refuse every job.
Claims(m) == \E p \in Publisher : ClaimBatch(p) /\ m \in batch'[p]

Fairness ==
  /\ \A p \in Publisher : WF_vars(PublisherStep(p))
  /\ \A m \in Message : SF_vars(Claims(m))
  /\ WF_vars(Tick)

FairSpec == Spec /\ Fairness
-----------------------------------------------------------------------------
(***************************************************************************)
(* Properties.                                                             *)
(***************************************************************************)

\* Every variable keeps its type; between messages a publisher has none.
TypeOK ==
  /\ status \in [Message -> Status]
  /\ attempts \in [Message -> Nat]
  /\ availableIn \in [Message -> Nat]
  /\ leaseLeft \in [Message -> Nat]
  /\ claimedAt \in [Message -> Publisher \cup {NoPublisher}]
  /\ cancelMarker \in SUBSET DeployMessage
  /\ pc \in [Publisher -> Control]
  /\ batch \in [Publisher -> SUBSET Message]
  /\ cur \in [Publisher -> Message \cup {NoPublisher}]
  /\ pruneSet \in SUBSET Message
  /\ faults \in Nat
  /\ handed \in SUBSET Message
  /\ withdrawn \in SUBSET Message

\* publishBatch acknowledges only after publish, whatever the leases do: a row
\* that is published, or that the retention job deleted, belongs to a command
\* BullMQ accepted at least once or that a cancellation withdrew.  Two
\* publishers may be working on the row, and either may mark it.
AckedMeansHanded ==
  \A m \in Message :
    status[m] \in {"published", "pruned"} => m \in handed \cup withdrawn

\* markFailed's policy survives takeovers and late marks: a waiting row always
\* has an attempt left, no row spends more than max_attempts, and only a row
\* that spent them all becomes a dead letter.
DeadLetterIsEarned ==
  \A m \in Message :
    /\ attempts[m] <= MaxAttempts
    /\ status[m] = "pending" => attempts[m] < MaxAttempts
    /\ status[m] = "dead_letter" => attempts[m] = MaxAttempts

\* Why AckedMeansHanded and the refinement hold: a publisher only works on rows
\* that exist.
WorkIsAccepted ==
  \A p \in Publisher :
    /\ \A m \in batch[p] : status[m] # "absent"
    /\ pc[p] \in {"add", "ack", "nack"} =>
         cur[p] \in Message /\ status[cur[p]] # "absent"

\* publishBatch reaches markPublished only after publish returned.
AckIsEarned ==
  \A p \in Publisher : pc[p] = "ack" => cur[p] \in handed \cup withdrawn

\* The ids prunePublished selected are still published when it deletes them.
PruneSetIsPublished == \A m \in pruneSet : status[m] = "published"

\* The inductive invariant behind the safety properties.
OutboxInv ==
  /\ TypeOK
  /\ AckedMeansHanded
  /\ DeadLetterIsEarned
  /\ WorkIsAccepted
  /\ AckIsEarned
  /\ PruneSetIsPublished

\* A command committed with its aggregate is never forgotten: it ends up
\* published or as a dead letter an operator can see, although publishers
\* crash, leases run out and Redis may refuse every job.
EveryCommandSettles ==
  \A m \in Message :
    status[m] = "pending" ~> status[m] \in {"published", "pruned", "dead_letter"}

\* The table as the callers of the outbox see it.
Abstract ==
  INSTANCE Handoff WITH
    accepted <- {m \in Message : status[m] # "absent"},
    settled <- {m \in Message : status[m] \in {"published", "pruned"}}

\* The outbox implements at-least-once hand-over: a row is settled only once its
\* command is with BullMQ or withdrawn, and nothing brings a settled row back.
ImplementsHandoff == Abstract!HandoffSpec

\* Publisher p leaves message m after marking it.
MarksRow(p, m) ==
  /\ pc[p] \in {"ack", "nack"} /\ cur[p] = m
  /\ cur'[p] # m

\* What the claimed_at condition of markPublished and markFailed is there for:
\* a publisher whose claim another publisher has taken over no longer changes
\* the row.  The code drops the condition when the stamp is undefined, and it
\* always is.
SupersededMarkIsIgnored ==
  [][\A p \in Publisher, m \in Message :
       MarksRow(p, m) /\ claimedAt[m] \in Publisher \ {p}
         => status'[m] = status[m]]_vars
=============================================================================
