------------------------ MODULE Notification_proofs ------------------------
(***************************************************************************)
(* Proofs about Notification, for every set of deliveries and workers and  *)
(* every bound on attempts, retries and faults.                            *)
(***************************************************************************)
EXTENDS Notification, FiniteSetTheorems, TLAPS

USE DEF rowVars, jobVars, workerVars, historyVars

\* The initial state has the types: no row, no job, no message.
LEMMA InitType == Init => TypeOK
<1> SUFFICES ASSUME Init PROVE TypeOK
  OBVIOUS
<1>1. QueueTypeOK
  BY DEF Init, QueueInit, QueueTypeOK
<1>2. faults \in 0 .. MaxFaults /\ retries \in [Delivery -> 0 .. MaxRetries]
  BY NotificationAssumption DEF Init
<1>3. \A w \in Worker : pc[w] = "idle" <=> job[w] = None
  BY DEF Init
<1> QED
  BY <1>1, <1>2, <1>3 DEF Init, TypeOK, Status, Control

\* Jobs are named by a delivery and a number.
LEMMA JobShape ==
  /\ None \notin Job /\ None \notin Worker
  /\ \A j \in Job : j[1] \in Delivery
  BY NotificationAssumption DEF Job

\* A busy slot works on a job of a delivery.
LEMMA BusyDelivery ==
  ASSUME TypeOK, NEW w \in Worker, pc[w] # "idle"
  PROVE  job[w] \in Job /\ At(w) \in Delivery
<1>1. job[w] \in Job
  BY DEF TypeOK
<1> QED
  BY <1>1, JobShape DEF At

\* Every step keeps the types, and a slot has a job exactly while it is busy.
LEMMA NextType == TypeOK /\ [Next]_vars => TypeOK'
<1> SUFFICES ASSUME TypeOK, [Next]_vars PROVE TypeOK'
  OBVIOUS
<1> USE NotificationAssumption, JobShape, BusyDelivery
    DEF TypeOK, QueueTypeOK, Status, Control
<1>1. ASSUME NEW d \in Delivery, Publish(d)
      PROVE  TypeOK'
  BY <1>1 DEF Publish, JobAdded
<1>2. ASSUME NEW d \in Delivery, ClaimExpires(d)
      PROVE  TypeOK'
  BY <1>2 DEF ClaimExpires, Fault
<1>3. ASSUME NEW d \in Delivery, ReadForRetry(d)
      PROVE  TypeOK'
  BY <1>3 DEF ReadForRetry
<1>4. ASSUME NEW d \in Delivery, Retry(d)
      PROVE  TypeOK'
  <2>1. retries[d] + 1 \in 0 .. MaxRetries
    BY <1>4 DEF Retry
  <2>2. retries' \in [Delivery -> 0 .. MaxRetries]
    BY <1>4, <2>1 DEF Retry
  <2>3. QueueTypeOK'
    BY <1>4 DEF Retry, JobAdded
  <2> HIDE DEF QueueTypeOK
  <2> QED
    BY <1>4, <2>2, <2>3 DEF Retry
<1>5. ASSUME NEW d \in Delivery, RetryRefused(d)
      PROVE  TypeOK'
  BY <1>5 DEF RetryRefused
<1>6. ASSUME NEW d \in Delivery, DeleteChannel(d)
      PROVE  TypeOK'
  BY <1>6 DEF DeleteChannel, Touch
<1>7. ASSUME NEW w \in Worker, Claim(w)
      PROVE  TypeOK'
  BY <1>7 DEF Claim, Touch
<1>8. ASSUME NEW w \in Worker, ClaimRefused(w)
      PROVE  TypeOK'
  BY <1>8 DEF ClaimRefused, JobReturns, Leave
<1>9. ASSUME NEW w \in Worker, ClaimFails(w)
      PROVE  TypeOK'
  <2>1. QueueTypeOK'
    BY <1>9 DEF ClaimFails, JobThrows, FinalAttempt
  <2> HIDE DEF QueueTypeOK
  <2> QED
    BY <1>9, <2>1 DEF ClaimFails, Fault, Leave
<1>10. ASSUME NEW w \in Worker, FindChannel(w)
      PROVE  TypeOK'
  BY <1>10 DEF FindChannel
<1>11. ASSUME NEW w \in Worker, ChannelMissing(w)
      PROVE  TypeOK'
  BY <1>11 DEF ChannelMissing, UpdateClaimed, Touch, JobReturns, Leave
<1>12. ASSUME NEW w \in Worker, SendAccepted(w)
      PROVE  TypeOK'
  BY <1>12 DEF SendAccepted
<1>13. ASSUME NEW w \in Worker, SendFails(w)
      PROVE  TypeOK'
  BY <1>13 DEF SendFails, Fault
<1>14. ASSUME NEW w \in Worker, RecordDelivered(w)
      PROVE  TypeOK'
  <2>1. QueueTypeOK'
    BY <1>14 DEF RecordDelivered, JobReturns
  <2> HIDE DEF QueueTypeOK
  <2> QED
    BY <1>14, <2>1 DEF RecordDelivered, UpdateClaimed, Touch, Leave
<1>15. ASSUME NEW w \in Worker, RecordFails(w)
      PROVE  TypeOK'
  BY <1>15 DEF RecordFails, Fault
<1>16. ASSUME NEW w \in Worker, RecordFailure(w)
      PROVE  TypeOK'
  <2>1. QueueTypeOK'
    BY <1>16 DEF RecordFailure, JobThrows, FinalAttempt
  <2>2. StatusAfterFailure(att[w]) \in Status
    BY DEF StatusAfterFailure
  <2> HIDE DEF QueueTypeOK
  <2> QED
    BY <1>16, <2>1, <2>2 DEF RecordFailure, UpdateClaimed, Touch, Leave
<1>17. ASSUME NEW w \in Worker, ThrowUnrecorded(w)
      PROVE  TypeOK'
  <2>1. QueueTypeOK'
    BY <1>17 DEF ThrowUnrecorded, JobThrows, FinalAttempt
  <2> HIDE DEF QueueTypeOK
  <2> QED
    BY <1>17, <2>1 DEF ThrowUnrecorded, Fault, Leave
<1>18. ASSUME NEW w \in Worker, Crash(w)
      PROVE  TypeOK'
  BY <1>18 DEF Crash, Fault, JobDropped, Leave
<1>19. ASSUME NEW w \in Worker, NEW j \in Job, Take(w, j)
      PROVE  TypeOK'
  BY <1>19 DEF Take, JobTaken
<1>20. ASSUME NEW j \in Job, JobStalls(j)
      PROVE  TypeOK'
  BY <1>20 DEF JobStalls, JobFoundSilent, Fault
<1>21. CASE UNCHANGED vars
  BY <1>21 DEF vars
<1> QED
  BY <1>1, <1>2, <1>3, <1>4, <1>5, <1>6, <1>7, <1>8, <1>9, <1>10, <1>11,
     <1>12, <1>13, <1>14, <1>15, <1>16, <1>17, <1>18, <1>19, <1>20, <1>21
  DEF Next, WorkerStep, RowStep

\* What was spent is a number, since there are finitely many workers.
LEMMA SpentType ==
  ASSUME TypeOK, NEW d \in Delivery
  PROVE  IsFiniteSet(InFlight(d)) /\ Spent(d) \in Nat
<1>1. IsFiniteSet(InFlight(d))
  BY NotificationAssumption, FS_Subset DEF InFlight
<1> QED
  BY <1>1, FS_CardinalityType DEF Spent, TypeOK

\* The same of the next state.
LEMMA SpentTypeNext ==
  ASSUME TypeOK', NEW d \in Delivery
  PROVE  Spent(d)' \in Nat
<1>1. IsFiniteSet(InFlight(d)')
  BY NotificationAssumption, FS_Subset DEF InFlight
<1> QED
  BY <1>1, FS_CardinalityType DEF Spent, TypeOK

\* Nothing is spent while no worker starts to deliver and nothing is sent.
LEMMA NothingSpent ==
  ASSUME TypeOK, TypeOK', NEW d \in Delivery,
         InFlight(d)' \subseteq InFlight(d), sends'[d] = sends[d]
  PROVE  Spent(d)' <= Spent(d)
<1>1. IsFiniteSet(InFlight(d))
  BY SpentType
<1>2. /\ Cardinality(InFlight(d)') <= Cardinality(InFlight(d))
      /\ Cardinality(InFlight(d)') \in Nat
      /\ Cardinality(InFlight(d)) \in Nat
  BY <1>1, FS_Subset, FS_CardinalityType
<1> QED
  BY <1>2 DEF Spent, TypeOK

\* A claim spends one message.
LEMMA ClaimSpends ==
  ASSUME TypeOK, TypeOK', NEW w \in Worker, Claim(w), NEW d \in Delivery
  PROVE  /\ Spent(d)' <= Spent(d) + 1
         /\ d # At(w) => Spent(d)' <= Spent(d)
<1>1. sends' = sends /\ job' = job /\ pc' = [pc EXCEPT ![w] = "channel"]
  BY DEF Claim
<1>2. InFlight(d)' \subseteq InFlight(d) \union {w}
  BY <1>1 DEF InFlight, At, TypeOK
<1>3. IsFiniteSet(InFlight(d)) /\ IsFiniteSet(InFlight(d) \union {w})
  BY SpentType, FS_AddElement
<1>4. /\ Cardinality(InFlight(d)) \in Nat
      /\ Cardinality(InFlight(d)') \in Nat
      /\ Cardinality(InFlight(d) \union {w}) \in Nat
      /\ Cardinality(InFlight(d)') <= Cardinality(InFlight(d) \union {w})
      /\ Cardinality(InFlight(d) \union {w}) <= Cardinality(InFlight(d)) + 1
  BY <1>2, <1>3, FS_AddElement, FS_Subset, FS_CardinalityType
<1>5. Spent(d)' <= Spent(d) + 1
  BY <1>1, <1>4 DEF Spent, TypeOK
<1>6. ASSUME d # At(w)
      PROVE  Spent(d)' <= Spent(d)
  <2>1. InFlight(d)' \subseteq InFlight(d)
    BY <1>1, <1>6 DEF InFlight, At, TypeOK
  <2> QED
    BY <1>1, <2>1, NothingSpent
<1> QED
  BY <1>5, <1>6

\* A worker that ends its send, one way or the other, gives one message back;
\* the provider may have taken it.
LEMMA SendSpends ==
  ASSUME TypeOK, TypeOK', NEW w \in Worker, pc[w] = "send", job' = job,
         NEW c \in {"record", "catch"}, pc' = [pc EXCEPT ![w] = c],
         NEW d \in Delivery
  PROVE  /\ sends' = sends => Spent(d)' <= Spent(d)
         /\ sends' = sends /\ d = At(w) => Spent(d)' <= Spent(d) - 1
         /\ sends' = [sends EXCEPT ![At(w)] = @ + 1] => Spent(d)' <= Spent(d)
<1>1. InFlight(d)' = InFlight(d) \ {w}
  BY DEF InFlight, At, TypeOK
<1>2. w \in InFlight(d) <=> d = At(w)
  BY DEF InFlight
<1>3. /\ Cardinality(InFlight(d)) \in Nat
      /\ Cardinality(InFlight(d)') =
           IF d = At(w) THEN Cardinality(InFlight(d)) - 1
                        ELSE Cardinality(InFlight(d))
  BY <1>1, <1>2, SpentType, FS_RemoveElement, FS_CardinalityType
<1> QED
  BY <1>3 DEF Spent, TypeOK

\* Nothing but a claim spends a message.
LEMMA StepSpends ==
  ASSUME TypeOK, TypeOK', [Next]_vars, NEW e \in Delivery
  PROVE  Spent(e)' <= Spent(e) \/ \E w \in Worker : Claim(w)
<1> DEFINE Kept == Spent(e)' <= Spent(e) \/ \E w \in Worker : Claim(w)
<1>0. ASSUME sends' = sends,
             \A v \in Worker :
               \/ pc'[v] = pc[v] /\ job'[v] = job[v]
               \/ pc'[v] \notin {"channel", "send"}
               \/ pc[v] = "channel" /\ pc'[v] = "send" /\ job'[v] = job[v]
      PROVE  Kept
  <2>1. InFlight(e)' \subseteq InFlight(e)
    BY <1>0 DEF InFlight, At
  <2> QED
    BY <1>0, <2>1, NothingSpent
<1> USE DEF TypeOK
<1>1. ASSUME NEW d \in Delivery, Publish(d)
      PROVE  Kept
  BY <1>1, <1>0 DEF Publish
<1>2. ASSUME NEW d \in Delivery, ClaimExpires(d)
      PROVE  Kept
  BY <1>2, <1>0 DEF ClaimExpires
<1>3. ASSUME NEW d \in Delivery, ReadForRetry(d)
      PROVE  Kept
  BY <1>3, <1>0 DEF ReadForRetry
<1>4. ASSUME NEW d \in Delivery, Retry(d)
      PROVE  Kept
  BY <1>4, <1>0 DEF Retry
<1>5. ASSUME NEW d \in Delivery, RetryRefused(d)
      PROVE  Kept
  BY <1>5, <1>0 DEF RetryRefused
<1>6. ASSUME NEW d \in Delivery, DeleteChannel(d)
      PROVE  Kept
  BY <1>6, <1>0 DEF DeleteChannel
<1>7. ASSUME NEW w \in Worker, Claim(w)
      PROVE  Kept
  BY <1>7
<1>8. ASSUME NEW w \in Worker, ClaimRefused(w)
      PROVE  Kept
  BY <1>8, <1>0 DEF ClaimRefused, Leave
<1>9. ASSUME NEW w \in Worker, ClaimFails(w)
      PROVE  Kept
  BY <1>9, <1>0 DEF ClaimFails, Leave
<1>10. ASSUME NEW w \in Worker, FindChannel(w)
      PROVE  Kept
  BY <1>10, <1>0 DEF FindChannel
<1>11. ASSUME NEW w \in Worker, ChannelMissing(w)
      PROVE  Kept
  BY <1>11, <1>0 DEF ChannelMissing, Leave
<1>12. ASSUME NEW w \in Worker, SendAccepted(w)
      PROVE  Kept
  BY <1>12, SendSpends DEF SendAccepted
<1>13. ASSUME NEW w \in Worker, SendFails(w)
      PROVE  Kept
  BY <1>13, SendSpends DEF SendFails
<1>14. ASSUME NEW w \in Worker, RecordDelivered(w)
      PROVE  Kept
  BY <1>14, <1>0 DEF RecordDelivered, Leave
<1>15. ASSUME NEW w \in Worker, RecordFails(w)
      PROVE  Kept
  BY <1>15, <1>0 DEF RecordFails
<1>16. ASSUME NEW w \in Worker, RecordFailure(w)
      PROVE  Kept
  BY <1>16, <1>0 DEF RecordFailure, Leave
<1>17. ASSUME NEW w \in Worker, ThrowUnrecorded(w)
      PROVE  Kept
  BY <1>17, <1>0 DEF ThrowUnrecorded, Leave
<1>18. ASSUME NEW w \in Worker, Crash(w)
      PROVE  Kept
  BY <1>18, <1>0 DEF Crash, Leave
<1>19. ASSUME NEW w \in Worker, NEW j \in Job, Take(w, j)
      PROVE  Kept
  BY <1>19, <1>0 DEF Take
<1>20. ASSUME NEW j \in Job, JobStalls(j)
      PROVE  Kept
  BY <1>20, <1>0 DEF JobStalls
<1>21. CASE UNCHANGED vars
  BY <1>21, <1>0 DEF vars
<1> QED
  BY <1>1, <1>2, <1>3, <1>4, <1>5, <1>6, <1>7, <1>8, <1>9, <1>10, <1>11,
     <1>12, <1>13, <1>14, <1>15, <1>16, <1>17, <1>18, <1>19, <1>20, <1>21
  DEF Next, WorkerStep, RowStep

\* Deliveries start in the invariant: nothing was tried or sent.
LEMMA InitInv == Init => NotificationInv
<1> SUFFICES ASSUME Init PROVE NotificationInv
  OBVIOUS
<1>1. TypeOK
  BY InitType
<1>2. ASSUME NEW d \in Delivery
      PROVE  Spent(d) = 0
  <2>1. InFlight(d) = {} /\ sends[d] = 0
    BY DEF Init, InFlight
  <2> QED
    BY <2>1, FS_EmptySet DEF Spent
<1>3. ClaimantCounts
  BY DEF Init, ClaimantCounts, Delivering
<1>4. AttemptLeft
  BY NotificationAssumption DEF Init, AttemptLeft
<1>5. MessageLeft
  BY <1>2 DEF Init, MessageLeft
<1> QED
  BY <1>1, <1>3, <1>4, <1>5 DEF NotificationInv

\* Every step keeps the claimant's count: the row's attempts change only with
\* a claim, which stamps the row, and with a retry, which clears the stamp.
LEMMA NextCounts == NotificationInv /\ [Next]_vars => ClaimantCounts'
<1> SUFFICES ASSUME NotificationInv, [Next]_vars PROVE ClaimantCounts'
  OBVIOUS
<1> USE JobShape, BusyDelivery
    DEF NotificationInv, ClaimantCounts, TypeOK, Delivering, Claimed, At
<1>1. ASSUME NEW d \in Delivery, Publish(d)
      PROVE  ClaimantCounts'
  BY <1>1 DEF Publish
<1>2. ASSUME NEW d \in Delivery, ClaimExpires(d)
      PROVE  ClaimantCounts'
  BY <1>2 DEF ClaimExpires
<1>3. ASSUME NEW d \in Delivery, ReadForRetry(d)
      PROVE  ClaimantCounts'
  BY <1>3 DEF ReadForRetry
<1>4. ASSUME NEW d \in Delivery, Retry(d)
      PROVE  ClaimantCounts'
  BY <1>4 DEF Retry
<1>5. ASSUME NEW d \in Delivery, RetryRefused(d)
      PROVE  ClaimantCounts'
  BY <1>5 DEF RetryRefused
<1>6. ASSUME NEW d \in Delivery, DeleteChannel(d)
      PROVE  ClaimantCounts'
  BY <1>6 DEF DeleteChannel
<1>7. ASSUME NEW w \in Worker, Claim(w)
      PROVE  ClaimantCounts'
  BY <1>7 DEF Claim
<1>8. ASSUME NEW w \in Worker, ClaimRefused(w)
      PROVE  ClaimantCounts'
  BY <1>8 DEF ClaimRefused, Leave
<1>9. ASSUME NEW w \in Worker, ClaimFails(w)
      PROVE  ClaimantCounts'
  BY <1>9 DEF ClaimFails, Leave
<1>10. ASSUME NEW w \in Worker, FindChannel(w)
      PROVE  ClaimantCounts'
  BY <1>10 DEF FindChannel
<1>11. ASSUME NEW w \in Worker, ChannelMissing(w)
      PROVE  ClaimantCounts'
  BY <1>11 DEF ChannelMissing, UpdateClaimed, Leave
<1>12. ASSUME NEW w \in Worker, SendAccepted(w)
      PROVE  ClaimantCounts'
  BY <1>12 DEF SendAccepted
<1>13. ASSUME NEW w \in Worker, SendFails(w)
      PROVE  ClaimantCounts'
  BY <1>13 DEF SendFails
<1>14. ASSUME NEW w \in Worker, RecordDelivered(w)
      PROVE  ClaimantCounts'
  BY <1>14 DEF RecordDelivered, UpdateClaimed, Leave
<1>15. ASSUME NEW w \in Worker, RecordFails(w)
      PROVE  ClaimantCounts'
  BY <1>15 DEF RecordFails
<1>16. ASSUME NEW w \in Worker, RecordFailure(w)
      PROVE  ClaimantCounts'
  BY <1>16 DEF RecordFailure, UpdateClaimed, StatusAfterFailure, Leave
<1>17. ASSUME NEW w \in Worker, ThrowUnrecorded(w)
      PROVE  ClaimantCounts'
  BY <1>17 DEF ThrowUnrecorded, Leave
<1>18. ASSUME NEW w \in Worker, Crash(w)
      PROVE  ClaimantCounts'
  BY <1>18 DEF Crash, Leave
<1>19. ASSUME NEW w \in Worker, NEW j \in Job, Take(w, j)
      PROVE  ClaimantCounts'
  BY <1>19 DEF Take
<1>20. ASSUME NEW j \in Job, JobStalls(j)
      PROVE  ClaimantCounts'
  BY <1>20 DEF JobStalls
<1>21. CASE UNCHANGED vars
  BY <1>21 DEF vars
<1> QED
  BY <1>1, <1>2, <1>3, <1>4, <1>5, <1>6, <1>7, <1>8, <1>9, <1>10, <1>11,
     <1>12, <1>13, <1>14, <1>15, <1>16, <1>17, <1>18, <1>19, <1>20, <1>21
  DEF Next, WorkerStep, RowStep

\* Every step keeps an attempt for an open delivery: a claim is left behind
\* only by a fault, and a recorded failure is the last one at the limit.
LEMMA NextAttempts == NotificationInv /\ [Next]_vars => AttemptLeft'
<1> SUFFICES ASSUME NotificationInv, [Next]_vars PROVE AttemptLeft'
  OBVIOUS
<1> USE NotificationAssumption, JobShape, BusyDelivery
    DEF NotificationInv, AttemptLeft, TypeOK, Open, Attended, Claimed, At
<1>1. ASSUME NEW d \in Delivery, Publish(d)
      PROVE  AttemptLeft'
  BY <1>1 DEF Publish
<1>2. ASSUME NEW d \in Delivery, ClaimExpires(d)
      PROVE  AttemptLeft'
  BY <1>2 DEF ClaimExpires, Fault
<1>3. ASSUME NEW d \in Delivery, ReadForRetry(d)
      PROVE  AttemptLeft'
  BY <1>3 DEF ReadForRetry
<1>4. ASSUME NEW d \in Delivery, Retry(d)
      PROVE  AttemptLeft'
  BY <1>4 DEF Retry
<1>5. ASSUME NEW d \in Delivery, RetryRefused(d)
      PROVE  AttemptLeft'
  BY <1>5 DEF RetryRefused
<1>6. ASSUME NEW d \in Delivery, DeleteChannel(d)
      PROVE  AttemptLeft'
  BY <1>6 DEF DeleteChannel
<1>7. ASSUME NEW w \in Worker, Claim(w)
      PROVE  AttemptLeft'
  BY <1>7 DEF Claim, Claimable
<1>8. ASSUME NEW w \in Worker, ClaimRefused(w)
      PROVE  AttemptLeft'
  BY <1>8 DEF ClaimRefused, Leave
<1>9. ASSUME NEW w \in Worker, ClaimFails(w)
      PROVE  AttemptLeft'
  BY <1>9 DEF ClaimFails, Fault, Leave
<1>10. ASSUME NEW w \in Worker, FindChannel(w)
      PROVE  AttemptLeft'
  BY <1>10 DEF FindChannel
<1>11. ASSUME NEW w \in Worker, ChannelMissing(w)
      PROVE  AttemptLeft'
  BY <1>11 DEF ChannelMissing, UpdateClaimed, Leave
<1>12. ASSUME NEW w \in Worker, SendAccepted(w)
      PROVE  AttemptLeft'
  BY <1>12 DEF SendAccepted
<1>13. ASSUME NEW w \in Worker, SendFails(w)
      PROVE  AttemptLeft'
  BY <1>13 DEF SendFails, Fault
<1>14. ASSUME NEW w \in Worker, RecordDelivered(w)
      PROVE  AttemptLeft'
  BY <1>14 DEF RecordDelivered, UpdateClaimed, Leave
<1>15. ASSUME NEW w \in Worker, RecordFails(w)
      PROVE  AttemptLeft'
  BY <1>15 DEF RecordFails, Fault
<1>16. ASSUME NEW w \in Worker, RecordFailure(w)
      PROVE  AttemptLeft'
  BY <1>16
  DEF RecordFailure, UpdateClaimed, StatusAfterFailure, Leave,
      ClaimantCounts, Delivering
<1>17. ASSUME NEW w \in Worker, ThrowUnrecorded(w)
      PROVE  AttemptLeft'
  BY <1>17 DEF ThrowUnrecorded, Fault, Leave
<1>18. ASSUME NEW w \in Worker, Crash(w)
      PROVE  AttemptLeft'
  BY <1>18 DEF Crash, Fault, Leave
<1>19. ASSUME NEW w \in Worker, NEW j \in Job, Take(w, j)
      PROVE  AttemptLeft'
  BY <1>19 DEF Take
<1>20. ASSUME NEW j \in Job, JobStalls(j)
      PROVE  AttemptLeft'
  BY <1>20 DEF JobStalls, Fault
<1>21. CASE UNCHANGED vars
  BY <1>21 DEF vars
<1> QED
  BY <1>1, <1>2, <1>3, <1>4, <1>5, <1>6, <1>7, <1>8, <1>9, <1>10, <1>11,
     <1>12, <1>13, <1>14, <1>15, <1>16, <1>17, <1>18, <1>19, <1>20, <1>21
  DEF Next, WorkerStep, RowStep

\* Every step keeps the account of messages: whoever claims an open delivery
\* spends the one message it has, and a delivery is open again only when that
\* message was refused or a fault pays for the next one.
LEMMA NextMessages == NotificationInv /\ [Next]_vars => MessageLeft'
<1> SUFFICES ASSUME NotificationInv, [Next]_vars PROVE MessageLeft'
  OBVIOUS
<1>a. TypeOK /\ TypeOK'
  BY NextType DEF NotificationInv
<1>b. \A e \in Delivery : Spent(e) \in Nat /\ Spent(e)' \in Nat
  BY <1>a, SpentType, SpentTypeNext
<1> USE NotificationAssumption, JobShape, BusyDelivery
    DEF NotificationInv, MessageLeft, TypeOK, Open, Attended, Claimed, At
<1>c. ASSUME NEW w \in Worker, Claim(w)
      PROVE  MessageLeft'
  <2>1. \A e \in Delivery :
          /\ Spent(e)' <= Spent(e) + 1
          /\ e # At(w) => Spent(e)' <= Spent(e)
    BY <1>a, <1>c, ClaimSpends
  <2> QED
    BY <1>b, <1>c, <2>1 DEF Claim, Claimable
<1>d. SUFFICES ASSUME \A e \in Delivery : Spent(e)' <= Spent(e)
               PROVE  MessageLeft'
  BY <1>a, <1>c, StepSpends
<1>1. ASSUME NEW d \in Delivery, Publish(d)
      PROVE  MessageLeft'
  BY <1>1, <1>b, <1>d DEF Publish
<1>2. ASSUME NEW d \in Delivery, ClaimExpires(d)
      PROVE  MessageLeft'
  BY <1>2, <1>b, <1>d DEF ClaimExpires, Fault
<1>3. ASSUME NEW d \in Delivery, ReadForRetry(d)
      PROVE  MessageLeft'
  BY <1>3, <1>b, <1>d DEF ReadForRetry
<1>4. ASSUME NEW d \in Delivery, Retry(d)
      PROVE  MessageLeft'
  BY <1>4, <1>b, <1>d DEF Retry, Retryable
<1>5. ASSUME NEW d \in Delivery, RetryRefused(d)
      PROVE  MessageLeft'
  BY <1>5, <1>b, <1>d DEF RetryRefused
<1>6. ASSUME NEW d \in Delivery, DeleteChannel(d)
      PROVE  MessageLeft'
  BY <1>6, <1>b, <1>d DEF DeleteChannel
<1>7. ASSUME NEW w \in Worker, Claim(w)
      PROVE  MessageLeft'
  BY <1>7, <1>c
<1>8. ASSUME NEW w \in Worker, ClaimRefused(w)
      PROVE  MessageLeft'
  BY <1>8, <1>b, <1>d DEF ClaimRefused, Leave
<1>9. ASSUME NEW w \in Worker, ClaimFails(w)
      PROVE  MessageLeft'
  BY <1>9, <1>b, <1>d DEF ClaimFails, Fault, Leave
<1>10. ASSUME NEW w \in Worker, FindChannel(w)
      PROVE  MessageLeft'
  BY <1>10, <1>b, <1>d DEF FindChannel
<1>11. ASSUME NEW w \in Worker, ChannelMissing(w)
      PROVE  MessageLeft'
  BY <1>11, <1>b, <1>d DEF ChannelMissing, UpdateClaimed, Leave
<1>12. ASSUME NEW w \in Worker, SendAccepted(w)
      PROVE  MessageLeft'
  BY <1>12, <1>b, <1>d DEF SendAccepted
<1>13. ASSUME NEW w \in Worker, SendFails(w)
      PROVE  MessageLeft'
  <2>1. CASE UNCHANGED <<faults, sends>>
    <3>1. Spent(At(w))' <= Spent(At(w)) - 1
      BY <1>13, <1>a, <2>1, SendSpends DEF SendFails
    <3> QED
      BY <1>13, <1>b, <1>d, <2>1, <3>1 DEF SendFails
  <2>2. CASE Fault("reply")
    BY <1>13, <1>b, <1>d, <2>2 DEF SendFails, Fault
  <2> QED
    BY <1>13, <2>1, <2>2 DEF SendFails
<1>14. ASSUME NEW w \in Worker, RecordDelivered(w)
      PROVE  MessageLeft'
  BY <1>14, <1>b, <1>d DEF RecordDelivered, UpdateClaimed, Leave
<1>15. ASSUME NEW w \in Worker, RecordFails(w)
      PROVE  MessageLeft'
  BY <1>15, <1>b, <1>d DEF RecordFails, Fault
<1>16. ASSUME NEW w \in Worker, RecordFailure(w)
      PROVE  MessageLeft'
  BY <1>16, <1>b, <1>d DEF RecordFailure, UpdateClaimed, StatusAfterFailure,
      Leave
<1>17. ASSUME NEW w \in Worker, ThrowUnrecorded(w)
      PROVE  MessageLeft'
  BY <1>17, <1>b, <1>d DEF ThrowUnrecorded, Fault, Leave
<1>18. ASSUME NEW w \in Worker, Crash(w)
      PROVE  MessageLeft'
  BY <1>18, <1>b, <1>d DEF Crash, Fault, Leave
<1>19. ASSUME NEW w \in Worker, NEW j \in Job, Take(w, j)
      PROVE  MessageLeft'
  BY <1>19, <1>b, <1>d DEF Take
<1>20. ASSUME NEW j \in Job, JobStalls(j)
      PROVE  MessageLeft'
  BY <1>20, <1>b, <1>d DEF JobStalls, Fault
<1>21. CASE UNCHANGED vars
  BY <1>21, <1>b, <1>d DEF vars
<1> QED
  BY <1>1, <1>2, <1>3, <1>4, <1>5, <1>6, <1>7, <1>8, <1>9, <1>10, <1>11,
     <1>12, <1>13, <1>14, <1>15, <1>16, <1>17, <1>18, <1>19, <1>20, <1>21
  DEF Next, WorkerStep, RowStep

\* NotificationInv holds in every reachable state.
LEMMA Invariance == Spec => []NotificationInv
<1>1. NotificationInv /\ [Next]_vars => NotificationInv'
  BY NextType, NextCounts, NextAttempts, NextMessages DEF NotificationInv
<1> QED
  BY InitInv, <1>1, PTL DEF Spec

\* The variables of rows, jobs and workers keep their types, and a slot has a
\* job exactly while it is busy.
THEOREM TypeCorrect == Spec => []TypeOK
<1>1. NotificationInv => TypeOK
  BY DEF NotificationInv
<1> QED
  BY Invariance, <1>1, PTL

\* With any number of workers, duplicate jobs and retries, the provider takes
\* a message a second time only after a fault, and once for each fault.
THEOREM DuplicatesNeedFaults == Spec => []DuplicateNeedsFault
<1>1. NotificationInv => DuplicateNeedsFault
  <2> SUFFICES ASSUME NotificationInv, NEW d \in Delivery
               PROVE  sends[d] <= 1 + faults
    BY DEF DuplicateNeedsFault
  <2>1. Spent(d) <= 1 + faults /\ TypeOK
    BY DEF NotificationInv, MessageLeft
  <2>2. Cardinality(InFlight(d)) \in Nat
    BY <2>1, SpentType, FS_CardinalityType
  <2> QED
    BY <2>1, <2>2 DEF Spent, TypeOK
<1> QED
  BY Invariance, <1>1, PTL

\* The attempts of a delivery stay within the limit but for one attempt for
\* each fault, whichever jobs share the row.
THEOREM AttemptsStayBounded == Spec => []AttemptsBounded
<1>1. NotificationInv => AttemptsBounded
  BY DEF NotificationInv, AttemptLeft, AttemptsBounded
<1> QED
  BY Invariance, <1>1, PTL

\* A delivered row is never claimed, failed or queued again: the claim, the
\* record of an outcome and the operator's retry all ask for another status.
THEOREM DeliveredStays == Spec => DeliveredIsFinal
<1>1. TypeOK /\ [Next]_vars =>
        [\A d \in Delivery : status[d] = "delivered" =>
            status'[d] \in {"delivered", "deleted"}]_vars
  <2> SUFFICES ASSUME TypeOK, Next, NEW e \in Delivery,
                      status[e] = "delivered"
               PROVE  status'[e] \in {"delivered", "deleted"}
    OBVIOUS
  <2> USE DEF TypeOK
  <2>1. ASSUME NEW w \in Worker, WorkerStep(w)
        PROVE  status'[e] = status[e]
    BY <2>1
    DEF WorkerStep, Claim, Claimable, ClaimRefused, ClaimFails, FindChannel,
        ChannelMissing, SendAccepted, SendFails, RecordDelivered, RecordFails,
        RecordFailure, ThrowUnrecorded, UpdateClaimed, Claimed
  <2>2. ASSUME NEW d \in Delivery, RowStep(d)
        PROVE  status'[e] \in {"delivered", "deleted"}
    BY <2>2
    DEF RowStep, Publish, ClaimExpires, ReadForRetry, Retry, Retryable,
        RetryRefused, DeleteChannel
  <2>3. ASSUME NEW w \in Worker, Crash(w)
        PROVE  status'[e] = status[e]
    BY <2>3 DEF Crash
  <2>4. ASSUME NEW w \in Worker, NEW j \in Job, Take(w, j)
        PROVE  status'[e] = status[e]
    BY <2>4 DEF Take
  <2>5. ASSUME NEW j \in Job, JobStalls(j)
        PROVE  status'[e] = status[e]
    BY <2>5 DEF JobStalls
  <2> QED
    BY <2>1, <2>2, <2>3, <2>4, <2>5 DEF Next
<1> QED
  BY TypeCorrect, <1>1, PTL DEF Spec, DeliveredIsFinal
=============================================================================
