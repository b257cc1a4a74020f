--------------------------- MODULE Outbox_proofs ---------------------------
(***************************************************************************)
(* Theorems about Outbox, for any set of messages, number of publishers,   *)
(* attempts, lease and fault bound.  The inductive invariant is OutboxInv. *)
(***************************************************************************)
EXTENDS Outbox, TLAPS

\* The backoff is a number of ticks.
LEMMA RetryDelayType == \A n \in 1 .. MaxAttempts : RetryDelay(n) \in Nat
BY OutboxAssumption DEF RetryDelay

\* The initial state satisfies the inductive invariant.
LEMMA InitInv == Init => OutboxInv
BY OutboxAssumption DEF Init, OutboxInv, TypeOK, AckedMeansHanded,
   DeadLetterIsEarned, WorkIsAccepted, AckIsEarned, PruneSetIsPublished,
   Status, Control

\* Every step preserves the inductive invariant.
LEMMA NextInv == OutboxInv /\ [Next]_vars => OutboxInv'
<1> SUFFICES ASSUME OutboxInv, [Next]_vars
             PROVE  OutboxInv'
    OBVIOUS
<1> USE OutboxAssumption DEF OutboxInv, Status, Control
<1>1. ASSUME NEW m \in Message, Create(m)
      PROVE  OutboxInv'
  BY <1>1 DEF Create, pubVars, historyVars, TypeOK, AckedMeansHanded,
     DeadLetterIsEarned, WorkIsAccepted, AckIsEarned, PruneSetIsPublished
<1>2. ASSUME NEW m \in Message, RetryDeadLetter(m)
      PROVE  OutboxInv'
  BY <1>2 DEF RetryDeadLetter, pubVars, historyVars, TypeOK, AckedMeansHanded,
     DeadLetterIsEarned, WorkIsAccepted, AckIsEarned, PruneSetIsPublished
<1>3. ASSUME NEW m \in Message, SetCancelMarker(m) \/ ClearCancelMarker(m)
      PROVE  OutboxInv'
  BY <1>3 DEF SetCancelMarker, ClearCancelMarker, rowVars, pubVars,
     historyVars, TypeOK, AckedMeansHanded, DeadLetterIsEarned,
     WorkIsAccepted, AckIsEarned, PruneSetIsPublished
<1>4. CASE PruneSelect
  BY <1>4 DEF PruneSelect, PrunableRows, rowVars, pubVars, historyVars, TypeOK,
     AckedMeansHanded, DeadLetterIsEarned, WorkIsAccepted, AckIsEarned,
     PruneSetIsPublished
<1>5. CASE PruneDelete
  BY <1>5 DEF PruneDelete, pubVars, historyVars, TypeOK, AckedMeansHanded,
     DeadLetterIsEarned, WorkIsAccepted, AckIsEarned, PruneSetIsPublished
<1>6. ASSUME NEW p \in Publisher, ClaimBatch(p)
      PROVE  OutboxInv'
  <2>1. PICK S \in SUBSET {m \in Message : Claimable(m)} :
          /\ status' = [m \in Message |->
                          IF m \in S THEN "publishing" ELSE status[m]]
          /\ attempts' = [m \in Message |->
                            IF m \in S /\ status[m] = "pending"
                              THEN attempts[m] + 1 ELSE attempts[m]]
          /\ leaseLeft' = [m \in Message |->
                             IF m \in S THEN Lease + 1 ELSE leaseLeft[m]]
          /\ claimedAt' = [m \in Message |->
                             IF m \in S THEN p ELSE claimedAt[m]]
          /\ batch' = [batch EXCEPT ![p] = S]
    BY <1>6 DEF ClaimBatch
  <2>2. /\ pc' = [pc EXCEPT ![p] = "batch"]
        /\ UNCHANGED <<availableIn, cancelMarker, cur, pruneSet, faults,
                       handed, withdrawn>>
    BY <1>6 DEF ClaimBatch, historyVars
  <2>3. S \subseteq Message /\ \A m \in S : status[m] \in {"pending", "publishing"}
    BY <2>1 DEF Claimable
  <2>4. TypeOK'
    BY <2>1, <2>2, <2>3 DEF TypeOK
  <2>5. AckedMeansHanded' /\ DeadLetterIsEarned'
    BY <2>1, <2>2, <2>3 DEF TypeOK, AckedMeansHanded, DeadLetterIsEarned
  <2>6. WorkIsAccepted' /\ AckIsEarned' /\ PruneSetIsPublished'
    BY <2>1, <2>2, <2>3 DEF TypeOK, WorkIsAccepted, AckIsEarned,
       PruneSetIsPublished
  <2> QED BY <2>4, <2>5, <2>6
<1>7. ASSUME NEW p \in Publisher, NEW m \in Message, BeginPublish(p, m)
      PROVE  OutboxInv'
  BY <1>7 DEF BeginPublish, rowVars, TypeOK, AckedMeansHanded,
     DeadLetterIsEarned, WorkIsAccepted, AckIsEarned, PruneSetIsPublished
<1>8. ASSUME NEW p \in Publisher, AddJob(p) \/ AddJobFails(p)
      PROVE  OutboxInv'
  BY <1>8 DEF AddJob, AddJobFails, rowVars, TypeOK, AckedMeansHanded,
     DeadLetterIsEarned, WorkIsAccepted, AckIsEarned, PruneSetIsPublished
<1>9. ASSUME NEW p \in Publisher, MarkPublished(p)
      PROVE  OutboxInv'
  BY <1>9 DEF MarkPublished, NextMessage, Markable, historyVars, TypeOK,
     AckedMeansHanded, DeadLetterIsEarned, WorkIsAccepted, AckIsEarned,
     PruneSetIsPublished
<1>10. ASSUME NEW p \in Publisher, MarkFailed(p)
       PROVE  OutboxInv'
  BY <1>10, RetryDelayType DEF MarkFailed, NextMessage, Markable,
     StatusAfterFailure, historyVars, TypeOK, AckedMeansHanded,
     DeadLetterIsEarned, WorkIsAccepted, AckIsEarned, PruneSetIsPublished
<1>11. ASSUME NEW p \in Publisher, MarkPublishedThrows(p) \/ AbandonBatch(p)
       PROVE  OutboxInv'
  BY <1>11 DEF MarkPublishedThrows, AbandonBatch, rowVars, historyVars, TypeOK,
     AckedMeansHanded, DeadLetterIsEarned, WorkIsAccepted, AckIsEarned,
     PruneSetIsPublished
<1>12. CASE Tick
  BY <1>12 DEF Tick, Elapse, pubVars, historyVars, TypeOK, AckedMeansHanded,
     DeadLetterIsEarned, WorkIsAccepted, AckIsEarned, PruneSetIsPublished
<1>13. CASE UNCHANGED vars
  BY <1>13 DEF vars, rowVars, pubVars, historyVars, TypeOK, AckedMeansHanded,
     DeadLetterIsEarned, WorkIsAccepted, AckIsEarned, PruneSetIsPublished
<1> QED
  BY <1>1, <1>2, <1>3, <1>4, <1>5, <1>6, <1>7, <1>8, <1>9, <1>10, <1>11,
     <1>12, <1>13 DEF Next, PublisherStep

\* Type correctness, and what publishBatch and markFailed guarantee whatever
\* the publishers, leases and faults do: an acknowledged or pruned command was
\* handed over (or withdrawn), and dead letters have spent every attempt.
THEOREM OutboxInvariance == Spec => []OutboxInv
BY InitInv, NextInv, PTL DEF Spec

\* Every variable of the outbox keeps its type.
THEOREM OutboxTypes == Spec => []TypeOK
<1>1. OutboxInv => TypeOK
  BY DEF OutboxInv
<1> QED BY <1>1, OutboxInvariance, PTL

\* An acknowledged command was handed to BullMQ, or a cancellation withdrew it.
THEOREM AcknowledgedOnlyAfterHandOver == Spec => []AckedMeansHanded
<1>1. OutboxInv => AckedMeansHanded
  BY DEF OutboxInv
<1> QED BY <1>1, OutboxInvariance, PTL

\* Only commands that spent all their attempts become dead letters.
THEOREM DeadLettersAreEarned == Spec => []DeadLetterIsEarned
<1>1. OutboxInv => DeadLetterIsEarned
  BY DEF OutboxInv
<1> QED BY <1>1, OutboxInvariance, PTL

\* The outbox implements at-least-once hand-over: rows, leases, takeovers,
\* retries, dead letters and retention are all invisible to Handoff.
THEOREM OutboxImplementsHandoff == Spec => ImplementsHandoff
<1> USE OutboxAssumption
<1>1. Init => Abstract!HandoffInit
  BY DEF Init, Abstract!HandoffInit
<1>2. ASSUME OutboxInv, [Next]_vars
      PROVE  [Abstract!HandoffNext]_(Abstract!handoffVars)
  <2> USE <1>2 DEF Abstract!handoffVars
  <2> DEFINE accepted == {m \in Message : status[m] # "absent"}
             settled == {m \in Message : status[m] \in {"published", "pruned"}}
  <2>1. ASSUME NEW m \in Message, Create(m)
        PROVE  Abstract!Accept(m)
    BY <2>1 DEF Create, OutboxInv, TypeOK, historyVars, Abstract!Accept
  <2>2. ASSUME NEW m \in Message,
               RetryDeadLetter(m) \/ SetCancelMarker(m) \/ ClearCancelMarker(m)
        PROVE  UNCHANGED <<accepted, handed, withdrawn, settled>>
    BY <2>2 DEF RetryDeadLetter, SetCancelMarker, ClearCancelMarker, OutboxInv,
       TypeOK, rowVars, historyVars
  <2>3. ASSUME PruneSelect \/ PruneDelete \/ Tick
        PROVE  UNCHANGED <<accepted, handed, withdrawn, settled>>
    BY <2>3 DEF PruneSelect, PruneDelete, Tick, OutboxInv, TypeOK,
       PruneSetIsPublished, rowVars, historyVars
  <2>4. ASSUME NEW p \in Publisher, ClaimBatch(p)
        PROVE  UNCHANGED <<accepted, handed, withdrawn, settled>>
    BY <2>4 DEF ClaimBatch, Claimable, OutboxInv, TypeOK, historyVars
  <2>5. ASSUME NEW p \in Publisher, NEW m \in Message, BeginPublish(p, m)
        PROVE  \/ Abstract!Withdraw(m)
               \/ UNCHANGED <<accepted, handed, withdrawn, settled>>
    BY <2>5 DEF BeginPublish, OutboxInv, TypeOK, WorkIsAccepted, rowVars,
       Abstract!Withdraw
  <2>6. ASSUME NEW p \in Publisher, AddJob(p) \/ AddJobFails(p)
        PROVE  \/ \E m \in Message : Abstract!Hand(m)
               \/ UNCHANGED <<accepted, handed, withdrawn, settled>>
    <3>1. cur[p] \in Message /\ cur[p] \in accepted
      BY <2>6 DEF AddJob, AddJobFails, OutboxInv, WorkIsAccepted
    <3>2. UNCHANGED <<accepted, withdrawn, settled>>
      BY <2>6 DEF AddJob, AddJobFails, rowVars
    <3>3. handed' \in {handed, handed \cup {cur[p]}}
      BY <2>6 DEF AddJob, AddJobFails
    <3> QED BY <3>1, <3>2, <3>3 DEF Abstract!Hand
  <2>7. ASSUME NEW p \in Publisher, MarkPublished(p)
        PROVE  \/ \E m \in Message : Abstract!Settle(m)
               \/ UNCHANGED <<accepted, handed, withdrawn, settled>>
    BY <2>7 DEF MarkPublished, Markable, OutboxInv, TypeOK, WorkIsAccepted,
       AckIsEarned, historyVars, Abstract!Settle
  <2>8. ASSUME NEW p \in Publisher, MarkFailed(p)
        PROVE  UNCHANGED <<accepted, handed, withdrawn, settled>>
    BY <2>8 DEF MarkFailed, Markable, StatusAfterFailure, OutboxInv, TypeOK,
       WorkIsAccepted, historyVars
  <2>9. ASSUME NEW p \in Publisher, MarkPublishedThrows(p) \/ AbandonBatch(p)
        PROVE  UNCHANGED <<accepted, handed, withdrawn, settled>>
    BY <2>9 DEF MarkPublishedThrows, AbandonBatch, rowVars, historyVars
  <2>10. CASE UNCHANGED vars
    BY <2>10 DEF vars, rowVars, historyVars
  <2> QED
    BY <2>1, <2>2, <2>3, <2>4, <2>5, <2>6, <2>7, <2>8, <2>9, <2>10
       DEF Next, PublisherStep, Abstract!HandoffNext
<1> QED
  BY <1>1, <1>2, OutboxInvariance, PTL
     DEF Spec, ImplementsHandoff, Abstract!HandoffSpec
=============================================================================
