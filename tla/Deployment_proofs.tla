------------------------- MODULE Deployment_proofs -------------------------
(***************************************************************************)
(* Proofs about Deployment, for every number of deployments, resources,    *)
(* workers, attempts, faults and requests, and every choice of thresholds. *)
(* DeploymentInv is inductive; mutual exclusion, the fencing by execution  *)
(* tokens and the refinement of Lifecycle follow from it.                  *)
(***************************************************************************)
EXTENDS Deployment, TLAPS

USE DEF rowVars, jobVars, lockVars, flagVars, workerVars, apiVars, reconVars

\* Deployment starts in the invariant: no row, job, lock or execution exists.
LEMMA InitInv == Init => DeploymentInv
  BY DeploymentAssumption
  DEF Init, DeploymentInv, TypeOK, HolderIsKnown, TokenIsClaimants,
      FreshWhileHealthy, Healthy, Beating, NothingBeforeTheRow, PastLock,
      DeploymentStatus, Terminal,
      ResourceStatus, CommandState, JobState, Control, ApiControl

\* Every step of workers, publishers, API, reconciler and clock keeps the types
\* and the deployment every busy slot works on.
LEMMA NextType == TypeOK /\ [Next]_vars => TypeOK'
<1> SUFFICES ASSUME TypeOK, [Next]_vars PROVE TypeOK'
  OBVIOUS
<1> USE DeploymentAssumption
    DEF TypeOK, DeploymentStatus, Terminal, ResourceStatus, CommandState,
        JobState, Control, ApiControl
<1>1. ASSUME NEW d \in Deployment, QueueDeployment(d)
      PROVE  TypeOK'
  BY <1>1 DEF QueueDeployment
<1>2. ASSUME NEW d \in Deployment, PublishCheck(d)
      PROVE  TypeOK'
  BY <1>2 DEF PublishCheck
<1>3. ASSUME NEW d \in Deployment, PublishAdd(d)
      PROVE  TypeOK'
  BY <1>3 DEF PublishAdd
<1>4. ASSUME NEW d \in Deployment, EvictJob(d)
      PROVE  TypeOK'
  BY <1>4 DEF EvictJob, RemoveJob
<1>5. ASSUME NEW d \in Deployment, StalledCheck(d)
      PROVE  TypeOK'
  BY <1>5 DEF StalledCheck
<1>6. ASSUME NEW d \in Deployment, CancelRequest(d)
      PROVE  TypeOK'
  BY <1>6 DEF CancelRequest, Serve
<1>7. ASSUME NEW d \in Deployment, KillBuild(d)
      PROVE  TypeOK'
  BY <1>7 DEF KillBuild, Serve
<1>8. ASSUME NEW d \in Deployment, RemoveDeployment(d)
      PROVE  TypeOK'
  BY <1>8 DEF RemoveDeployment, Serve
<1>9. ASSUME NEW d \in Deployment, MarkerExpires(d)
      PROVE  TypeOK'
  BY <1>9 DEF MarkerExpires, Fault
<1>10. ASSUME NEW w \in Worker, NEW d \in Deployment, TakeJob(w, d)
      PROVE  TypeOK'
  BY <1>10 DEF TakeJob
<1>11. ASSUME NEW w \in Worker, AcquireLock(w)
      PROVE  TypeOK'
  BY <1>11 DEF AcquireLock, Forget
<1>12. ASSUME NEW w \in Worker, LoadDeployment(w)
      PROVE  TypeOK'
  BY <1>12 DEF LoadDeployment, Goto
<1>13. ASSUME NEW w \in Worker, ClaimForExecution(w)
      PROVE  TypeOK'
  <2> DEFINE d == on[w]
  <2>1. d \in Deployment /\ ResourceOf[d] \in Resource
    BY <1>13 DEF ClaimForExecution
  <2>2. CASE ClaimableRow(d)
    <3>1. /\ dstatus' = [dstatus EXCEPT ![d] = "running"]
          /\ token' = [token EXCEPT ![d] = w]
          /\ attempt' = [attempt EXCEPT ![d] = @ + 1]
          /\ age' = [age EXCEPT ![d] = 0]
          /\ claimant' = [claimant EXCEPT ![d] = w]
          /\ rstatus' = [rstatus EXCEPT ![ResourceOf[d]] = "running"]
          /\ claimed' = claimed \cup {w}
          /\ pc' = [pc EXCEPT ![w] = "running"]
      BY <1>13, <2>2 DEF ClaimForExecution, Goto
    <3> QED
      BY <1>13, <2>1, <3>1 DEF ClaimForExecution
  <2>3. CASE ~ClaimableRow(d)
    BY <1>13, <2>3 DEF ClaimForExecution, Goto
  <2> QED
    BY <2>2, <2>3
<1>14. ASSUME NEW w \in Worker, PipelineSucceeds(w)
      PROVE  TypeOK'
  BY <1>14 DEF PipelineSucceeds, Goto, FlushFinal, OwnsRow
<1>15. ASSUME NEW w \in Worker, PipelineFails(w)
      PROVE  TypeOK'
  BY <1>15 DEF PipelineFails, Goto
<1>16. ASSUME NEW w \in Worker, CatchError(w)
      PROVE  TypeOK'
  BY <1>16 DEF CatchError, Goto
<1>17. ASSUME NEW w \in Worker, RecordFailure(w)
      PROVE  TypeOK'
  BY <1>17 DEF RecordFailure, Goto, FlushFinal, FailureStatus, OwnsRow
<1>18. ASSUME NEW w \in Worker, ClearMarker(w)
      PROVE  TypeOK'
  BY <1>18 DEF ClearMarker, Goto
<1>19. ASSUME NEW w \in Worker, ReleaseLock(w)
      PROVE  TypeOK'
  BY <1>19 DEF ReleaseLock, SettleJob, Forget
<1>20. ASSUME NEW w \in Worker, AcquireFails(w)
      PROVE  TypeOK'
  BY <1>20 DEF AcquireFails, Fault, SettleJob, Forget
<1>21. ASSUME NEW w \in Worker, ScopeFails(w)
      PROVE  TypeOK'
  BY <1>21 DEF ScopeFails, Fault, SettleJob, Forget
<1>22. ASSUME NEW w \in Worker, LoadFails(w)
      PROVE  TypeOK'
  BY <1>22 DEF LoadFails, Fault, Goto
<1>23. ASSUME NEW w \in Worker, RenewFails(w)
      PROVE  TypeOK'
  BY <1>23 DEF RenewFails, Fault
<1>24. ASSUME NEW w \in Worker, HeartbeatFails(w)
      PROVE  TypeOK'
  BY <1>24 DEF HeartbeatFails, Fault, Beating
<1>25. ASSUME NEW w \in Worker, CatchFails(w)
      PROVE  TypeOK'
  BY <1>25 DEF CatchFails, Fault, Goto
<1>26. ASSUME NEW w \in Worker, FinallyThrows(w)
      PROVE  TypeOK'
  BY <1>26 DEF FinallyThrows, Fault, SettleJob, Forget
<1>27. ASSUME NEW w \in Worker, ReleaseFails(w)
      PROVE  TypeOK'
  BY <1>27 DEF ReleaseFails, Fault, SettleJob, Forget
<1>28. ASSUME NEW w \in Worker, Crash(w)
      PROVE  TypeOK'
  BY <1>28 DEF Crash, Fault, Forget
<1>29. ASSUME NEW w \in Worker, Freeze(w)
      PROVE  TypeOK'
  BY <1>29 DEF Freeze, Fault
<1>30. ASSUME NEW w \in Worker, Thaw(w)
      PROVE  TypeOK'
  BY <1>30 DEF Thaw
<1>31. ASSUME NEW w \in Worker, Heartbeat(w)
      PROVE  TypeOK'
  BY <1>31 DEF Heartbeat, Beating, OwnsRow
<1>32. ASSUME NEW w \in Worker, RenewLoses(w)
      PROVE  TypeOK'
  BY <1>32 DEF RenewLoses
<1>33. ASSUME NEW r \in Resource, LockExpires(r)
      PROVE  TypeOK'
  BY <1>33 DEF LockExpires
<1>34. ASSUME CleanRead
      PROVE  TypeOK'
  BY <1>34 DEF CleanRead, Serve
<1>35. ASSUME CancelSetMarker
      PROVE  TypeOK'
  BY <1>35 DEF CancelSetMarker
<1>36. ASSUME CancelLookup
      PROVE  TypeOK'
  BY <1>36 DEF CancelLookup, ApiDone
<1>37. ASSUME KillSetMarker
      PROVE  TypeOK'
  BY <1>37 DEF KillSetMarker, ApiDone
<1>38. ASSUME JobRemove
      PROVE  TypeOK'
  BY <1>38 DEF JobRemove, RemoveJob, ApiDone
<1>39. ASSUME MarkCancelledRead
      PROVE  TypeOK'
  BY <1>39 DEF MarkCancelledRead, ApiDone
<1>40. ASSUME MarkCancelledWrite
      PROVE  TypeOK'
  BY <1>40 DEF MarkCancelledWrite, ApiDone
<1>41. ASSUME CleanWrite
      PROVE  TypeOK'
  BY <1>41 DEF CleanWrite
<1>42. ASSUME CleanMark
      PROVE  TypeOK'
  BY <1>42 DEF CleanMark, ApiDone
<1>43. ASSUME NEW d \in Deployment, ReconcileSelect(d)
      PROVE  TypeOK'
  BY <1>43 DEF ReconcileSelect, StaleCandidate
<1>44. ASSUME ReconcileMark
      PROVE  TypeOK'
  BY <1>44 DEF ReconcileMark, StaleRow
<1>45. ASSUME ReconcileStop
      PROVE  TypeOK'
  BY <1>45 DEF ReconcileStop
<1>46. ASSUME Tick
      PROVE  TypeOK'
  BY <1>46 DEF Tick
<1>47. CASE UNCHANGED vars
  BY <1>47 DEF vars
<1> QED
  BY <1>1, <1>2, <1>3, <1>4, <1>5, <1>6, <1>7, <1>8, <1>9, <1>10,
     <1>11, <1>12, <1>13, <1>14, <1>15, <1>16, <1>17, <1>18, <1>19, <1>20,
     <1>21, <1>22, <1>23, <1>24, <1>25, <1>26, <1>27, <1>28, <1>29, <1>30,
     <1>31, <1>32, <1>33, <1>34, <1>35, <1>36, <1>37, <1>38, <1>39, <1>40,
     <1>41, <1>42, <1>43, <1>44, <1>45, <1>46, <1>47
     DEF Next, WorkerStep, WorkerFault, ApiStep, ReconcileStep

\* No step takes the lock from an execution that is beyond doubt: only its own
\* release, or a suspension, ends its hold.
LEMMA NextHolder ==
  TypeOK /\ HolderIsKnown /\ [Next]_vars => HolderIsKnown'
<1> SUFFICES ASSUME TypeOK, HolderIsKnown, [Next]_vars PROVE HolderIsKnown'
  OBVIOUS
<1> USE DeploymentAssumption DEF TypeOK, HolderIsKnown, PastLock, Doubtful, Control
<1>1. ASSUME NEW d \in Deployment,
             \/ QueueDeployment(d) \/ PublishCheck(d) \/ PublishAdd(d)
             \/ EvictJob(d) \/ StalledCheck(d) \/ CancelRequest(d)
             \/ KillBuild(d) \/ RemoveDeployment(d) \/ MarkerExpires(d)
             \/ ReconcileSelect(d)
      PROVE  UNCHANGED <<pc, on, lock, lockLost, frozen, paused>>
  BY <1>1 DEF QueueDeployment, PublishCheck, PublishAdd, EvictJob, RemoveJob,
     StalledCheck, CancelRequest, Serve, KillBuild, RemoveDeployment,
     MarkerExpires, Fault, ReconcileSelect, StaleCandidate
<1>2. ASSUME
             \/ CleanRead \/ CancelSetMarker \/ CancelLookup
             \/ KillSetMarker \/ JobRemove \/ MarkCancelledRead
             \/ MarkCancelledWrite \/ CleanWrite \/ CleanMark
             \/ ReconcileMark \/ ReconcileStop \/ Tick
      PROVE  UNCHANGED <<pc, on, lock, lockLost, frozen, paused>>
  BY <1>2 DEF CleanRead, Serve, CancelSetMarker, CancelLookup, JobRemove,
     RemoveJob, ApiDone, KillSetMarker, MarkCancelledRead, MarkCancelledWrite,
     CleanWrite, CleanMark, ReconcileMark, StaleRow, ReconcileStop, Tick
<1>3. ASSUME NEW w \in Worker,
             \/ Heartbeat(w) \/ HeartbeatFails(w)
      PROVE  UNCHANGED <<pc, on, lock, lockLost, frozen, paused>>
  BY <1>3 DEF Heartbeat, Beating, OwnsRow, HeartbeatFails, Fault
<1>4. ASSUME NEW w \in Worker,
             \/ LoadDeployment(w) \/ ClaimForExecution(w)
             \/ PipelineSucceeds(w) \/ PipelineFails(w)
             \/ CatchError(w) \/ RecordFailure(w) \/ ClearMarker(w)
             \/ LoadFails(w) \/ CatchFails(w)
      PROVE  /\ PastLock(w)
             /\ \A v \in Worker : PastLock(v)' <=> PastLock(v)
             /\ UNCHANGED <<on, lock, lockLost, frozen, paused>>
  BY <1>4 DEF LoadDeployment, Goto, ClaimForExecution, ClaimableRow,
     PipelineSucceeds, FlushFinal, OwnsRow, PipelineFails, CatchError,
     RecordFailure, FailureStatus, ClearMarker, LoadFails, Fault, CatchFails
<1>5. ASSUME NEW w \in Worker, NEW d \in Deployment, TakeJob(w, d)
      PROVE  HolderIsKnown'
  BY <1>5 DEF TakeJob
<1>6. ASSUME NEW w \in Worker, AcquireLock(w)
      PROVE  HolderIsKnown'
  BY <1>6 DEF AcquireLock, Forget
<1>7. ASSUME NEW w \in Worker, ReleaseLock(w)
      PROVE  HolderIsKnown'
  BY <1>7 DEF ReleaseLock, SettleJob, Forget
<1>8. ASSUME NEW w \in Worker, AcquireFails(w)
      PROVE  HolderIsKnown'
  BY <1>8 DEF AcquireFails, Fault, SettleJob, Forget
<1>9. ASSUME NEW w \in Worker, ScopeFails(w)
      PROVE  HolderIsKnown'
  BY <1>9 DEF ScopeFails, Fault, SettleJob, Forget
<1>10. ASSUME NEW w \in Worker, FinallyThrows(w)
      PROVE  HolderIsKnown'
  BY <1>10 DEF FinallyThrows, Fault, SettleJob, Forget
<1>11. ASSUME NEW w \in Worker, ReleaseFails(w)
      PROVE  HolderIsKnown'
  BY <1>11 DEF ReleaseFails, Fault, SettleJob, Forget
<1>12. ASSUME NEW w \in Worker, Crash(w)
      PROVE  HolderIsKnown'
  BY <1>12 DEF Crash, Fault, Forget
<1>13. ASSUME NEW w \in Worker, Freeze(w)
      PROVE  HolderIsKnown'
  BY <1>13 DEF Freeze, Fault
<1>14. ASSUME NEW w \in Worker, Thaw(w)
      PROVE  HolderIsKnown'
  BY <1>14 DEF Thaw
<1>15. ASSUME NEW w \in Worker, RenewFails(w)
      PROVE  HolderIsKnown'
  BY <1>15 DEF RenewFails, Fault
<1>16. ASSUME NEW w \in Worker, RenewLoses(w)
      PROVE  HolderIsKnown'
  BY <1>16 DEF RenewLoses
<1>17. ASSUME NEW r \in Resource, LockExpires(r)
      PROVE  HolderIsKnown'
  BY <1>17 DEF LockExpires, Renewing
<1>18. CASE UNCHANGED vars
  BY <1>18 DEF vars
<1>19. CASE UNCHANGED <<pc, on, lock, lockLost, frozen, paused>>
  BY <1>19
<1> QED
  BY <1>1, <1>2, <1>3, <1>4, <1>5, <1>6, <1>7, <1>8, <1>9, <1>10,
     <1>11, <1>12, <1>13, <1>14, <1>15, <1>16, <1>17, <1>18, <1>19
     DEF Next, WorkerStep, WorkerFault, ApiStep, ReconcileStep

\* A running row keeps the token of its latest claimant: only the claim writes a
\* token, and whoever clears it also ends "running".
LEMMA NextToken ==
  TypeOK /\ TokenIsClaimants /\ [Next]_vars => TokenIsClaimants'
<1> SUFFICES ASSUME TypeOK, TokenIsClaimants, [Next]_vars
             PROVE  TokenIsClaimants'
  OBVIOUS
<1> USE DeploymentAssumption DEF TypeOK, TokenIsClaimants, Terminal
<1>1. ASSUME NEW d \in Deployment,
             \/ PublishCheck(d) \/ PublishAdd(d) \/ EvictJob(d)
             \/ StalledCheck(d) \/ CancelRequest(d) \/ KillBuild(d)
             \/ MarkerExpires(d) \/ ReconcileSelect(d)
      PROVE  UNCHANGED <<dstatus, token, claimant>>
  BY <1>1 DEF PublishCheck, PublishAdd, EvictJob, RemoveJob, StalledCheck,
     CancelRequest, Serve, KillBuild, MarkerExpires, Fault, ReconcileSelect,
     StaleCandidate
<1>2. ASSUME
             \/ CleanRead \/ CancelSetMarker \/ CancelLookup
             \/ KillSetMarker \/ JobRemove \/ MarkCancelledRead
             \/ CleanMark
             \/ ReconcileStop \/ Tick
      PROVE  UNCHANGED <<dstatus, token, claimant>>
  BY <1>2 DEF CleanRead, Serve, CancelSetMarker, CancelLookup, JobRemove,
     RemoveJob, ApiDone, KillSetMarker, MarkCancelledRead, CleanMark,
     ReconcileStop, Tick
<1>3. ASSUME NEW w \in Worker,
             \/ AcquireLock(w) \/ LoadDeployment(w) \/ PipelineFails(w)
             \/ CatchError(w) \/ ClearMarker(w) \/ ReleaseLock(w)
             \/ AcquireFails(w) \/ ScopeFails(w) \/ LoadFails(w)
             \/ RenewFails(w) \/ HeartbeatFails(w) \/ CatchFails(w)
             \/ FinallyThrows(w) \/ ReleaseFails(w) \/ Crash(w)
             \/ Freeze(w) \/ Thaw(w) \/ Heartbeat(w) \/ RenewLoses(w)
      PROVE  UNCHANGED <<dstatus, token, claimant>>
  BY <1>3 DEF AcquireLock, Forget, LoadDeployment, Goto, PipelineFails,
     CatchError, ClearMarker, ReleaseLock, SettleJob, AcquireFails, Fault,
     ScopeFails, LoadFails, RenewFails, HeartbeatFails, Beating, CatchFails,
     FinallyThrows, ReleaseFails, Crash, Freeze, Thaw, Heartbeat, OwnsRow,
     RenewLoses
<1>4. ASSUME NEW w \in Worker, NEW d \in Deployment,
             \/ TakeJob(w, d)
      PROVE  UNCHANGED <<dstatus, token, claimant>>
  BY <1>4 DEF TakeJob
<1>5. ASSUME NEW r \in Resource,
             \/ LockExpires(r)
      PROVE  UNCHANGED <<dstatus, token, claimant>>
  BY <1>5 DEF LockExpires
<1>6. ASSUME NEW d \in Deployment, QueueDeployment(d)
      PROVE  TokenIsClaimants'
  BY <1>6 DEF QueueDeployment
<1>7. ASSUME NEW d \in Deployment, RemoveDeployment(d)
      PROVE  TokenIsClaimants'
  BY <1>7 DEF RemoveDeployment, Serve
<1>8. ASSUME NEW w \in Worker, ClaimForExecution(w)
      PROVE  TokenIsClaimants'
  BY <1>8 DEF ClaimForExecution, Goto, ClaimableRow
<1>9. ASSUME NEW w \in Worker, PipelineSucceeds(w)
      PROVE  TokenIsClaimants'
  BY <1>9 DEF PipelineSucceeds, Goto, FlushFinal, OwnsRow
<1>10. ASSUME NEW w \in Worker, RecordFailure(w)
      PROVE  TokenIsClaimants'
  BY <1>10 DEF RecordFailure, Goto, FlushFinal, FailureStatus, OwnsRow
<1>11. ASSUME MarkCancelledWrite
      PROVE  TokenIsClaimants'
  BY <1>11 DEF MarkCancelledWrite, ApiDone
<1>12. ASSUME CleanWrite
      PROVE  TokenIsClaimants'
  BY <1>12 DEF CleanWrite
<1>13. ASSUME ReconcileMark
      PROVE  TokenIsClaimants'
  BY <1>13 DEF ReconcileMark, StaleRow
<1>14. CASE UNCHANGED vars
  BY <1>14 DEF vars
<1>15. CASE UNCHANGED <<dstatus, token, claimant>>
  BY <1>15
<1> QED
  BY <1>1, <1>2, <1>3, <1>4, <1>5, <1>6, <1>7, <1>8, <1>9, <1>10,
     <1>11, <1>12, <1>13, <1>14, <1>15
     DEF Next, WorkerStep, WorkerFault, ApiStep, ReconcileStep

\* An execution that was never suspended keeps its heartbeat fresh: the clock
\* does not pass a tick before it has beaten.
LEMMA NextFresh ==
  TypeOK /\ HolderIsKnown /\ FreshWhileHealthy /\ [Next]_vars
    => FreshWhileHealthy'
<1> SUFFICES ASSUME TypeOK, HolderIsKnown, FreshWhileHealthy, [Next]_vars
             PROVE  FreshWhileHealthy'
  OBVIOUS
<1> USE DeploymentAssumption
    DEF TypeOK, FreshWhileHealthy, Healthy, Beating, OwnsRow, Terminal
<1>1. ASSUME NEW d \in Deployment,
             \/ PublishCheck(d) \/ PublishAdd(d) \/ EvictJob(d)
             \/ StalledCheck(d) \/ CancelRequest(d) \/ KillBuild(d)
             \/ MarkerExpires(d) \/ ReconcileSelect(d)
      PROVE  UNCHANGED <<dstatus, token, age, pc, on, claimed, frozen, paused>>
  BY <1>1 DEF PublishCheck, PublishAdd, EvictJob, RemoveJob, StalledCheck,
     CancelRequest, Serve, KillBuild, MarkerExpires, Fault, ReconcileSelect,
     StaleCandidate
<1>2. ASSUME
             \/ CleanRead \/ CancelSetMarker \/ CancelLookup
             \/ KillSetMarker \/ JobRemove \/ MarkCancelledRead
             \/ CleanMark
             \/ ReconcileStop
      PROVE  UNCHANGED <<dstatus, token, age, pc, on, claimed, frozen, paused>>
  BY <1>2 DEF CleanRead, Serve, CancelSetMarker, CancelLookup, JobRemove,
     RemoveJob, ApiDone, KillSetMarker, MarkCancelledRead, CleanMark,
     ReconcileStop
<1>3. ASSUME NEW r \in Resource,
             \/ LockExpires(r)
      PROVE  UNCHANGED <<dstatus, token, age, pc, on, claimed, frozen, paused>>
  BY <1>3 DEF LockExpires
<1>4. ASSUME NEW w \in Worker,
             \/ RenewFails(w) \/ RenewLoses(w) \/ HeartbeatFails(w)
      PROVE  UNCHANGED <<dstatus, token, age, pc, on, claimed, frozen, paused>>
  BY <1>4 DEF RenewFails, Fault, RenewLoses, HeartbeatFails, Beating
<1>5. ASSUME NEW d \in Deployment, QueueDeployment(d)
      PROVE  FreshWhileHealthy'
  BY <1>5 DEF QueueDeployment
<1>6. ASSUME NEW d \in Deployment, RemoveDeployment(d)
      PROVE  FreshWhileHealthy'
  BY <1>6 DEF RemoveDeployment, Serve
<1>7. ASSUME NEW w \in Worker, NEW d \in Deployment, TakeJob(w, d)
      PROVE  FreshWhileHealthy'
  BY <1>7 DEF TakeJob
<1>8. ASSUME NEW w \in Worker, AcquireLock(w)
      PROVE  FreshWhileHealthy'
  BY <1>8 DEF AcquireLock, Forget
<1>9. ASSUME NEW w \in Worker, LoadDeployment(w)
      PROVE  FreshWhileHealthy'
  BY <1>9 DEF LoadDeployment, Goto
<1>10. ASSUME NEW w \in Worker, ClaimForExecution(w)
      PROVE  FreshWhileHealthy'
  BY <1>10 DEF ClaimForExecution, Goto, ClaimableRow
<1>11. ASSUME NEW w \in Worker, PipelineSucceeds(w)
      PROVE  FreshWhileHealthy'
  BY <1>11 DEF PipelineSucceeds, Goto, FlushFinal, OwnsRow
<1>12. ASSUME NEW w \in Worker, PipelineFails(w)
      PROVE  FreshWhileHealthy'
  BY <1>12 DEF PipelineFails, Goto
<1>13. ASSUME NEW w \in Worker, CatchError(w)
      PROVE  FreshWhileHealthy'
  BY <1>13 DEF CatchError, Goto
<1>14. ASSUME NEW w \in Worker, RecordFailure(w)
      PROVE  FreshWhileHealthy'
  BY <1>14 DEF RecordFailure, Goto, FlushFinal, FailureStatus, OwnsRow
<1>15. ASSUME NEW w \in Worker, ClearMarker(w)
      PROVE  FreshWhileHealthy'
  BY <1>15 DEF ClearMarker, Goto
<1>16. ASSUME NEW w \in Worker, ReleaseLock(w)
      PROVE  FreshWhileHealthy'
  BY <1>16 DEF ReleaseLock, SettleJob, Forget
<1>17. ASSUME NEW w \in Worker, AcquireFails(w)
      PROVE  FreshWhileHealthy'
  BY <1>17 DEF AcquireFails, Fault, SettleJob, Forget
<1>18. ASSUME NEW w \in Worker, ScopeFails(w)
      PROVE  FreshWhileHealthy'
  BY <1>18 DEF ScopeFails, Fault, SettleJob, Forget
<1>19. ASSUME NEW w \in Worker, LoadFails(w)
      PROVE  FreshWhileHealthy'
  BY <1>19 DEF LoadFails, Fault, Goto
<1>20. ASSUME NEW w \in Worker, CatchFails(w)
      PROVE  FreshWhileHealthy'
  BY <1>20 DEF CatchFails, Fault, Goto
<1>21. ASSUME NEW w \in Worker, FinallyThrows(w)
      PROVE  FreshWhileHealthy'
  BY <1>21 DEF FinallyThrows, Fault, SettleJob, Forget
<1>22. ASSUME NEW w \in Worker, ReleaseFails(w)
      PROVE  FreshWhileHealthy'
  BY <1>22 DEF ReleaseFails, Fault, SettleJob, Forget
<1>23. ASSUME NEW w \in Worker, Crash(w)
      PROVE  FreshWhileHealthy'
  BY <1>23 DEF Crash, Fault, Forget
<1>24. ASSUME NEW w \in Worker, Freeze(w)
      PROVE  FreshWhileHealthy'
  BY <1>24 DEF Freeze, Fault
<1>25. ASSUME NEW w \in Worker, Thaw(w)
      PROVE  FreshWhileHealthy'
  BY <1>25 DEF Thaw, HolderIsKnown
<1>26. ASSUME NEW w \in Worker, Heartbeat(w)
      PROVE  FreshWhileHealthy'
  BY <1>26 DEF Heartbeat, Beating, OwnsRow
<1>27. ASSUME MarkCancelledWrite
      PROVE  FreshWhileHealthy'
  BY <1>27 DEF MarkCancelledWrite, ApiDone
<1>28. ASSUME CleanWrite
      PROVE  FreshWhileHealthy'
  BY <1>28 DEF CleanWrite
<1>29. ASSUME ReconcileMark
      PROVE  FreshWhileHealthy'
  BY <1>29 DEF ReconcileMark, StaleRow
<1>30. ASSUME Tick
      PROVE  FreshWhileHealthy'
  BY <1>30 DEF Tick
<1>31. CASE UNCHANGED vars
  BY <1>31 DEF vars
<1>32. CASE UNCHANGED <<dstatus, token, age, pc, on, claimed, frozen, paused>>
  BY <1>32
<1> QED
  BY <1>1, <1>2, <1>3, <1>4, <1>5, <1>6, <1>7, <1>8, <1>9, <1>10,
     <1>11, <1>12, <1>13, <1>14, <1>15, <1>16, <1>17, <1>18, <1>19, <1>20,
     <1>21, <1>22, <1>23, <1>24, <1>25, <1>26, <1>27, <1>28, <1>29, <1>30,
     <1>31, <1>32
     DEF Next, WorkerStep, WorkerFault, ApiStep, ReconcileStep

\* Commands, jobs, executions and requests only ever name rows that exist.
LEMMA NextRow ==
  TypeOK /\ NothingBeforeTheRow /\ [Next]_vars => NothingBeforeTheRow'
<1> SUFFICES ASSUME TypeOK, NothingBeforeTheRow, [Next]_vars
             PROVE  NothingBeforeTheRow'
  OBVIOUS
<1> USE DeploymentAssumption DEF TypeOK, NothingBeforeTheRow, Terminal
<1>1. ASSUME NEW w \in Worker,
             \/ LoadDeployment(w) \/ PipelineFails(w) \/ CatchError(w)
             \/ ClearMarker(w) \/ LoadFails(w) \/ RenewFails(w)
             \/ HeartbeatFails(w) \/ CatchFails(w) \/ Freeze(w)
             \/ Thaw(w) \/ Heartbeat(w) \/ RenewLoses(w)
      PROVE  UNCHANGED <<dstatus, command, job, on, apiOn, reconOn, cleanSet>>
  BY <1>1 DEF LoadDeployment, Goto, PipelineFails, CatchError, ClearMarker,
     LoadFails, Fault, RenewFails, HeartbeatFails, Beating, CatchFails,
     Freeze, Thaw, Heartbeat, OwnsRow, RenewLoses
<1>2. ASSUME NEW d \in Deployment, QueueDeployment(d)
      PROVE  NothingBeforeTheRow'
  BY <1>2 DEF QueueDeployment
<1>3. ASSUME NEW d \in Deployment, PublishCheck(d)
      PROVE  NothingBeforeTheRow'
  BY <1>3 DEF PublishCheck
<1>4. ASSUME NEW d \in Deployment, PublishAdd(d)
      PROVE  NothingBeforeTheRow'
  BY <1>4 DEF PublishAdd
<1>5. ASSUME NEW d \in Deployment, EvictJob(d)
      PROVE  NothingBeforeTheRow'
  BY <1>5 DEF EvictJob, RemoveJob
<1>6. ASSUME NEW d \in Deployment, StalledCheck(d)
      PROVE  NothingBeforeTheRow'
  BY <1>6 DEF StalledCheck
<1>7. ASSUME NEW d \in Deployment, CancelRequest(d)
      PROVE  NothingBeforeTheRow'
  BY <1>7 DEF CancelRequest, Serve
<1>8. ASSUME NEW d \in Deployment, KillBuild(d)
      PROVE  NothingBeforeTheRow'
  BY <1>8 DEF KillBuild, Serve
<1>9. ASSUME NEW d \in Deployment, RemoveDeployment(d)
      PROVE  NothingBeforeTheRow'
  BY <1>9 DEF RemoveDeployment, Serve
<1>10. ASSUME NEW d \in Deployment, MarkerExpires(d)
      PROVE  NothingBeforeTheRow'
  BY <1>10 DEF MarkerExpires, Fault
<1>11. ASSUME NEW w \in Worker, NEW d \in Deployment, TakeJob(w, d)
      PROVE  NothingBeforeTheRow'
  BY <1>11 DEF TakeJob
<1>12. ASSUME NEW w \in Worker, AcquireLock(w)
      PROVE  NothingBeforeTheRow'
  BY <1>12 DEF AcquireLock, Forget
<1>13. ASSUME NEW w \in Worker, ClaimForExecution(w)
      PROVE  NothingBeforeTheRow'
  BY <1>13 DEF ClaimForExecution, Goto, ClaimableRow
<1>14. ASSUME NEW w \in Worker, PipelineSucceeds(w)
      PROVE  NothingBeforeTheRow'
  BY <1>14 DEF PipelineSucceeds, Goto, FlushFinal, OwnsRow
<1>15. ASSUME NEW w \in Worker, RecordFailure(w)
      PROVE  NothingBeforeTheRow'
  BY <1>15 DEF RecordFailure, Goto, FlushFinal, FailureStatus, OwnsRow
<1>16. ASSUME NEW w \in Worker, ReleaseLock(w)
      PROVE  NothingBeforeTheRow'
  BY <1>16 DEF ReleaseLock, SettleJob, Forget
<1>17. ASSUME NEW w \in Worker, AcquireFails(w)
      PROVE  NothingBeforeTheRow'
  BY <1>17 DEF AcquireFails, Fault, SettleJob, Forget
<1>18. ASSUME NEW w \in Worker, ScopeFails(w)
      PROVE  NothingBeforeTheRow'
  BY <1>18 DEF ScopeFails, Fault, SettleJob, Forget
<1>19. ASSUME NEW w \in Worker, FinallyThrows(w)
      PROVE  NothingBeforeTheRow'
  BY <1>19 DEF FinallyThrows, Fault, SettleJob, Forget
<1>20. ASSUME NEW w \in Worker, ReleaseFails(w)
      PROVE  NothingBeforeTheRow'
  BY <1>20 DEF ReleaseFails, Fault, SettleJob, Forget
<1>21. ASSUME NEW w \in Worker, Crash(w)
      PROVE  NothingBeforeTheRow'
  BY <1>21 DEF Crash, Fault, Forget
<1>22. ASSUME NEW r \in Resource, LockExpires(r)
      PROVE  NothingBeforeTheRow'
  BY <1>22 DEF LockExpires
<1>23. ASSUME CleanRead
      PROVE  NothingBeforeTheRow'
  BY <1>23 DEF CleanRead, Serve
<1>24. ASSUME CancelSetMarker
      PROVE  NothingBeforeTheRow'
  BY <1>24 DEF CancelSetMarker
<1>25. ASSUME CancelLookup
      PROVE  NothingBeforeTheRow'
  BY <1>25 DEF CancelLookup, ApiDone
<1>26. ASSUME KillSetMarker
      PROVE  NothingBeforeTheRow'
  BY <1>26 DEF KillSetMarker, ApiDone
<1>27. ASSUME JobRemove
      PROVE  NothingBeforeTheRow'
  BY <1>27 DEF JobRemove, RemoveJob, ApiDone
<1>28. ASSUME MarkCancelledRead
      PROVE  NothingBeforeTheRow'
  BY <1>28 DEF MarkCancelledRead, ApiDone
<1>29. ASSUME MarkCancelledWrite
      PROVE  NothingBeforeTheRow'
  BY <1>29 DEF MarkCancelledWrite, ApiDone
<1>30. ASSUME CleanWrite
      PROVE  NothingBeforeTheRow'
  BY <1>30 DEF CleanWrite
<1>31. ASSUME CleanMark
      PROVE  NothingBeforeTheRow'
  BY <1>31 DEF CleanMark, ApiDone
<1>32. ASSUME NEW d \in Deployment, ReconcileSelect(d)
      PROVE  NothingBeforeTheRow'
  BY <1>32 DEF ReconcileSelect, StaleCandidate
<1>33. ASSUME ReconcileMark
      PROVE  NothingBeforeTheRow'
  BY <1>33 DEF ReconcileMark, StaleRow
<1>34. ASSUME ReconcileStop
      PROVE  NothingBeforeTheRow'
  BY <1>34 DEF ReconcileStop
<1>35. ASSUME Tick
      PROVE  NothingBeforeTheRow'
  BY <1>35 DEF Tick
<1>36. CASE UNCHANGED vars
  BY <1>36 DEF vars
<1>37. CASE UNCHANGED <<dstatus, command, job, on, apiOn, reconOn, cleanSet>>
  BY <1>37
<1> QED
  BY <1>1, <1>2, <1>3, <1>4, <1>5, <1>6, <1>7, <1>8, <1>9, <1>10,
     <1>11, <1>12, <1>13, <1>14, <1>15, <1>16, <1>17, <1>18, <1>19, <1>20,
     <1>21, <1>22, <1>23, <1>24, <1>25, <1>26, <1>27, <1>28, <1>29, <1>30,
     <1>31, <1>32, <1>33, <1>34, <1>35, <1>36, <1>37
     DEF Next, WorkerStep, WorkerFault, ApiStep, ReconcileStep

\* Every step keeps the inductive invariant.
LEMMA NextInv == DeploymentInv /\ [Next]_vars => DeploymentInv'
  BY NextType, NextHolder, NextToken, NextFresh, NextRow DEF DeploymentInv

\* The strengthened invariant holds in every reachable state, whatever the
\* numbers of workers, deployments, faults and requests.
THEOREM DeploymentInvariance == Spec => []DeploymentInv
  BY InitInv, NextInv, PTL DEF Spec

\* TypeOK holds in every reachable state.
THEOREM DeploymentTypes == Spec => []TypeOK
<1>1. DeploymentInv => TypeOK
  BY DEF DeploymentInv
<1> QED
  BY <1>1, DeploymentInvariance, PTL

\* Redis locks serialize the builds of a resource as far as leases can: two
\* executions past the lock of one resource are never both beyond doubt.
THEOREM LockExcludes == Spec => []Exclusion
<1>1. DeploymentInv => Exclusion
  BY DEF DeploymentInv, HolderIsKnown, Exclusion
<1> QED
  BY <1>1, DeploymentInvariance, PTL

\* A step that ends "running" with an outcome of a worker is the step of the
\* row's latest claimant.
LEMMA StepSettles ==
  ASSUME DeploymentInv, [Next]_vars, NEW e \in Deployment,
         dstatus[e] = "running",
         dstatus'[e] \in {"success", "failed", "retrying"}
  PROVE  claimant[e] \in Worker /\ Settles(claimant[e], e)
<1> USE DeploymentAssumption DEF DeploymentInv, TypeOK, Terminal
<1>1. ASSUME NEW d \in Deployment,
             \/ PublishCheck(d) \/ PublishAdd(d) \/ EvictJob(d)
             \/ StalledCheck(d) \/ CancelRequest(d) \/ KillBuild(d)
             \/ MarkerExpires(d) \/ ReconcileSelect(d)
      PROVE  UNCHANGED dstatus
  BY <1>1 DEF PublishCheck, PublishAdd, EvictJob, RemoveJob, StalledCheck,
     CancelRequest, Serve, KillBuild, MarkerExpires, Fault, ReconcileSelect,
     StaleCandidate
<1>2. ASSUME
             \/ CleanRead \/ CancelSetMarker \/ CancelLookup
             \/ KillSetMarker \/ JobRemove \/ MarkCancelledRead
             \/ CleanMark
             \/ ReconcileStop \/ Tick
      PROVE  UNCHANGED dstatus
  BY <1>2 DEF CleanRead, Serve, CancelSetMarker, CancelLookup, JobRemove,
     RemoveJob, ApiDone, KillSetMarker, MarkCancelledRead, CleanMark,
     ReconcileStop, Tick
<1>3. ASSUME NEW w \in Worker,
             \/ AcquireLock(w) \/ LoadDeployment(w) \/ PipelineFails(w)
             \/ CatchError(w) \/ ClearMarker(w) \/ ReleaseLock(w)
             \/ AcquireFails(w) \/ ScopeFails(w) \/ LoadFails(w)
             \/ RenewFails(w) \/ HeartbeatFails(w) \/ CatchFails(w)
             \/ FinallyThrows(w) \/ ReleaseFails(w) \/ Crash(w)
             \/ Freeze(w) \/ Thaw(w) \/ Heartbeat(w) \/ RenewLoses(w)
      PROVE  UNCHANGED dstatus
  BY <1>3 DEF AcquireLock, Forget, LoadDeployment, Goto, PipelineFails,
     CatchError, ClearMarker, ReleaseLock, SettleJob, AcquireFails, Fault,
     ScopeFails, LoadFails, RenewFails, HeartbeatFails, Beating, CatchFails,
     FinallyThrows, ReleaseFails, Crash, Freeze, Thaw, Heartbeat, OwnsRow,
     RenewLoses
<1>4. ASSUME NEW w \in Worker, NEW d \in Deployment,
             \/ TakeJob(w, d)
      PROVE  UNCHANGED dstatus
  BY <1>4 DEF TakeJob
<1>5. ASSUME NEW r \in Resource,
             \/ LockExpires(r)
      PROVE  UNCHANGED dstatus
  BY <1>5 DEF LockExpires
<1>6. ASSUME NEW d \in Deployment, QueueDeployment(d)
      PROVE  dstatus'[e] \notin {"success", "failed", "retrying"}
               \/ dstatus'[e] = dstatus[e]
  BY <1>6 DEF QueueDeployment
<1>7. ASSUME NEW d \in Deployment, RemoveDeployment(d)
      PROVE  dstatus'[e] \notin {"success", "failed", "retrying"}
               \/ dstatus'[e] = dstatus[e]
  BY <1>7 DEF RemoveDeployment, Serve
<1>8. ASSUME NEW w \in Worker, ClaimForExecution(w)
      PROVE  dstatus'[e] \notin {"success", "failed", "retrying"}
               \/ dstatus'[e] = dstatus[e]
  BY <1>8 DEF ClaimForExecution, Goto, ClaimableRow
<1>9. ASSUME MarkCancelledWrite
      PROVE  dstatus'[e] \notin {"success", "failed", "retrying"}
               \/ dstatus'[e] = dstatus[e]
  BY <1>9 DEF MarkCancelledWrite, ApiDone
<1>10. ASSUME CleanWrite
      PROVE  dstatus'[e] \notin {"success", "failed", "retrying"}
               \/ dstatus'[e] = dstatus[e]
  BY <1>10 DEF CleanWrite
<1>11. ASSUME ReconcileMark
      PROVE  dstatus'[e] \notin {"success", "failed", "retrying"}
               \/ dstatus'[e] = dstatus[e]
  BY <1>11 DEF ReconcileMark, StaleRow
<1>12. ASSUME NEW w \in Worker, PipelineSucceeds(w)
      PROVE  \/ dstatus'[e] = dstatus[e]
             \/ claimant[e] \in Worker /\ Settles(claimant[e], e)
  <2>1. on[w] \in Deployment /\ w \in Worker
    BY <1>12 DEF PipelineSucceeds
  <2>2. e = on[w] /\ OwnsRow(w, e)
    BY <1>12, <2>1 DEF PipelineSucceeds, FlushFinal
  <2>3. claimant[e] = w
    BY <2>2 DEF OwnsRow, TokenIsClaimants
  <2> QED
    BY <1>12, <2>1, <2>2, <2>3 DEF PipelineSucceeds, Goto, Settles
<1>13. ASSUME NEW w \in Worker, RecordFailure(w)
      PROVE  \/ dstatus'[e] = dstatus[e]
             \/ claimant[e] \in Worker /\ Settles(claimant[e], e)
  <2>1. on[w] \in Deployment /\ w \in Worker
    BY <1>13 DEF RecordFailure
  <2>2. e = on[w] /\ OwnsRow(w, e)
    BY <1>13, <2>1 DEF RecordFailure, FlushFinal
  <2>3. claimant[e] = w
    BY <2>2 DEF OwnsRow, TokenIsClaimants
  <2> QED
    BY <1>13, <2>1, <2>2, <2>3 DEF RecordFailure, Goto, Settles
<1>14. CASE UNCHANGED vars
  BY <1>14 DEF vars
<1> QED
  BY <1>1, <1>2, <1>3, <1>4, <1>5, <1>6, <1>7, <1>8, <1>9, <1>10,
     <1>11, <1>12, <1>13, <1>14
     DEF Next, WorkerStep, WorkerFault, ApiStep, ReconcileStep

\* Execution tokens fence off zombies: no outcome is ever recorded by an
\* execution whose row was claimed again.
THEOREM TokensFenceZombies == Spec => OnlyLatestClaimantSettles
<1>1. DeploymentInv /\ [Next]_vars =>
        [\A d \in Deployment :
           dstatus[d] = "running" /\ dstatus'[d] \in {"success", "failed", "retrying"}
             => claimant[d] \in Worker /\ Settles(claimant[d], d)]_vars
  BY StepSettles
<1> QED
  BY <1>1, DeploymentInvariance, PTL DEF Spec, OnlyLatestClaimantSettles

\* The reconciler never declares a deployment stale whose executing worker was
\* never suspended, wherever it was between its read and markStale.
LEMMA StepSparesHealthy ==
  ASSUME DeploymentInv, [Next]_vars, NEW e \in Deployment, NEW v \in Worker,
         dstatus[e] = "running", dstatus'[e] = "stale", Healthy(v, e)
  PROVE  v \in paused
<1> USE DeploymentAssumption DEF DeploymentInv, TypeOK, Terminal
<1>1. ASSUME NEW d \in Deployment,
             \/ PublishCheck(d) \/ PublishAdd(d) \/ EvictJob(d)
             \/ StalledCheck(d) \/ CancelRequest(d) \/ KillBuild(d)
             \/ MarkerExpires(d) \/ ReconcileSelect(d)
      PROVE  UNCHANGED dstatus
  BY <1>1 DEF PublishCheck, PublishAdd, EvictJob, RemoveJob, StalledCheck,
     CancelRequest, Serve, KillBuild, MarkerExpires, Fault, ReconcileSelect,
     StaleCandidate
<1>2. ASSUME
             \/ CleanRead \/ CancelSetMarker \/ CancelLookup
             \/ KillSetMarker \/ JobRemove \/ MarkCancelledRead
             \/ CleanMark
             \/ ReconcileStop \/ Tick
      PROVE  UNCHANGED dstatus
  BY <1>2 DEF CleanRead, Serve, CancelSetMarker, CancelLookup, JobRemove,
     RemoveJob, ApiDone, KillSetMarker, MarkCancelledRead, CleanMark,
     ReconcileStop, Tick
<1>3. ASSUME NEW w \in Worker,
             \/ AcquireLock(w) \/ LoadDeployment(w) \/ PipelineFails(w)
             \/ CatchError(w) \/ ClearMarker(w) \/ ReleaseLock(w)
             \/ AcquireFails(w) \/ ScopeFails(w) \/ LoadFails(w)
             \/ RenewFails(w) \/ HeartbeatFails(w) \/ CatchFails(w)
             \/ FinallyThrows(w) \/ ReleaseFails(w) \/ Crash(w)
             \/ Freeze(w) \/ Thaw(w) \/ Heartbeat(w) \/ RenewLoses(w)
      PROVE  UNCHANGED dstatus
  BY <1>3 DEF AcquireLock, Forget, LoadDeployment, Goto, PipelineFails,
     CatchError, ClearMarker, ReleaseLock, SettleJob, AcquireFails, Fault,
     ScopeFails, LoadFails, RenewFails, HeartbeatFails, Beating, CatchFails,
     FinallyThrows, ReleaseFails, Crash, Freeze, Thaw, Heartbeat, OwnsRow,
     RenewLoses
<1>4. ASSUME NEW w \in Worker, NEW d \in Deployment,
             \/ TakeJob(w, d)
      PROVE  UNCHANGED dstatus
  BY <1>4 DEF TakeJob
<1>5. ASSUME NEW r \in Resource,
             \/ LockExpires(r)
      PROVE  UNCHANGED dstatus
  BY <1>5 DEF LockExpires
<1>6. ASSUME NEW d \in Deployment, QueueDeployment(d)
      PROVE  dstatus'[e] # "stale"
  BY <1>6 DEF QueueDeployment
<1>7. ASSUME NEW d \in Deployment, RemoveDeployment(d)
      PROVE  dstatus'[e] # "stale"
  BY <1>7 DEF RemoveDeployment, Serve
<1>8. ASSUME NEW w \in Worker, ClaimForExecution(w)
      PROVE  dstatus'[e] # "stale"
  BY <1>8 DEF ClaimForExecution, Goto, ClaimableRow
<1>9. ASSUME NEW w \in Worker, PipelineSucceeds(w)
      PROVE  dstatus'[e] # "stale"
  BY <1>9 DEF PipelineSucceeds, Goto, FlushFinal, OwnsRow
<1>10. ASSUME NEW w \in Worker, RecordFailure(w)
      PROVE  dstatus'[e] # "stale"
  BY <1>10 DEF RecordFailure, Goto, FlushFinal, FailureStatus, OwnsRow
<1>11. ASSUME MarkCancelledWrite
      PROVE  dstatus'[e] # "stale"
  BY <1>11 DEF MarkCancelledWrite, ApiDone
<1>12. ASSUME CleanWrite
      PROVE  dstatus'[e] # "stale"
  BY <1>12 DEF CleanWrite
<1>13. ASSUME ReconcileMark
      PROVE  v \in paused
  BY <1>13 DEF ReconcileMark, StaleRow, FreshWhileHealthy
<1>14. CASE UNCHANGED vars
  BY <1>14 DEF vars
<1> QED
  BY <1>1, <1>2, <1>3, <1>4, <1>5, <1>6, <1>7, <1>8, <1>9, <1>10,
     <1>11, <1>12, <1>13, <1>14
     DEF Next, WorkerStep, WorkerFault, ApiStep, ReconcileStep

\* Reconciliation and takeover do not race to the harm of a live execution.
THEOREM ReconcilerSparesHealthy == Spec => HealthyNeverStale
<1>1. DeploymentInv /\ [Next]_vars =>
        [\A d \in Deployment, w \in Worker :
           dstatus[d] = "running" /\ dstatus'[d] = "stale" /\ Healthy(w, d)
             => w \in paused]_vars
  BY StepSparesHealthy
<1> QED
  BY <1>1, DeploymentInvariance, PTL DEF Spec, HealthyNeverStale

\* Queueing, finishing or removing a record is a step of Lifecycle.
LEMMA RowIsStep ==
  ASSUME NEW d \in Deployment,
         Abstract!Queue(d) \/ Abstract!Finish(d) \/ Abstract!Remove(d)
  PROVE  Abstract!LifecycleNext
  BY Zenon DEF Abstract!LifecycleNext

\* Claiming a record is a step of Lifecycle.
LEMMA ClaimIsStep ==
  \A d \in Deployment, w \in Worker :
    Abstract!Claim(d, w) => Abstract!LifecycleNext
  BY Zenon DEF Abstract!LifecycleNext

\* Cancelling a set of records is a step of Lifecycle.
LEMMA CancelIsStep ==
  \A S \in SUBSET Deployment : Abstract!Cancel(S) => Abstract!LifecycleNext
  BY Zenon DEF Abstract!LifecycleNext

\* Every step moves the rows as Lifecycle allows, or not at all.
LEMMA StepRefines ==
  ASSUME DeploymentInv, [Next]_vars
  PROVE  [Abstract!LifecycleNext]_(Abstract!lifecycleVars)
<1> USE DeploymentAssumption
    DEF DeploymentInv, TypeOK, Terminal, DeploymentStatus,
        Abstract!lifecycleVars, Abstract!Ended
<1>1. ASSUME NEW d \in Deployment,
             \/ PublishCheck(d) \/ PublishAdd(d) \/ EvictJob(d)
             \/ StalledCheck(d) \/ CancelRequest(d) \/ KillBuild(d)
             \/ MarkerExpires(d) \/ ReconcileSelect(d)
      PROVE  UNCHANGED <<dstatus, token>>
  BY <1>1 DEF PublishCheck, PublishAdd, EvictJob, RemoveJob, StalledCheck,
     CancelRequest, Serve, KillBuild, MarkerExpires, Fault, ReconcileSelect,
     StaleCandidate
<1>2. ASSUME
             \/ CleanRead \/ CancelSetMarker \/ CancelLookup
             \/ KillSetMarker \/ JobRemove \/ MarkCancelledRead
             \/ CleanMark
             \/ ReconcileStop \/ Tick
      PROVE  UNCHANGED <<dstatus, token>>
  BY <1>2 DEF CleanRead, Serve, CancelSetMarker, CancelLookup, JobRemove,
     RemoveJob, ApiDone, KillSetMarker, MarkCancelledRead, CleanMark,
     ReconcileStop, Tick
<1>3. ASSUME NEW w \in Worker,
             \/ AcquireLock(w) \/ LoadDeployment(w) \/ PipelineFails(w)
             \/ CatchError(w) \/ ClearMarker(w) \/ ReleaseLock(w)
             \/ AcquireFails(w) \/ ScopeFails(w) \/ LoadFails(w)
             \/ RenewFails(w) \/ HeartbeatFails(w) \/ CatchFails(w)
             \/ FinallyThrows(w) \/ ReleaseFails(w) \/ Crash(w)
             \/ Freeze(w) \/ Thaw(w) \/ Heartbeat(w) \/ RenewLoses(w)
      PROVE  UNCHANGED <<dstatus, token>>
  BY <1>3 DEF AcquireLock, Forget, LoadDeployment, Goto, PipelineFails,
     CatchError, ClearMarker, ReleaseLock, SettleJob, AcquireFails, Fault,
     ScopeFails, LoadFails, RenewFails, HeartbeatFails, Beating, CatchFails,
     FinallyThrows, ReleaseFails, Crash, Freeze, Thaw, Heartbeat, OwnsRow,
     RenewLoses
<1>4. ASSUME NEW w \in Worker, NEW d \in Deployment,
             \/ TakeJob(w, d)
      PROVE  UNCHANGED <<dstatus, token>>
  BY <1>4 DEF TakeJob
<1>5. ASSUME NEW r \in Resource,
             \/ LockExpires(r)
      PROVE  UNCHANGED <<dstatus, token>>
  BY <1>5 DEF LockExpires
<1>6. ASSUME NEW d \in Deployment, QueueDeployment(d)
      PROVE  [Abstract!LifecycleNext]_(Abstract!lifecycleVars)
  <2>1. Abstract!Queue(d)
    BY <1>6 DEF QueueDeployment, Abstract!Queue, Abstract!Move
  <2> QED
    BY <1>6, <2>1, RowIsStep
<1>7. ASSUME NEW d \in Deployment, RemoveDeployment(d)
      PROVE  [Abstract!LifecycleNext]_(Abstract!lifecycleVars)
  <2>1. Abstract!Remove(d)
    BY <1>7 DEF RemoveDeployment, Abstract!Remove, Abstract!Move
  <2> QED
    BY <1>7, <2>1, RowIsStep
<1>8. ASSUME NEW w \in Worker, ClaimForExecution(w)
      PROVE  [Abstract!LifecycleNext]_(Abstract!lifecycleVars)
  <2>1. PICK d \in Deployment : d = on[w]
    BY <1>8 DEF ClaimForExecution
  <2>2. CASE ClaimableRow(d)
    <3>1. /\ dstatus' = [dstatus EXCEPT ![d] = "running"]
          /\ token' = [token EXCEPT ![d] = w]
      BY <1>8, <2>1, <2>2 DEF ClaimForExecution
    <3>2. Abstract!Claim(d, w)
      BY <1>8, <2>2, <3>1 DEF ClaimableRow, Abstract!Claim, Abstract!Move
    <3> QED
      BY <1>8, <3>2, ClaimIsStep
  <2>3. CASE ~ClaimableRow(d)
    BY <1>8, <2>1, <2>3 DEF ClaimForExecution
  <2> QED
    BY <2>2, <2>3
<1>9. ASSUME NEW w \in Worker, PipelineSucceeds(w)
      PROVE  [Abstract!LifecycleNext]_(Abstract!lifecycleVars)
  <2>1. on[w] \in Deployment
    BY <1>9 DEF PipelineSucceeds
  <2>2. CASE OwnsRow(w, on[w]) /\ FlushFinal(w, "success")
    <3>1. Abstract!Finish(on[w])
      BY <2>1, <2>2 DEF OwnsRow, FlushFinal, Abstract!Finish, Abstract!Move
    <3> QED
      BY <2>1, <3>1, RowIsStep
  <2>3. CASE UNCHANGED <<dstatus, token>>
    BY <2>3
  <2> QED
    BY <1>9, <2>2, <2>3 DEF PipelineSucceeds
<1>10. ASSUME NEW w \in Worker, RecordFailure(w)
      PROVE  [Abstract!LifecycleNext]_(Abstract!lifecycleVars)
  <2>1. on[w] \in Deployment
    BY <1>10 DEF RecordFailure
  <2>2. CASE OwnsRow(w, on[w]) /\ FlushFinal(w, FailureStatus(w))
    <3>1. FailureStatus(w) \in {"cancelled", "retrying", "failed"}
      BY DEF FailureStatus
    <3>2. Abstract!Finish(on[w])
      BY <2>1, <2>2, <3>1 DEF OwnsRow, FlushFinal, Abstract!Finish, Abstract!Move
    <3> QED
      BY <2>1, <3>2, RowIsStep
  <2>3. CASE UNCHANGED <<dstatus, token>>
    BY <2>3
  <2> QED
    BY <1>10, <2>2, <2>3 DEF RecordFailure
<1>11. ASSUME MarkCancelledWrite
      PROVE  [Abstract!LifecycleNext]_(Abstract!lifecycleVars)
  <2>1. apiOn \in Deployment /\ dstatus[apiOn] # "none"
    BY <1>11 DEF MarkCancelledWrite, NothingBeforeTheRow
  <2>2. PICK S \in SUBSET Deployment :
          S = {d \in Deployment : d = apiOn /\ dstatus[d] # "removed"}
    OBVIOUS
  <2>3. dstatus' = [dstatus EXCEPT ![apiOn] =
                      IF @ = "removed" THEN @ ELSE "cancelled"]
    BY <1>11 DEF MarkCancelledWrite
  <2>4. dstatus' = [d \in Deployment |->
                      IF d \in S THEN "cancelled" ELSE dstatus[d]]
    BY <2>1, <2>2, <2>3
  <2>5. \A d \in S : dstatus[d] \notin {"none", "removed"}
    BY <2>1, <2>2
  <2>6. token' = token
    BY <1>11 DEF MarkCancelledWrite
  <2>7. Abstract!Cancel(S)
    BY <2>4, <2>5, <2>6 DEF Abstract!Cancel
  <2> QED
    BY <2>7, CancelIsStep
<1>12. ASSUME CleanWrite
      PROVE  [Abstract!LifecycleNext]_(Abstract!lifecycleVars)
  <2>1. \A d \in cleanSet : d \in Deployment /\ dstatus[d] # "none"
    BY DEF NothingBeforeTheRow
  <2>2. PICK S \in SUBSET Deployment :
          S = {d \in Deployment : d \in cleanSet /\ dstatus[d] # "removed"}
    OBVIOUS
  <2>3. /\ \A d \in S : dstatus[d] \notin {"none", "removed"}
        /\ dstatus' = [d \in Deployment |->
                         IF d \in S THEN "cancelled" ELSE dstatus[d]]
        /\ token' = token
    BY <1>12, <2>1, <2>2 DEF CleanWrite
  <2>4. Abstract!Cancel(S)
    BY <2>3 DEF Abstract!Cancel
  <2> QED
    BY <2>4, CancelIsStep
<1>13. ASSUME ReconcileMark
      PROVE  [Abstract!LifecycleNext]_(Abstract!lifecycleVars)
  <2>1. reconOn \in Deployment
    BY <1>13 DEF ReconcileMark
  <2>2. CASE StaleRow(reconOn)
    <3>1. /\ dstatus' = [dstatus EXCEPT ![reconOn] = "stale"]
          /\ token' = [token EXCEPT ![reconOn] = Nobody]
      BY <1>13, <2>2 DEF ReconcileMark
    <3>2. Abstract!Finish(reconOn)
      BY <2>1, <2>2, <3>1 DEF StaleRow, Abstract!Finish, Abstract!Move
    <3> QED
      BY <2>1, <3>2, RowIsStep
  <2>3. CASE ~StaleRow(reconOn)
    BY <1>13, <2>3 DEF ReconcileMark
  <2> QED
    BY <2>2, <2>3
<1>14. CASE UNCHANGED <<dstatus, token>>
  BY <1>14
<1> QED
  BY <1>1, <1>2, <1>3, <1>4, <1>5, <1>6, <1>7, <1>8, <1>9, <1>10,
     <1>11, <1>12, <1>13, <1>14
     DEF Next, WorkerStep, WorkerFault, ApiStep, ReconcileStep, vars

\* The worker, the API and the reconciler together implement Lifecycle: in
\* particular a terminal deployment is never executed again, although jobs are
\* delivered more than once and requests act on what they read before.
THEOREM DeploymentImplementsLifecycle == Spec => ImplementsLifecycle
<1>1. Init => Abstract!LifecycleInit
  BY DEF Init, Abstract!LifecycleInit
<1>2. DeploymentInv /\ [Next]_vars =>
        [Abstract!LifecycleNext]_(Abstract!lifecycleVars)
  BY StepRefines
<1> QED
  BY <1>1, <1>2, DeploymentInvariance, PTL
  DEF Spec, ImplementsLifecycle, Abstract!LifecycleSpec
=============================================================================
