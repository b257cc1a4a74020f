------------------------- MODULE Migration_proofs -------------------------
(***************************************************************************)
(* Proofs about Migration, for every set of workers and every bound on     *)
(* attempts, requests and faults.                                          *)
(***************************************************************************)
EXTENDS Migration, TLAPS

USE DEF rowVars, jobVars, workerVars, operatorVars, historyVars

\* The initial state has the types: no request, no job, one service.
LEMMA InitType == Init => TypeOK
<1> SUFFICES ASSUME Init PROVE TypeOK
  OBVIOUS
<1>1. QueueTypeOK
  BY DEF Init, QueueInit, QueueTypeOK
<1>2. /\ requests \in 0 .. MaxRequests
      /\ faults \in 0 .. MaxFaults
  BY MigrationAssumption DEF Init
<1>3. \A w \in Worker : pc[w] = "idle" <=> job[w] = None
  BY DEF Init
<1> QED
  BY <1>1, <1>2, <1>3
  DEF Init, TypeOK, Job, Server, Status, Control, Flags

\* Every step of workers, queue and operator keeps the types, and a slot has
\* a job exactly while it is busy.
LEMMA NextType == TypeOK /\ [Next]_vars => TypeOK'
<1> SUFFICES ASSUME TypeOK, [Next]_vars PROVE TypeOK'
  OBVIOUS
<1> USE MigrationAssumption
    DEF TypeOK, QueueTypeOK, Job, Server, Status, Active, CutOver, Terminal,
        Control, Flags
<1>1. ASSUME Migrate
      PROVE  TypeOK'
  BY <1>1 DEF Migrate, JobAdded
<1>2. ASSUME EnqueueResumable
      PROVE  TypeOK'
  BY <1>2 DEF EnqueueResumable, Fault, JobAdded
<1>3. ASSUME RequestCancel
      PROVE  TypeOK'
  BY <1>3 DEF RequestCancel, Request
<1>4. ASSUME WriteCancel
      PROVE  TypeOK'
  <2>1. /\ cancelling' = FALSE /\ cancelRequested' = TRUE
        /\ UNCHANGED <<status, token, shadow, server, services, deployment,
                       jobVars, workerVars, rollingBack, confirming,
                       requests, faults, historyVars>>
    BY <1>4 DEF WriteCancel
  <2>2. Flags' \subseteq BOOLEAN
    BY <2>1, Zenon
  <2> HIDE DEF Flags
  <2> QED
    BY <2>1, <2>2
<1>5. ASSUME RequestRollback
      PROVE  TypeOK'
  BY <1>5 DEF RequestRollback, Request
<1>6. ASSUME WriteRollback
      PROVE  TypeOK'
  <2>1. /\ rollingBack' = FALSE
        /\ status' = "rolling-back" /\ token' = None
        /\ JobAdded("rollback")
        /\ UNCHANGED <<cancelRequested, shadow, server, services, deployment,
                       workerVars, cancelling, confirming, requests, faults,
                       usurped, misreported, starved>>
    BY <1>6 DEF WriteRollback
  <2>2. raced' \in BOOLEAN /\ astray' \in BOOLEAN
    BY <1>6 DEF WriteRollback, RollbackBegins
  <2> QED
    BY <2>1, <2>2 DEF JobAdded
<1>7. ASSUME RequestConfirm
      PROVE  TypeOK'
  BY <1>7 DEF RequestConfirm, Request
<1>8. ASSUME CleanupSource
      PROVE  TypeOK'
  <2>1. /\ services' \subseteq Server /\ misreported' \subseteq Server
        /\ confirming' \in {"check", "idle"}
        /\ UNCHANGED <<rowVars, server, deployment, jobVars, workerVars,
                       cancelling, rollingBack, requests, faults, usurped,
                       raced, astray, starved>>
    BY <1>8 DEF CleanupSource, RemoveResource
  <2> QED
    BY <2>1
<1>9. ASSUME CheckConfirm
      PROVE  TypeOK'
  BY <1>9 DEF CheckConfirm
<1>10. ASSUME ConfirmFails
      PROVE  TypeOK'
  BY <1>10 DEF ConfirmFails, Fault
<1>11. ASSUME WriteConfirm
      PROVE  TypeOK'
  BY <1>11 DEF WriteConfirm
<1>12. ASSUME NEW w \in Worker, Claim(w)
      PROVE  TypeOK'
  BY <1>12 DEF Claim, TakeLease
<1>13. ASSUME NEW w \in Worker, ClaimInVain(w)
      PROVE  TypeOK'
  BY <1>13 DEF ClaimInVain, TakeLease, Fault, JobThrows, Leave, FinalAttempt
<1>14. ASSUME NEW w \in Worker, ClaimSettled(w)
      PROVE  TypeOK'
  BY <1>14 DEF ClaimSettled, JobReturns, Leave
<1>15. ASSUME NEW w \in Worker, ClaimRefused(w)
      PROVE  TypeOK'
  <2>1. /\ faults' \in 0 .. MaxFaults
        /\ JobThrows(w, job[w]) /\ Leave(w)
        /\ UNCHANGED <<rowVars, server, services, deployment, operatorVars,
                       usurped, raced, astray, misreported>>
    BY <1>15 DEF ClaimRefused, Fault
  <2>2. starved' \in BOOLEAN
    BY <1>15 DEF ClaimRefused
  <2> QED
    BY <2>1, <2>2 DEF JobThrows, FinalAttempt, Leave
<1>16. ASSUME NEW w \in Worker, Top(w)
      PROVE  TypeOK'
  BY <1>16 DEF Top, Catch
<1>17. ASSUME NEW w \in Worker, StepFails(w)
      PROVE  TypeOK'
  BY <1>17 DEF StepFails, Fault, CannotWrite, Throw, Catch, GoTo
<1>18. ASSUME NEW w \in Worker, Advance(w)
      PROVE  TypeOK'
  BY <1>18 DEF Advance, Transition
<1>19. ASSUME NEW w \in Worker, Preflight(w)
      PROVE  TypeOK'
  BY <1>19 DEF Preflight, Transition
<1>20. ASSUME NEW w \in Worker, PreflightFails(w)
      PROVE  TypeOK'
  BY <1>20 DEF PreflightFails, Fault, CannotWrite, Throw, Catch, GoTo
<1>21. ASSUME NEW w \in Worker, DeployShadow(w)
      PROVE  TypeOK'
  BY <1>21 DEF DeployShadow, GoTo
<1>22. ASSUME NEW w \in Worker, DeployShadowFails(w)
      PROVE  TypeOK'
  BY <1>22 DEF DeployShadowFails, Throw, Catch, GoTo
<1>23. ASSUME NEW w \in Worker, Checkpoint(w)
      PROVE  TypeOK'
  BY <1>23 DEF Checkpoint, GoTo
<1>24. ASSUME NEW w \in Worker, Deployed(w)
      PROVE  TypeOK'
  BY <1>24 DEF Deployed, Transition
<1>25. ASSUME NEW w \in Worker, ValidateShadow(w)
      PROVE  TypeOK'
  BY <1>25 DEF ValidateShadow, Transition
<1>26. ASSUME NEW w \in Worker, ValidateShadowFails(w)
      PROVE  TypeOK'
  BY <1>26 DEF ValidateShadowFails, Fault, CannotWrite, Throw, Catch, GoTo
<1>27. ASSUME NEW w \in Worker, Cutover(w)
      PROVE  TypeOK'
  BY <1>27 DEF Cutover
<1>28. ASSUME NEW w \in Worker, Commit(w)
      PROVE  TypeOK'
  BY <1>28 DEF Commit, Transition
<1>29. ASSUME NEW w \in Worker, CommitFails(w)
      PROVE  TypeOK'
  BY <1>29 DEF CommitFails, Fault, CannotWrite, Throw, Catch, GoTo
<1>30. ASSUME NEW w \in Worker, Publish(w)
      PROVE  TypeOK'
  BY <1>30 DEF Publish, JobReturns, Leave
<1>31. ASSUME NEW w \in Worker, Finished(w)
      PROVE  TypeOK'
  BY <1>31 DEF Finished, JobReturns, Leave
<1>32. ASSUME NEW w \in Worker, Rollback(w)
      PROVE  TypeOK'
  <2>1. services' \subseteq Server /\ misreported' \subseteq Server
    BY <1>32 DEF Rollback, CleanupShadow, RemoveResource
  <2>2. /\ pc[w] # "idle" /\ GoTo(w, "place")
        /\ UNCHANGED <<rowVars, server, deployment, jobVars, operatorVars,
                       faults, usurped, raced, starved>>
    BY <1>32 DEF Rollback
  <2>3. astray' \in BOOLEAN
    BY <1>32 DEF Rollback
  <2> QED
    BY <2>1, <2>2, <2>3 DEF GoTo
<1>33. ASSUME NEW w \in Worker, RollbackFails(w)
      PROVE  TypeOK'
  <2>1. services' \subseteq Server /\ misreported' \subseteq Server
    BY <1>33 DEF RollbackFails, CleanupShadowThrows, RemoveResource
  <2>2. /\ pc[w] # "idle" /\ Throw(w)
        /\ UNCHANGED <<rowVars, server, deployment, jobVars, operatorVars,
                       faults, usurped, raced, starved>>
    BY <1>33 DEF RollbackFails
  <2>3. astray' \in BOOLEAN
    BY <1>33 DEF RollbackFails
  <2> QED
    BY <2>1, <2>2, <2>3 DEF Throw, Catch, GoTo
<1>34. ASSUME NEW w \in Worker, Place(w)
      PROVE  TypeOK'
  BY <1>34 DEF Place, GoTo
<1>35. ASSUME NEW w \in Worker, PlaceFails(w)
      PROVE  TypeOK'
  BY <1>35 DEF PlaceFails, Fault, Throw, Catch, GoTo
<1>36. ASSUME NEW w \in Worker, Cancel(w)
      PROVE  TypeOK'
  <2>1. services' \subseteq Server /\ misreported' \subseteq Server
    BY <1>36 DEF Cancel, CleanupShadow, CleanupShadowThrows,
           RemoveResource
  <2>2. /\ pc[w] # "idle" /\ (GoTo(w, "cancelled") \/ Throw(w))
        /\ UNCHANGED <<rowVars, server, deployment, jobVars, operatorVars,
                       faults, usurped, raced, starved>>
    BY <1>36 DEF Cancel
  <2>3. astray' \in BOOLEAN
    BY <1>36 DEF Cancel
  <2> QED
    BY <2>1, <2>2, <2>3 DEF Throw, Catch, GoTo
<1>37. ASSUME NEW w \in Worker, Cancelled(w)
      PROVE  TypeOK'
  BY <1>37 DEF Cancelled, JobReturns, Leave
<1>38. ASSUME NEW w \in Worker, CancelledFails(w)
      PROVE  TypeOK'
  BY <1>38 DEF CancelledFails, Fault, CannotWrite, Throw, Catch, GoTo
<1>39. ASSUME NEW w \in Worker, RecordRollback(w)
      PROVE  TypeOK'
  BY <1>39 DEF RecordRollback, RollbackBegins, Transition
<1>40. ASSUME NEW w \in Worker, RecordFails(w)
      PROVE  TypeOK'
  BY <1>40 DEF RecordFails, Fault, CannotWrite, GoTo
<1>41. ASSUME NEW w \in Worker, Undo(w)
      PROVE  TypeOK'
  <2>1. services' \subseteq Server /\ misreported' \subseteq Server
    BY <1>41 DEF Undo, CleanupShadow, RemoveResource
  <2>2. /\ pc[w] # "idle" /\ GoTo(w, "replace")
        /\ UNCHANGED <<rowVars, server, deployment, jobVars, operatorVars,
                       faults, usurped, raced, starved>>
    BY <1>41 DEF Undo
  <2>3. astray' \in BOOLEAN
    BY <1>41 DEF Undo
  <2> QED
    BY <2>1, <2>2, <2>3 DEF GoTo
<1>42. ASSUME NEW w \in Worker, Replace(w)
      PROVE  TypeOK'
  <2>1. /\ faults' \in 0 .. MaxFaults
        /\ server' \in Server
        /\ GoTo(w, "fail") /\ pc[w] # "idle"
        /\ UNCHANGED <<rowVars, services, deployment, jobVars, operatorVars,
                       usurped, raced, misreported, starved>>
    BY <1>42 DEF Replace, Fault
  <2>2. astray' \in BOOLEAN
    BY <1>42 DEF Replace
  <2> QED
    BY <2>1, <2>2 DEF GoTo
<1>43. ASSUME NEW w \in Worker, UndoFails(w)
      PROVE  TypeOK'
  <2>1. services' \subseteq Server /\ misreported' \subseteq Server
    BY <1>43 DEF UndoFails, CleanupShadowThrows, RemoveResource
  <2>2. /\ pc[w] # "idle" /\ GoTo(w, "fail")
        /\ UNCHANGED <<rowVars, server, deployment, jobVars, operatorVars,
                       faults, usurped, raced, starved>>
    BY <1>43 DEF UndoFails
  <2>3. astray' \in BOOLEAN
    BY <1>43 DEF UndoFails
  <2> QED
    BY <2>1, <2>2, <2>3 DEF GoTo
<1>44. ASSUME NEW w \in Worker, Fail(w)
      PROVE  TypeOK'
  BY <1>44 DEF Fail, RowFails, JobReturns, Leave
<1>45. ASSUME NEW w \in Worker, FailFails(w)
      PROVE  TypeOK'
  BY <1>45 DEF FailFails, RowFails, Fault, JobThrows, FinalAttempt, Leave
<1>46. ASSUME NEW w \in Worker, Crash(w)
      PROVE  TypeOK'
  BY <1>46 DEF Crash, Reverting, Fault, JobDropped, Leave
<1>47. ASSUME NEW w \in Worker, NEW j \in Job, Take(w, j)
      PROVE  TypeOK'
  BY <1>47 DEF Take, JobTaken
<1>48. ASSUME NEW j \in Job, JobStalls(j)
      PROVE  TypeOK'
  BY <1>48 DEF JobStalls, JobFoundSilent, Fault
<1>49. CASE UNCHANGED vars
  BY <1>49 DEF vars
<1> QED
  BY <1>1, <1>2, <1>3, <1>4, <1>5, <1>6, <1>7, <1>8, <1>9, <1>10, <1>11,
     <1>12, <1>13, <1>14, <1>15, <1>16, <1>17, <1>18, <1>19, <1>20,
     <1>21, <1>22, <1>23, <1>24, <1>25, <1>26, <1>27, <1>28, <1>29,
     <1>30, <1>31, <1>32, <1>33, <1>34, <1>35, <1>36, <1>37, <1>38,
     <1>39, <1>40, <1>41, <1>42, <1>43, <1>44, <1>45, <1>46, <1>47,
     <1>48, <1>49
  DEF Next, OperatorStep, WorkerStep

\* The migration starts in the invariant: nothing is requested or executed.
LEMMA InitInv == Init => MigrationInv
  BY InitType
  DEF Init, MigrationInv, NoLeaseBeforeRow, SoleExecutor, HolderKnowsStatus,
      RollbackStillDue, Executing

\* A slot past its claim works on a job, so a row without a lease is nobody's.
LEMMA ExecutingHasJob ==
  ASSUME TypeOK, NEW w \in Worker, Executing(w)
  PROVE  job[w] \in Job /\ job[w] # None
  BY MigrationAssumption DEF TypeOK, Executing, Job

\* Every step keeps the lease's part of the invariant: a new claim of a lease
\* whose owner lives is recorded as usurped, and whoever writes the status
\* holds the lease, takes it away, or ends the migration.
LEMMA NextLease ==
  MigrationInv /\ [Next]_vars =>
    (NoLeaseBeforeRow /\ SoleExecutor /\ HolderKnowsStatus
       /\ RollbackStillDue)'
<1> DEFINE Lease == /\ NoLeaseBeforeRow /\ SoleExecutor
                    /\ HolderKnowsStatus /\ RollbackStillDue
<1> SUFFICES ASSUME MigrationInv, [Next]_vars PROVE Lease'
  OBVIOUS
<1> USE MigrationAssumption, ExecutingHasJob
    DEF MigrationInv, NoLeaseBeforeRow, SoleExecutor, HolderKnowsStatus,
        RollbackStillDue, TypeOK, Executing, Owned, Allowed, Claimable,
        Lapsed, Active, CutOver, Terminal, Job
<1>1. ASSUME Migrate
      PROVE  Lease'
  BY <1>1 DEF Migrate, JobAdded
<1>2. ASSUME EnqueueResumable
      PROVE  Lease'
  BY <1>2 DEF EnqueueResumable, Fault, JobAdded
<1>3. ASSUME RequestCancel
      PROVE  Lease'
  BY <1>3 DEF RequestCancel, Request
<1>4. ASSUME WriteCancel
      PROVE  Lease'
  BY <1>4 DEF WriteCancel
<1>5. ASSUME RequestRollback
      PROVE  Lease'
  BY <1>5 DEF RequestRollback, Request
<1>6. ASSUME WriteRollback
      PROVE  Lease'
  BY <1>6 DEF WriteRollback, RollbackBegins, JobAdded
<1>7. ASSUME RequestConfirm
      PROVE  Lease'
  BY <1>7 DEF RequestConfirm, Request
<1>8. ASSUME CleanupSource
      PROVE  Lease'
  BY <1>8 DEF CleanupSource, RemoveResource
<1>9. ASSUME CheckConfirm
      PROVE  Lease'
  BY <1>9 DEF CheckConfirm
<1>10. ASSUME ConfirmFails
      PROVE  Lease'
  BY <1>10 DEF ConfirmFails, Fault
<1>11. ASSUME WriteConfirm
      PROVE  Lease'
  BY <1>11 DEF WriteConfirm
<1>12. ASSUME NEW w \in Worker, Claim(w)
      PROVE  Lease'
  BY <1>12 DEF Claim, TakeLease
<1>13. ASSUME NEW w \in Worker, ClaimInVain(w)
      PROVE  Lease'
  BY <1>13 DEF ClaimInVain, TakeLease, Fault, JobThrows, Leave, FinalAttempt
<1>14. ASSUME NEW w \in Worker, ClaimSettled(w)
      PROVE  Lease'
  BY <1>14 DEF ClaimSettled, JobReturns, Leave
<1>15. ASSUME NEW w \in Worker, ClaimRefused(w)
      PROVE  Lease'
  BY <1>15 DEF ClaimRefused, Fault, JobThrows, FinalAttempt, Leave
<1>16. ASSUME NEW w \in Worker, Top(w)
      PROVE  Lease'
  BY <1>16 DEF Top, Catch
<1>17. ASSUME NEW w \in Worker, StepFails(w)
      PROVE  Lease'
  BY <1>17 DEF StepFails, Fault, CannotWrite, Throw, Catch, GoTo
<1>18. ASSUME NEW w \in Worker, Advance(w)
      PROVE  Lease'
  BY <1>18 DEF Advance, Transition
<1>19. ASSUME NEW w \in Worker, Preflight(w)
      PROVE  Lease'
  BY <1>19 DEF Preflight, Transition
<1>20. ASSUME NEW w \in Worker, PreflightFails(w)
      PROVE  Lease'
  BY <1>20 DEF PreflightFails, Fault, CannotWrite, Throw, Catch, GoTo
<1>21. ASSUME NEW w \in Worker, DeployShadow(w)
      PROVE  Lease'
  BY <1>21 DEF DeployShadow, GoTo
<1>22. ASSUME NEW w \in Worker, DeployShadowFails(w)
      PROVE  Lease'
  BY <1>22 DEF DeployShadowFails, Throw, Catch, GoTo
<1>23. ASSUME NEW w \in Worker, Checkpoint(w)
      PROVE  Lease'
  BY <1>23 DEF Checkpoint, GoTo
<1>24. ASSUME NEW w \in Worker, Deployed(w)
      PROVE  Lease'
  BY <1>24 DEF Deployed, Transition
<1>25. ASSUME NEW w \in Worker, ValidateShadow(w)
      PROVE  Lease'
  BY <1>25 DEF ValidateShadow, Transition
<1>26. ASSUME NEW w \in Worker, ValidateShadowFails(w)
      PROVE  Lease'
  BY <1>26 DEF ValidateShadowFails, Fault, CannotWrite, Throw, Catch, GoTo
<1>27. ASSUME NEW w \in Worker, Cutover(w)
      PROVE  Lease'
  BY <1>27 DEF Cutover
<1>28. ASSUME NEW w \in Worker, Commit(w)
      PROVE  Lease'
  BY <1>28 DEF Commit, Transition
<1>29. ASSUME NEW w \in Worker, CommitFails(w)
      PROVE  Lease'
  BY <1>29 DEF CommitFails, Fault, CannotWrite, Throw, Catch, GoTo
<1>30. ASSUME NEW w \in Worker, Publish(w)
      PROVE  Lease'
  BY <1>30 DEF Publish, JobReturns, Leave
<1>31. ASSUME NEW w \in Worker, Finished(w)
      PROVE  Lease'
  BY <1>31 DEF Finished, JobReturns, Leave
<1>32. ASSUME NEW w \in Worker, Rollback(w)
      PROVE  Lease'
  BY <1>32 DEF Rollback, CleanupShadow, RemoveResource, GoTo
<1>33. ASSUME NEW w \in Worker, RollbackFails(w)
      PROVE  Lease'
  BY <1>33 DEF RollbackFails, CleanupShadowThrows, RemoveResource,
      ShadowMissed, Throw, Catch, GoTo
<1>34. ASSUME NEW w \in Worker, Place(w)
      PROVE  Lease'
  BY <1>34 DEF Place, GoTo
<1>35. ASSUME NEW w \in Worker, PlaceFails(w)
      PROVE  Lease'
  BY <1>35 DEF PlaceFails, Fault, Throw, Catch, GoTo
<1>36. ASSUME NEW w \in Worker, Cancel(w)
      PROVE  Lease'
  BY <1>36 DEF Cancel, CleanupShadow, CleanupShadowThrows, RemoveResource,
      Throw, Catch, GoTo
<1>37. ASSUME NEW w \in Worker, Cancelled(w)
      PROVE  Lease'
  BY <1>37 DEF Cancelled, JobReturns, Leave
<1>38. ASSUME NEW w \in Worker, CancelledFails(w)
      PROVE  Lease'
  BY <1>38 DEF CancelledFails, Fault, CannotWrite, Throw, Catch, GoTo
<1>39. ASSUME NEW w \in Worker, RecordRollback(w)
      PROVE  Lease'
  BY <1>39 DEF RecordRollback, RollbackBegins, Transition
<1>40. ASSUME NEW w \in Worker, RecordFails(w)
      PROVE  Lease'
  BY <1>40 DEF RecordFails, Fault, CannotWrite, GoTo
<1>41. ASSUME NEW w \in Worker, Undo(w)
      PROVE  Lease'
  BY <1>41 DEF Undo, CleanupShadow, RemoveResource, GoTo
<1>42. ASSUME NEW w \in Worker, Replace(w)
      PROVE  Lease'
  BY <1>42 DEF Replace, Fault, GoTo
<1>43. ASSUME NEW w \in Worker, UndoFails(w)
      PROVE  Lease'
  BY <1>43 DEF UndoFails, CleanupShadowThrows, RemoveResource, ShadowMissed,
      GoTo
<1>44. ASSUME NEW w \in Worker, Fail(w)
      PROVE  Lease'
  BY <1>44 DEF Fail, RowFails, JobReturns, Leave
<1>45. ASSUME NEW w \in Worker, FailFails(w)
      PROVE  Lease'
  BY <1>45 DEF FailFails, RowFails, Fault, JobThrows, FinalAttempt, Leave
<1>46. ASSUME NEW w \in Worker, Crash(w)
      PROVE  Lease'
  BY <1>46 DEF Crash, Reverting, Fault, JobDropped, Leave
<1>47. ASSUME NEW w \in Worker, NEW j \in Job, Take(w, j)
      PROVE  Lease'
  BY <1>47 DEF Take, JobTaken
<1>48. ASSUME NEW j \in Job, JobStalls(j)
      PROVE  Lease'
  BY <1>48 DEF JobStalls, JobFoundSilent, Fault
<1>49. CASE UNCHANGED vars
  BY <1>49 DEF vars
<1> QED
  BY <1>1, <1>2, <1>3, <1>4, <1>5, <1>6, <1>7, <1>8, <1>9, <1>10, <1>11,
     <1>12, <1>13, <1>14, <1>15, <1>16, <1>17, <1>18, <1>19, <1>20,
     <1>21, <1>22, <1>23, <1>24, <1>25, <1>26, <1>27, <1>28, <1>29,
     <1>30, <1>31, <1>32, <1>33, <1>34, <1>35, <1>36, <1>37, <1>38,
     <1>39, <1>40, <1>41, <1>42, <1>43, <1>44, <1>45, <1>46, <1>47,
     <1>48, <1>49
  DEF Next, OperatorStep, WorkerStep

\* MigrationInv holds in every reachable state: types, leases and what their
\* holders have read.
LEMMA Invariance == Spec => []MigrationInv
<1>1. MigrationInv /\ [Next]_vars => MigrationInv'
  BY NextType, NextLease DEF MigrationInv
<1> QED
  BY InitInv, <1>1, PTL DEF Spec

\* The variables of the migration, its jobs, workers and requests keep their
\* types, and a slot has a job exactly while it is busy.
THEOREM TypeCorrect == Spec => []TypeOK
<1>1. MigrationInv => TypeOK
  BY DEF MigrationInv
<1> QED
  BY Invariance, <1>1, PTL

\* A step that changes the status follows ALLOWED_TRANSITIONS, as the writer
\* of the status has read it and nobody else has changed it since.
LEMMA StepFollowsTable ==
  ASSUME MigrationInv, [Next]_vars
  PROVE  \/ status' = status
         \/ status = "absent"
         \/ Allowed(status, status')
         \/ status \notin Terminal /\ status' = "failed"
         \/ usurped' \/ raced'
<1> DEFINE Follows == \/ status' = status
                      \/ status = "absent"
                      \/ Allowed(status, status')
                      \/ status \notin Terminal /\ status' = "failed"
                      \/ usurped' \/ raced'
<1> USE MigrationAssumption
    DEF MigrationInv, HolderKnowsStatus, RollbackStillDue, Executing, Owned,
        Allowed, CutOver, Terminal
<1>1. ASSUME Migrate
      PROVE  Follows
  BY <1>1 DEF Migrate, JobAdded
<1>2. ASSUME EnqueueResumable
      PROVE  Follows
  BY <1>2 DEF EnqueueResumable, Fault, JobAdded
<1>3. ASSUME RequestCancel
      PROVE  Follows
  BY <1>3 DEF RequestCancel, Request
<1>4. ASSUME WriteCancel
      PROVE  Follows
  BY <1>4 DEF WriteCancel
<1>5. ASSUME RequestRollback
      PROVE  Follows
  BY <1>5 DEF RequestRollback, Request
<1>6. ASSUME WriteRollback
      PROVE  Follows
  BY <1>6 DEF WriteRollback, RollbackBegins, JobAdded
<1>7. ASSUME RequestConfirm
      PROVE  Follows
  BY <1>7 DEF RequestConfirm, Request
<1>8. ASSUME CleanupSource
      PROVE  Follows
  BY <1>8 DEF CleanupSource, RemoveResource
<1>9. ASSUME CheckConfirm
      PROVE  Follows
  BY <1>9 DEF CheckConfirm
<1>10. ASSUME ConfirmFails
      PROVE  Follows
  BY <1>10 DEF ConfirmFails, Fault
<1>11. ASSUME WriteConfirm
      PROVE  Follows
  BY <1>11 DEF WriteConfirm
<1>12. ASSUME NEW w \in Worker, Claim(w)
      PROVE  Follows
  BY <1>12 DEF Claim, TakeLease
<1>13. ASSUME NEW w \in Worker, ClaimInVain(w)
      PROVE  Follows
  BY <1>13 DEF ClaimInVain, TakeLease, Fault, JobThrows, Leave, FinalAttempt
<1>14. ASSUME NEW w \in Worker, ClaimSettled(w)
      PROVE  Follows
  BY <1>14 DEF ClaimSettled, JobReturns, Leave
<1>15. ASSUME NEW w \in Worker, ClaimRefused(w)
      PROVE  Follows
  BY <1>15 DEF ClaimRefused, Fault, JobThrows, FinalAttempt, Leave
<1>16. ASSUME NEW w \in Worker, Top(w)
      PROVE  Follows
  BY <1>16 DEF Top, Catch
<1>17. ASSUME NEW w \in Worker, StepFails(w)
      PROVE  Follows
  BY <1>17 DEF StepFails, Fault, CannotWrite, Throw, Catch, GoTo
<1>18. ASSUME NEW w \in Worker, Advance(w)
      PROVE  Follows
  BY <1>18 DEF Advance, Transition
<1>19. ASSUME NEW w \in Worker, Preflight(w)
      PROVE  Follows
  BY <1>19 DEF Preflight, Transition
<1>20. ASSUME NEW w \in Worker, PreflightFails(w)
      PROVE  Follows
  BY <1>20 DEF PreflightFails, Fault, CannotWrite, Throw, Catch, GoTo
<1>21. ASSUME NEW w \in Worker, DeployShadow(w)
      PROVE  Follows
  BY <1>21 DEF DeployShadow, GoTo
<1>22. ASSUME NEW w \in Worker, DeployShadowFails(w)
      PROVE  Follows
  BY <1>22 DEF DeployShadowFails, Throw, Catch, GoTo
<1>23. ASSUME NEW w \in Worker, Checkpoint(w)
      PROVE  Follows
  BY <1>23 DEF Checkpoint, GoTo
<1>24. ASSUME NEW w \in Worker, Deployed(w)
      PROVE  Follows
  BY <1>24 DEF Deployed, Transition
<1>25. ASSUME NEW w \in Worker, ValidateShadow(w)
      PROVE  Follows
  BY <1>25 DEF ValidateShadow, Transition
<1>26. ASSUME NEW w \in Worker, ValidateShadowFails(w)
      PROVE  Follows
  BY <1>26 DEF ValidateShadowFails, Fault, CannotWrite, Throw, Catch, GoTo
<1>27. ASSUME NEW w \in Worker, Cutover(w)
      PROVE  Follows
  BY <1>27 DEF Cutover
<1>28. ASSUME NEW w \in Worker, Commit(w)
      PROVE  Follows
  BY <1>28 DEF Commit, Transition
<1>29. ASSUME NEW w \in Worker, CommitFails(w)
      PROVE  Follows
  BY <1>29 DEF CommitFails, Fault, CannotWrite, Throw, Catch, GoTo
<1>30. ASSUME NEW w \in Worker, Publish(w)
      PROVE  Follows
  BY <1>30 DEF Publish, JobReturns, Leave
<1>31. ASSUME NEW w \in Worker, Finished(w)
      PROVE  Follows
  BY <1>31 DEF Finished, JobReturns, Leave
<1>32. ASSUME NEW w \in Worker, Rollback(w)
      PROVE  Follows
  BY <1>32 DEF Rollback, CleanupShadow, RemoveResource, GoTo
<1>33. ASSUME NEW w \in Worker, RollbackFails(w)
      PROVE  Follows
  BY <1>33 DEF RollbackFails, CleanupShadowThrows, RemoveResource,
      ShadowMissed, Throw, Catch, GoTo
<1>34. ASSUME NEW w \in Worker, Place(w)
      PROVE  Follows
  BY <1>34 DEF Place, GoTo
<1>35. ASSUME NEW w \in Worker, PlaceFails(w)
      PROVE  Follows
  BY <1>35 DEF PlaceFails, Fault, Throw, Catch, GoTo
<1>36. ASSUME NEW w \in Worker, Cancel(w)
      PROVE  Follows
  BY <1>36 DEF Cancel, CleanupShadow, CleanupShadowThrows, RemoveResource,
      Throw, Catch, GoTo
<1>37. ASSUME NEW w \in Worker, Cancelled(w)
      PROVE  Follows
  BY <1>37 DEF Cancelled, JobReturns, Leave
<1>38. ASSUME NEW w \in Worker, CancelledFails(w)
      PROVE  Follows
  BY <1>38 DEF CancelledFails, Fault, CannotWrite, Throw, Catch, GoTo
<1>39. ASSUME NEW w \in Worker, RecordRollback(w)
      PROVE  Follows
  BY <1>39 DEF RecordRollback, RollbackBegins, Transition
<1>40. ASSUME NEW w \in Worker, RecordFails(w)
      PROVE  Follows
  BY <1>40 DEF RecordFails, Fault, CannotWrite, GoTo
<1>41. ASSUME NEW w \in Worker, Undo(w)
      PROVE  Follows
  BY <1>41 DEF Undo, CleanupShadow, RemoveResource, GoTo
<1>42. ASSUME NEW w \in Worker, Replace(w)
      PROVE  Follows
  BY <1>42 DEF Replace, Fault, GoTo
<1>43. ASSUME NEW w \in Worker, UndoFails(w)
      PROVE  Follows
  BY <1>43 DEF UndoFails, CleanupShadowThrows, RemoveResource, ShadowMissed,
      GoTo
<1>44. ASSUME NEW w \in Worker, Fail(w)
      PROVE  Follows
  BY <1>44 DEF Fail, RowFails, JobReturns, Leave
<1>45. ASSUME NEW w \in Worker, FailFails(w)
      PROVE  Follows
  BY <1>45 DEF FailFails, RowFails, Fault, JobThrows, FinalAttempt, Leave
<1>46. ASSUME NEW w \in Worker, Crash(w)
      PROVE  Follows
  BY <1>46 DEF Crash, Reverting, Fault, JobDropped, Leave
<1>47. ASSUME NEW w \in Worker, NEW j \in Job, Take(w, j)
      PROVE  Follows
  BY <1>47 DEF Take, JobTaken
<1>48. ASSUME NEW j \in Job, JobStalls(j)
      PROVE  Follows
  BY <1>48 DEF JobStalls, JobFoundSilent, Fault
<1>49. CASE UNCHANGED vars
  BY <1>49 DEF vars
<1> QED
  BY <1>1, <1>2, <1>3, <1>4, <1>5, <1>6, <1>7, <1>8, <1>9, <1>10, <1>11,
     <1>12, <1>13, <1>14, <1>15, <1>16, <1>17, <1>18, <1>19, <1>20,
     <1>21, <1>22, <1>23, <1>24, <1>25, <1>26, <1>27, <1>28, <1>29,
     <1>30, <1>31, <1>32, <1>33, <1>34, <1>35, <1>36, <1>37, <1>38,
     <1>39, <1>40, <1>41, <1>42, <1>43, <1>44, <1>45, <1>46, <1>47,
     <1>48, <1>49
  DEF Next, OperatorStep, WorkerStep

\* Every change of the status is an allowed transition from the status the row
\* has, although workers check it against the status they read earlier.
THEOREM StatusFollowsTableHolds == Spec => StatusFollowsTable
<1>1. MigrationInv /\ [Next]_vars =>
        [\/ status' = status
         \/ status = "absent"
         \/ Allowed(status, status')
         \/ status \notin Terminal /\ status' = "failed"
         \/ usurped' \/ raced']_vars
  BY StepFollowsTable
<1> QED
  BY Invariance, <1>1, PTL DEF Spec, StatusFollowsTable

\* A finished migration stays finished: the WHERE clause of every write a
\* worker makes, and the record of every operator's write that comes too late.
THEOREM TerminalIsFinalHolds == Spec => TerminalIsFinal
<1>1. [Next]_vars =>
        [(status \in Terminal) => (status' = status \/ raced')]_vars
  <2> SUFFICES ASSUME Next, status \in Terminal, status' # status
               PROVE  raced'
    OBVIOUS
  <2> USE DEF Terminal, Transition, Owned, RowFails
  <2>1. ASSUME NEW w \in Worker, WorkerStep(w)
        PROVE  FALSE
    BY <2>1
    DEF WorkerStep, Claim, TakeLease, ClaimInVain, ClaimSettled, ClaimRefused,
        Top, StepFails, Advance, Preflight, PreflightFails, DeployShadow,
        DeployShadowFails, Checkpoint, Deployed, ValidateShadow,
        ValidateShadowFails, Cutover, Commit, CommitFails, Publish, Finished,
        Rollback, RollbackFails, Place, PlaceFails, Cancel, Cancelled,
        CancelledFails, RecordRollback, RecordFails, Undo, Replace, UndoFails,
        Fail, FailFails
  <2>2. ASSUME OperatorStep
        PROVE  raced'
    BY <2>2
    DEF OperatorStep, RequestCancel, WriteCancel, RequestRollback,
        WriteRollback, RollbackBegins, RequestConfirm, CleanupSource,
        CheckConfirm, ConfirmFails, WriteConfirm
  <2>3. Migrate \/ EnqueueResumable => FALSE
    BY DEF Migrate, EnqueueResumable
  <2>4. ASSUME NEW w \in Worker, Crash(w)
        PROVE  FALSE
    BY <2>4 DEF Crash
  <2>5. ASSUME NEW w \in Worker, NEW j \in Job, Take(w, j)
        PROVE  FALSE
    BY <2>5 DEF Take
  <2>6. ASSUME NEW j \in Job, JobStalls(j)
        PROVE  FALSE
    BY <2>6 DEF JobStalls
  <2> QED
    BY <2>1, <2>2, <2>3, <2>4, <2>5, <2>6 DEF Next
<1> QED
  BY <1>1, PTL DEF Spec, TerminalIsFinal
=============================================================================
