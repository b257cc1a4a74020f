-------------------------- MODULE Placement_proofs --------------------------
(***************************************************************************)
(* Proofs about where a migrated application runs: on the server its       *)
(* resource is placed on, and, once a migration without faults has settled,*)
(* where the status of the row says.                                       *)
(***************************************************************************)
EXTENDS Migration_proofs

USE DEF rowVars, jobVars, workerVars, operatorVars, historyVars

-----------------------------------------------------------------------------
(* The application is served where it is placed.                           *)

\* Before the request the application runs on the source alone.
LEMMA InitPlacement == Init => PlacementInv
  BY DEF Init, PlacementInv, Exempt, LostLeaseIsLate, HolderKnowsCutover,
         CancelsBeforeCutover, PlacesInRollback, PlacedByStatus,
         UndoneInRollback, SourceGivenUpForTarget, RollbackEndsServed,
         ServedWherePlaced, Executing

\* Every step keeps what workers know of the cutover: the status changes under
\* the holder of the lease, or the lease is lost to a rollback or to the end
\* of the migration, or the lease was taken from a living worker.
LEMMA NextKnowledge ==
  ASSUME MigrationInv, PlacementInv, [Next]_vars
  PROVE  (LostLeaseIsLate /\ HolderKnowsCutover /\ CancelsBeforeCutover
            /\ PlacesInRollback)'
<1> DEFINE Known == /\ LostLeaseIsLate /\ HolderKnowsCutover
                    /\ CancelsBeforeCutover /\ PlacesInRollback
<1> USE MigrationAssumption
    DEF MigrationInv, NoLeaseBeforeRow, SoleExecutor, HolderKnowsStatus,
        TypeOK, PlacementInv, LostLeaseIsLate, HolderKnowsCutover,
        CancelsBeforeCutover, PlacesInRollback, Executing, Owned, Allowed,
        Claimable, Lapsed, Active, CutOver, Terminal, Status, Job
<1>1. ASSUME Migrate
      PROVE  Known'
  BY <1>1 DEF Migrate, JobAdded
<1>2. ASSUME EnqueueResumable
      PROVE  Known'
  BY <1>2 DEF EnqueueResumable, Fault, JobAdded
<1>3. ASSUME RequestCancel
      PROVE  Known'
  BY <1>3 DEF RequestCancel, Request
<1>4. ASSUME WriteCancel
      PROVE  Known'
  BY <1>4 DEF WriteCancel
<1>5. ASSUME RequestRollback
      PROVE  Known'
  BY <1>5 DEF RequestRollback, Request
<1>6. ASSUME WriteRollback
      PROVE  Known'
  BY <1>6 DEF WriteRollback, RollbackBegins, JobAdded
<1>7. ASSUME RequestConfirm
      PROVE  Known'
  BY <1>7 DEF RequestConfirm, Request
<1>8. ASSUME CleanupSource
      PROVE  Known'
  BY <1>8 DEF CleanupSource, RemoveResource
<1>9. ASSUME CheckConfirm
      PROVE  Known'
  BY <1>9 DEF CheckConfirm
<1>10. ASSUME ConfirmFails
      PROVE  Known'
  BY <1>10 DEF ConfirmFails, Fault
<1>11. ASSUME WriteConfirm
      PROVE  Known'
  BY <1>11 DEF WriteConfirm
<1>12. ASSUME NEW w \in Worker, Claim(w)
      PROVE  Known'
  BY <1>12 DEF Claim, TakeLease
<1>13. ASSUME NEW w \in Worker, ClaimInVain(w)
      PROVE  Known'
  BY <1>13 DEF ClaimInVain, TakeLease, Fault, JobThrows, Leave, FinalAttempt
<1>14. ASSUME NEW w \in Worker, ClaimSettled(w)
      PROVE  Known'
  BY <1>14 DEF ClaimSettled, JobReturns, Leave
<1>15. ASSUME NEW w \in Worker, ClaimRefused(w)
      PROVE  Known'
  BY <1>15 DEF ClaimRefused, Fault, JobThrows, FinalAttempt, Leave
<1>16. ASSUME NEW w \in Worker, Top(w)
      PROVE  Known'
  BY <1>16 DEF Top, Catch
<1>17. ASSUME NEW w \in Worker, StepFails(w)
      PROVE  Known'
  BY <1>17 DEF StepFails, Fault, CannotWrite, Throw, Catch, GoTo
<1>18. ASSUME NEW w \in Worker, Advance(w)
      PROVE  Known'
  BY <1>18 DEF Advance, Transition
<1>19. ASSUME NEW w \in Worker, Preflight(w)
      PROVE  Known'
  BY <1>19 DEF Preflight, Transition
<1>20. ASSUME NEW w \in Worker, PreflightFails(w)
      PROVE  Known'
  BY <1>20 DEF PreflightFails, Fault, CannotWrite, Throw, Catch, GoTo
<1>21. ASSUME NEW w \in Worker, DeployShadow(w)
      PROVE  Known'
  BY <1>21 DEF DeployShadow, GoTo
<1>22. ASSUME NEW w \in Worker, DeployShadowFails(w)
      PROVE  Known'
  BY <1>22 DEF DeployShadowFails, Throw, Catch, GoTo
<1>23. ASSUME NEW w \in Worker, Checkpoint(w)
      PROVE  Known'
  BY <1>23 DEF Checkpoint, GoTo
<1>24. ASSUME NEW w \in Worker, Deployed(w)
      PROVE  Known'
  BY <1>24 DEF Deployed, Transition
<1>25. ASSUME NEW w \in Worker, ValidateShadow(w)
      PROVE  Known'
  BY <1>25 DEF ValidateShadow, Transition
<1>26. ASSUME NEW w \in Worker, ValidateShadowFails(w)
      PROVE  Known'
  BY <1>26 DEF ValidateShadowFails, Fault, CannotWrite, Throw, Catch, GoTo
<1>27. ASSUME NEW w \in Worker, Cutover(w)
      PROVE  Known'
  BY <1>27 DEF Cutover
<1>28. ASSUME NEW w \in Worker, Commit(w)
      PROVE  Known'
  BY <1>28 DEF Commit, Transition
<1>29. ASSUME NEW w \in Worker, CommitFails(w)
      PROVE  Known'
  BY <1>29 DEF CommitFails, Fault, CannotWrite, Throw, Catch, GoTo
<1>30. ASSUME NEW w \in Worker, Publish(w)
      PROVE  Known'
  BY <1>30 DEF Publish, JobReturns, Leave
<1>31. ASSUME NEW w \in Worker, Finished(w)
      PROVE  Known'
  BY <1>31 DEF Finished, JobReturns, Leave
<1>32. ASSUME NEW w \in Worker, Rollback(w)
      PROVE  Known'
  BY <1>32 DEF Rollback, CleanupShadow, RemoveResource, GoTo
<1>33. ASSUME NEW w \in Worker, RollbackFails(w)
      PROVE  Known'
  BY <1>33 DEF RollbackFails, CleanupShadowThrows, RemoveResource,
      ShadowMissed, Throw, Catch, GoTo
<1>34. ASSUME NEW w \in Worker, Place(w)
      PROVE  Known'
  BY <1>34 DEF Place, GoTo
<1>35. ASSUME NEW w \in Worker, PlaceFails(w)
      PROVE  Known'
  BY <1>35 DEF PlaceFails, Fault, Throw, Catch, GoTo
<1>36. ASSUME NEW w \in Worker, Cancel(w)
      PROVE  Known'
  BY <1>36 DEF Cancel, CleanupShadow, CleanupShadowThrows, RemoveResource,
      Throw, Catch, GoTo
<1>37. ASSUME NEW w \in Worker, Cancelled(w)
      PROVE  Known'
  BY <1>37 DEF Cancelled, JobReturns, Leave
<1>38. ASSUME NEW w \in Worker, CancelledFails(w)
      PROVE  Known'
  BY <1>38 DEF CancelledFails, Fault, CannotWrite, Throw, Catch, GoTo
<1>39. ASSUME NEW w \in Worker, RecordRollback(w)
      PROVE  Known'
  BY <1>39 DEF RecordRollback, RollbackBegins, Transition
<1>40. ASSUME NEW w \in Worker, RecordFails(w)
      PROVE  Known'
  BY <1>40 DEF RecordFails, Fault, CannotWrite, GoTo
<1>41. ASSUME NEW w \in Worker, Undo(w)
      PROVE  Known'
  BY <1>41 DEF Undo, CleanupShadow, RemoveResource, GoTo
<1>42. ASSUME NEW w \in Worker, Replace(w)
      PROVE  Known'
  BY <1>42 DEF Replace, Fault, GoTo
<1>43. ASSUME NEW w \in Worker, UndoFails(w)
      PROVE  Known'
  BY <1>43 DEF UndoFails, CleanupShadowThrows, RemoveResource, ShadowMissed,
      GoTo
<1>44. ASSUME NEW w \in Worker, Fail(w)
      PROVE  Known'
  BY <1>44 DEF Fail, RowFails, JobReturns, Leave
<1>45. ASSUME NEW w \in Worker, FailFails(w)
      PROVE  Known'
  BY <1>45 DEF FailFails, RowFails, Fault, JobThrows, FinalAttempt, Leave
<1>46. ASSUME NEW w \in Worker, Crash(w)
      PROVE  Known'
  BY <1>46 DEF Crash, Reverting, Fault, JobDropped, Leave
<1>47. ASSUME NEW w \in Worker, NEW j \in Job, Take(w, j)
      PROVE  Known'
  BY <1>47 DEF Take, JobTaken
<1>48. ASSUME NEW j \in Job, JobStalls(j)
      PROVE  Known'
  BY <1>48 DEF JobStalls, JobFoundSilent, Fault
<1>49. CASE UNCHANGED vars
  BY <1>49 DEF vars
<1> QED
  BY <1>1, <1>2, <1>3, <1>4, <1>5, <1>6, <1>7, <1>8, <1>9, <1>10, <1>11,
     <1>12, <1>13, <1>14, <1>15, <1>16, <1>17, <1>18, <1>19, <1>20,
     <1>21, <1>22, <1>23, <1>24, <1>25, <1>26, <1>27, <1>28, <1>29,
     <1>30, <1>31, <1>32, <1>33, <1>34, <1>35, <1>36, <1>37, <1>38,
     <1>39, <1>40, <1>41, <1>42, <1>43, <1>44, <1>45, <1>46, <1>47,
     <1>48, <1>49
  DEF Next, OperatorStep, WorkerStep

\* Every step keeps the placement in line with the status: it is written with
\* the commit of the cutover and by a rollback, and a rollback of anything
\* else is recorded as astray.
LEMMA NextPlaced ==
  ASSUME MigrationInv, PlacementInv, [Next]_vars
  PROVE  (PlacedByStatus /\ UndoneInRollback)'
<1> DEFINE Placed == PlacedByStatus /\ UndoneInRollback
<1> USE MigrationAssumption
    DEF MigrationInv, HolderKnowsStatus, RollbackStillDue, TypeOK,
        PlacementInv, LostLeaseIsLate, HolderKnowsCutover,
        CancelsBeforeCutover, PlacedByStatus, UndoneInRollback, Exempt,
        Executing, Owned, Allowed, Claimable, Lapsed, Active, CutOver,
        Terminal, Status, Server, Job
<1>1. ASSUME Migrate
      PROVE  Placed'
  BY <1>1 DEF Migrate, JobAdded
<1>2. ASSUME EnqueueResumable
      PROVE  Placed'
  BY <1>2 DEF EnqueueResumable, Fault, JobAdded
<1>3. ASSUME RequestCancel
      PROVE  Placed'
  BY <1>3 DEF RequestCancel, Request
<1>4. ASSUME WriteCancel
      PROVE  Placed'
  BY <1>4 DEF WriteCancel
<1>5. ASSUME RequestRollback
      PROVE  Placed'
  BY <1>5 DEF RequestRollback, Request
<1>6. ASSUME WriteRollback
      PROVE  Placed'
  BY <1>6 DEF WriteRollback, RollbackBegins, JobAdded
<1>7. ASSUME RequestConfirm
      PROVE  Placed'
  BY <1>7 DEF RequestConfirm, Request
<1>8. ASSUME CleanupSource
      PROVE  Placed'
  BY <1>8 DEF CleanupSource, RemoveResource
<1>9. ASSUME CheckConfirm
      PROVE  Placed'
  BY <1>9 DEF CheckConfirm
<1>10. ASSUME ConfirmFails
      PROVE  Placed'
  BY <1>10 DEF ConfirmFails, Fault
<1>11. ASSUME WriteConfirm
      PROVE  Placed'
  BY <1>11 DEF WriteConfirm
<1>12. ASSUME NEW w \in Worker, Claim(w)
      PROVE  Placed'
  BY <1>12 DEF Claim, TakeLease
<1>13. ASSUME NEW w \in Worker, ClaimInVain(w)
      PROVE  Placed'
  BY <1>13 DEF ClaimInVain, TakeLease, Fault, JobThrows, Leave, FinalAttempt
<1>14. ASSUME NEW w \in Worker, ClaimSettled(w)
      PROVE  Placed'
  BY <1>14 DEF ClaimSettled, JobReturns, Leave
<1>15. ASSUME NEW w \in Worker, ClaimRefused(w)
      PROVE  Placed'
  BY <1>15 DEF ClaimRefused, Fault, JobThrows, FinalAttempt, Leave
<1>16. ASSUME NEW w \in Worker, Top(w)
      PROVE  Placed'
  BY <1>16 DEF Top, Catch
<1>17. ASSUME NEW w \in Worker, StepFails(w)
      PROVE  Placed'
  BY <1>17 DEF StepFails, Fault, CannotWrite, Throw, Catch, GoTo
<1>18. ASSUME NEW w \in Worker, Advance(w)
      PROVE  Placed'
  BY <1>18 DEF Advance, Transition
<1>19. ASSUME NEW w \in Worker, Preflight(w)
      PROVE  Placed'
  BY <1>19 DEF Preflight, Transition
<1>20. ASSUME NEW w \in Worker, PreflightFails(w)
      PROVE  Placed'
  BY <1>20 DEF PreflightFails, Fault, CannotWrite, Throw, Catch, GoTo
<1>21. ASSUME NEW w \in Worker, DeployShadow(w)
      PROVE  Placed'
  BY <1>21 DEF DeployShadow, GoTo
<1>22. ASSUME NEW w \in Worker, DeployShadowFails(w)
      PROVE  Placed'
  BY <1>22 DEF DeployShadowFails, Throw, Catch, GoTo
<1>23. ASSUME NEW w \in Worker, Checkpoint(w)
      PROVE  Placed'
  BY <1>23 DEF Checkpoint, GoTo
<1>24. ASSUME NEW w \in Worker, Deployed(w)
      PROVE  Placed'
  BY <1>24 DEF Deployed, Transition
<1>25. ASSUME NEW w \in Worker, ValidateShadow(w)
      PROVE  Placed'
  BY <1>25 DEF ValidateShadow, Transition
<1>26. ASSUME NEW w \in Worker, ValidateShadowFails(w)
      PROVE  Placed'
  BY <1>26 DEF ValidateShadowFails, Fault, CannotWrite, Throw, Catch, GoTo
<1>27. ASSUME NEW w \in Worker, Cutover(w)
      PROVE  Placed'
  BY <1>27 DEF Cutover
<1>28. ASSUME NEW w \in Worker, Commit(w)
      PROVE  Placed'
  BY <1>28 DEF Commit, Transition
<1>29. ASSUME NEW w \in Worker, CommitFails(w)
      PROVE  Placed'
  BY <1>29 DEF CommitFails, Fault, CannotWrite, Throw, Catch, GoTo
<1>30. ASSUME NEW w \in Worker, Publish(w)
      PROVE  Placed'
  BY <1>30 DEF Publish, JobReturns, Leave
<1>31. ASSUME NEW w \in Worker, Finished(w)
      PROVE  Placed'
  BY <1>31 DEF Finished, JobReturns, Leave
<1>32. ASSUME NEW w \in Worker, Rollback(w)
      PROVE  Placed'
  BY <1>32 DEF Rollback, CleanupShadow, RemoveResource, GoTo
<1>33. ASSUME NEW w \in Worker, RollbackFails(w)
      PROVE  Placed'
  BY <1>33 DEF RollbackFails, CleanupShadowThrows, RemoveResource,
      ShadowMissed, Throw, Catch, GoTo
<1>34. ASSUME NEW w \in Worker, Place(w)
      PROVE  Placed'
  BY <1>34 DEF Place, GoTo
<1>35. ASSUME NEW w \in Worker, PlaceFails(w)
      PROVE  Placed'
  BY <1>35 DEF PlaceFails, Fault, Throw, Catch, GoTo
<1>36. ASSUME NEW w \in Worker, Cancel(w)
      PROVE  Placed'
  BY <1>36 DEF Cancel, CleanupShadow, CleanupShadowThrows, RemoveResource,
      Throw, Catch, GoTo
<1>37. ASSUME NEW w \in Worker, Cancelled(w)
      PROVE  Placed'
  BY <1>37 DEF Cancelled, JobReturns, Leave
<1>38. ASSUME NEW w \in Worker, CancelledFails(w)
      PROVE  Placed'
  BY <1>38 DEF CancelledFails, Fault, CannotWrite, Throw, Catch, GoTo
<1>39. ASSUME NEW w \in Worker, RecordRollback(w)
      PROVE  Placed'
  BY <1>39 DEF RecordRollback, RollbackBegins, Transition
<1>40. ASSUME NEW w \in Worker, RecordFails(w)
      PROVE  Placed'
  BY <1>40 DEF RecordFails, Fault, CannotWrite, GoTo
<1>41. ASSUME NEW w \in Worker, Undo(w)
      PROVE  Placed'
  BY <1>41 DEF Undo, CleanupShadow, RemoveResource, GoTo
<1>42. ASSUME NEW w \in Worker, Replace(w)
      PROVE  Placed'
  BY <1>42 DEF Replace, Fault, GoTo
<1>43. ASSUME NEW w \in Worker, UndoFails(w)
      PROVE  Placed'
  BY <1>43 DEF UndoFails, CleanupShadowThrows, RemoveResource, ShadowMissed,
      GoTo
<1>44. ASSUME NEW w \in Worker, Fail(w)
      PROVE  Placed'
  BY <1>44 DEF Fail, RowFails, JobReturns, Leave
<1>45. ASSUME NEW w \in Worker, FailFails(w)
      PROVE  Placed'
  BY <1>45 DEF FailFails, RowFails, Fault, JobThrows, FinalAttempt, Leave
<1>46. ASSUME NEW w \in Worker, Crash(w)
      PROVE  Placed'
  BY <1>46 DEF Crash, Reverting, Fault, JobDropped, Leave
<1>47. ASSUME NEW w \in Worker, NEW j \in Job, Take(w, j)
      PROVE  Placed'
  BY <1>47 DEF Take, JobTaken
<1>48. ASSUME NEW j \in Job, JobStalls(j)
      PROVE  Placed'
  BY <1>48 DEF JobStalls, JobFoundSilent, Fault
<1>49. CASE UNCHANGED vars
  BY <1>49 DEF vars
<1> QED
  BY <1>1, <1>2, <1>3, <1>4, <1>5, <1>6, <1>7, <1>8, <1>9, <1>10, <1>11,
     <1>12, <1>13, <1>14, <1>15, <1>16, <1>17, <1>18, <1>19, <1>20,
     <1>21, <1>22, <1>23, <1>24, <1>25, <1>26, <1>27, <1>28, <1>29,
     <1>30, <1>31, <1>32, <1>33, <1>34, <1>35, <1>36, <1>37, <1>38,
     <1>39, <1>40, <1>41, <1>42, <1>43, <1>44, <1>45, <1>46, <1>47,
     <1>48, <1>49
  DEF Next, OperatorStep, WorkerStep

\* Every step keeps a service where the resource is placed: the shadow is
\* removed only on the way to the placement on the source, also by a removal
\* that throws, and the source's service only by the confirmation of a
\* placement on the target.
LEMMA NextServed ==
  ASSUME MigrationInv, PlacementInv, [Next]_vars
  PROVE  (SourceGivenUpForTarget /\ RollbackEndsServed /\ ServedWherePlaced)'
<1> DEFINE Served == /\ SourceGivenUpForTarget /\ RollbackEndsServed
                     /\ ServedWherePlaced
<1> USE MigrationAssumption
    DEF MigrationInv, SoleExecutor, HolderKnowsStatus, TypeOK, PlacementInv,
        LostLeaseIsLate, HolderKnowsCutover, CancelsBeforeCutover,
        PlacesInRollback, PlacedByStatus, UndoneInRollback,
        SourceGivenUpForTarget,
        RollbackEndsServed, ServedWherePlaced, Exempt, Executing, Owned,
        Reverting, Allowed, Claimable, Lapsed, Active, CutOver, Terminal,
        Status, Server, Job
<1>1. ASSUME Migrate
      PROVE  Served'
  BY <1>1 DEF Migrate, JobAdded
<1>2. ASSUME EnqueueResumable
      PROVE  Served'
  BY <1>2 DEF EnqueueResumable, Fault, JobAdded
<1>3. ASSUME RequestCancel
      PROVE  Served'
  BY <1>3 DEF RequestCancel, Request
<1>4. ASSUME WriteCancel
      PROVE  Served'
  BY <1>4 DEF WriteCancel
<1>5. ASSUME RequestRollback
      PROVE  Served'
  BY <1>5 DEF RequestRollback, Request
<1>6. ASSUME WriteRollback
      PROVE  Served'
  BY <1>6 DEF WriteRollback, RollbackBegins, JobAdded
<1>7. ASSUME RequestConfirm
      PROVE  Served'
  BY <1>7 DEF RequestConfirm, Request
<1>8. ASSUME CleanupSource
      PROVE  Served'
  BY <1>8 DEF CleanupSource, RemoveResource
<1>9. ASSUME CheckConfirm
      PROVE  Served'
  BY <1>9 DEF CheckConfirm
<1>10. ASSUME ConfirmFails
      PROVE  Served'
  BY <1>10 DEF ConfirmFails, Fault
<1>11. ASSUME WriteConfirm
      PROVE  Served'
  BY <1>11 DEF WriteConfirm
<1>12. ASSUME NEW w \in Worker, Claim(w)
      PROVE  Served'
  BY <1>12 DEF Claim, TakeLease
<1>13. ASSUME NEW w \in Worker, ClaimInVain(w)
      PROVE  Served'
  BY <1>13 DEF ClaimInVain, TakeLease, Fault, JobThrows, Leave, FinalAttempt
<1>14. ASSUME NEW w \in Worker, ClaimSettled(w)
      PROVE  Served'
  BY <1>14 DEF ClaimSettled, JobReturns, Leave
<1>15. ASSUME NEW w \in Worker, ClaimRefused(w)
      PROVE  Served'
  BY <1>15 DEF ClaimRefused, Fault, JobThrows, FinalAttempt, Leave
<1>16. ASSUME NEW w \in Worker, Top(w)
      PROVE  Served'
  BY <1>16 DEF Top, Catch
<1>17. ASSUME NEW w \in Worker, StepFails(w)
      PROVE  Served'
  BY <1>17 DEF StepFails, Fault, CannotWrite, Throw, Catch, GoTo
<1>18. ASSUME NEW w \in Worker, Advance(w)
      PROVE  Served'
  BY <1>18 DEF Advance, Transition
<1>19. ASSUME NEW w \in Worker, Preflight(w)
      PROVE  Served'
  BY <1>19 DEF Preflight, Transition
<1>20. ASSUME NEW w \in Worker, PreflightFails(w)
      PROVE  Served'
  BY <1>20 DEF PreflightFails, Fault, CannotWrite, Throw, Catch, GoTo
<1>21. ASSUME NEW w \in Worker, DeployShadow(w)
      PROVE  Served'
  BY <1>21 DEF DeployShadow, GoTo
<1>22. ASSUME NEW w \in Worker, DeployShadowFails(w)
      PROVE  Served'
  BY <1>22 DEF DeployShadowFails, Throw, Catch, GoTo
<1>23. ASSUME NEW w \in Worker, Checkpoint(w)
      PROVE  Served'
  BY <1>23 DEF Checkpoint, GoTo
<1>24. ASSUME NEW w \in Worker, Deployed(w)
      PROVE  Served'
  BY <1>24 DEF Deployed, Transition
<1>25. ASSUME NEW w \in Worker, ValidateShadow(w)
      PROVE  Served'
  BY <1>25 DEF ValidateShadow, Transition
<1>26. ASSUME NEW w \in Worker, ValidateShadowFails(w)
      PROVE  Served'
  BY <1>26 DEF ValidateShadowFails, Fault, CannotWrite, Throw, Catch, GoTo
<1>27. ASSUME NEW w \in Worker, Cutover(w)
      PROVE  Served'
  BY <1>27 DEF Cutover
<1>28. ASSUME NEW w \in Worker, Commit(w)
      PROVE  Served'
  BY <1>28 DEF Commit, Transition
<1>29. ASSUME NEW w \in Worker, CommitFails(w)
      PROVE  Served'
  BY <1>29 DEF CommitFails, Fault, CannotWrite, Throw, Catch, GoTo
<1>30. ASSUME NEW w \in Worker, Publish(w)
      PROVE  Served'
  BY <1>30 DEF Publish, JobReturns, Leave
<1>31. ASSUME NEW w \in Worker, Finished(w)
      PROVE  Served'
  BY <1>31 DEF Finished, JobReturns, Leave
<1>32. ASSUME NEW w \in Worker, Rollback(w)
      PROVE  Served'
  BY <1>32 DEF Rollback, CleanupShadow, RemoveResource, GoTo
<1>33. ASSUME NEW w \in Worker, RollbackFails(w)
      PROVE  Served'
  BY <1>33 DEF RollbackFails, CleanupShadowThrows, RemoveResource,
      ShadowMissed, Throw, Catch, GoTo
<1>34. ASSUME NEW w \in Worker, Place(w)
      PROVE  Served'
  BY <1>34 DEF Place, GoTo
<1>35. ASSUME NEW w \in Worker, PlaceFails(w)
      PROVE  Served'
  BY <1>35 DEF PlaceFails, Fault, Throw, Catch, GoTo
<1>36. ASSUME NEW w \in Worker, Cancel(w)
      PROVE  Served'
  BY <1>36 DEF Cancel, CleanupShadow, CleanupShadowThrows, RemoveResource,
      Throw, Catch, GoTo
<1>37. ASSUME NEW w \in Worker, Cancelled(w)
      PROVE  Served'
  BY <1>37 DEF Cancelled, JobReturns, Leave
<1>38. ASSUME NEW w \in Worker, CancelledFails(w)
      PROVE  Served'
  BY <1>38 DEF CancelledFails, Fault, CannotWrite, Throw, Catch, GoTo
<1>39. ASSUME NEW w \in Worker, RecordRollback(w)
      PROVE  Served'
  BY <1>39 DEF RecordRollback, RollbackBegins, Transition
<1>40. ASSUME NEW w \in Worker, RecordFails(w)
      PROVE  Served'
  BY <1>40 DEF RecordFails, Fault, CannotWrite, GoTo
<1>41. ASSUME NEW w \in Worker, Undo(w)
      PROVE  Served'
  BY <1>41 DEF Undo, CleanupShadow, RemoveResource, GoTo
<1>42. ASSUME NEW w \in Worker, Replace(w)
      PROVE  Served'
  BY <1>42 DEF Replace, Fault, GoTo
<1>43. ASSUME NEW w \in Worker, UndoFails(w)
      PROVE  Served'
  BY <1>43 DEF UndoFails, CleanupShadowThrows, RemoveResource, ShadowMissed,
      GoTo
<1>44. ASSUME NEW w \in Worker, Fail(w)
      PROVE  Served'
  BY <1>44 DEF Fail, RowFails, JobReturns, Leave
<1>45. ASSUME NEW w \in Worker, FailFails(w)
      PROVE  Served'
  BY <1>45 DEF FailFails, RowFails, Fault, JobThrows, FinalAttempt, Leave
<1>46. ASSUME NEW w \in Worker, Crash(w)
      PROVE  Served'
  <2>1. /\ pc' = [pc EXCEPT ![w] = "idle"]
        /\ job' = [job EXCEPT ![w] = None]
        /\ astray' = (astray \/ (/\ pc[w] \in Reverting
                                 /\ server \notin services
                                 /\ ~Owned(w)))
        /\ UNCHANGED <<status, token, server, services, confirming, usurped,
                       raced>>
    BY <1>46 DEF Crash, Leave
  <2>2. SourceGivenUpForTarget'
    BY <2>1
  <2>3. Exempt \/ server \in services
          \/ status \in {"rolling-back", "failed"}
    OBVIOUS
  <2>4. RollbackEndsServed'
    <3>1. CASE Exempt' \/ server \in services
      BY <2>1, <3>1
    <3>2. CASE ~Exempt' /\ server \notin services
      BY <2>1, <3>2
    <3> QED
      BY <3>1, <3>2
  <2>5. ServedWherePlaced'
    BY <2>1, <2>3
  <2> QED
    BY <2>2, <2>4, <2>5
<1>47. ASSUME NEW w \in Worker, NEW j \in Job, Take(w, j)
      PROVE  Served'
  BY <1>47 DEF Take, JobTaken
<1>48. ASSUME NEW j \in Job, JobStalls(j)
      PROVE  Served'
  BY <1>48 DEF JobStalls, JobFoundSilent, Fault
<1>49. CASE UNCHANGED vars
  BY <1>49 DEF vars
<1> QED
  BY <1>1, <1>2, <1>3, <1>4, <1>5, <1>6, <1>7, <1>8, <1>9, <1>10, <1>11,
     <1>12, <1>13, <1>14, <1>15, <1>16, <1>17, <1>18, <1>19, <1>20,
     <1>21, <1>22, <1>23, <1>24, <1>25, <1>26, <1>27, <1>28, <1>29,
     <1>30, <1>31, <1>32, <1>33, <1>34, <1>35, <1>36, <1>37, <1>38,
     <1>39, <1>40, <1>41, <1>42, <1>43, <1>44, <1>45, <1>46, <1>47,
     <1>48, <1>49
  DEF Next, OperatorStep, WorkerStep

\* PlacementInv is an invariant beside MigrationInv.
LEMMA PlacementInvariance == Spec => [](MigrationInv /\ PlacementInv)
<1>1. PlacementInv /\ MigrationInv /\ [Next]_vars => PlacementInv'
  BY NextKnowledge, NextPlaced, NextServed DEF PlacementInv
<1> QED
  BY Invariance, InitPlacement, <1>1, PTL DEF Spec

\* The application runs on the server its resource is placed on, for any
\* number of workers, requests and faults, but for the exceptions that
\* ServedWherePlaced names.
THEOREM ServedWherePlacedHolds == Spec => []ServedWherePlaced
<1>1. PlacementInv => ServedWherePlaced
  BY DEF PlacementInv
<1> QED
  BY PlacementInvariance, <1>1, PTL

-----------------------------------------------------------------------------
(* A settled migration is what its status says.                            *)

\* Before the request there is no job and nothing to be settled.
LEMMA InitCourse == Init => JobsAreKept /\ CourseInv
<1> SUFFICES ASSUME Init PROVE JobsAreKept /\ CourseInv
  OBVIOUS
<1>1. JobsAreKept
  BY DEF Init, QueueInit, JobsAreKept, Job
<1>2. CourseInv
  BY DEF Init, QueueInit, CourseInv, Forward, Executing, Job
<1> QED
  BY <1>1, <1>2

\* Without a fault every step keeps slots and jobs paired: a slot gives a job
\* up with its lock, and only a fault makes the stalled check take one away.
LEMMA NextJobs ==
  ASSUME MigrationInv, JobsAreKept, [Next]_vars
  PROVE  JobsAreKept'
<1> USE MigrationAssumption
    DEF MigrationInv, TypeOK, QueueTypeOK, JobsAreKept, Job, Active
<1>1. ASSUME Migrate
      PROVE  JobsAreKept'
  BY <1>1 DEF Migrate, JobAdded
<1>2. ASSUME EnqueueResumable
      PROVE  JobsAreKept'
  BY <1>2 DEF EnqueueResumable, Fault, JobAdded
<1>3. ASSUME RequestCancel
      PROVE  JobsAreKept'
  BY <1>3 DEF RequestCancel, Request
<1>4. ASSUME WriteCancel
      PROVE  JobsAreKept'
  BY <1>4 DEF WriteCancel
<1>5. ASSUME RequestRollback
      PROVE  JobsAreKept'
  BY <1>5 DEF RequestRollback, Request
<1>6. ASSUME WriteRollback
      PROVE  JobsAreKept'
  BY <1>6 DEF WriteRollback, RollbackBegins, JobAdded
<1>7. ASSUME RequestConfirm
      PROVE  JobsAreKept'
  BY <1>7 DEF RequestConfirm, Request
<1>8. ASSUME CleanupSource
      PROVE  JobsAreKept'
  BY <1>8 DEF CleanupSource, RemoveResource
<1>9. ASSUME CheckConfirm
      PROVE  JobsAreKept'
  BY <1>9 DEF CheckConfirm
<1>10. ASSUME ConfirmFails
      PROVE  JobsAreKept'
  BY <1>10 DEF ConfirmFails, Fault
<1>11. ASSUME WriteConfirm
      PROVE  JobsAreKept'
  BY <1>11 DEF WriteConfirm
<1>12. ASSUME NEW w \in Worker, Claim(w)
      PROVE  JobsAreKept'
  BY <1>12 DEF Claim, TakeLease
<1>13. ASSUME NEW w \in Worker, ClaimInVain(w)
      PROVE  JobsAreKept'
  BY <1>13 DEF ClaimInVain, TakeLease, Fault, JobThrows, Leave, FinalAttempt
<1>14. ASSUME NEW w \in Worker, ClaimSettled(w)
      PROVE  JobsAreKept'
  BY <1>14 DEF ClaimSettled, JobReturns, Leave
<1>15. ASSUME NEW w \in Worker, ClaimRefused(w)
      PROVE  JobsAreKept'
  BY <1>15 DEF ClaimRefused, Fault, JobThrows, FinalAttempt, Leave
<1>16. ASSUME NEW w \in Worker, Top(w)
      PROVE  JobsAreKept'
  BY <1>16 DEF Top, Catch
<1>17. ASSUME NEW w \in Worker, StepFails(w)
      PROVE  JobsAreKept'
  BY <1>17 DEF StepFails, Fault, CannotWrite, Throw, Catch, GoTo
<1>18. ASSUME NEW w \in Worker, Advance(w)
      PROVE  JobsAreKept'
  BY <1>18 DEF Advance, Transition
<1>19. ASSUME NEW w \in Worker, Preflight(w)
      PROVE  JobsAreKept'
  BY <1>19 DEF Preflight, Transition
<1>20. ASSUME NEW w \in Worker, PreflightFails(w)
      PROVE  JobsAreKept'
  BY <1>20 DEF PreflightFails, Fault, CannotWrite, Throw, Catch, GoTo
<1>21. ASSUME NEW w \in Worker, DeployShadow(w)
      PROVE  JobsAreKept'
  BY <1>21 DEF DeployShadow, GoTo
<1>22. ASSUME NEW w \in Worker, DeployShadowFails(w)
      PROVE  JobsAreKept'
  BY <1>22 DEF DeployShadowFails, Throw, Catch, GoTo
<1>23. ASSUME NEW w \in Worker, Checkpoint(w)
      PROVE  JobsAreKept'
  BY <1>23 DEF Checkpoint, GoTo
<1>24. ASSUME NEW w \in Worker, Deployed(w)
      PROVE  JobsAreKept'
  BY <1>24 DEF Deployed, Transition
<1>25. ASSUME NEW w \in Worker, ValidateShadow(w)
      PROVE  JobsAreKept'
  BY <1>25 DEF ValidateShadow, Transition
<1>26. ASSUME NEW w \in Worker, ValidateShadowFails(w)
      PROVE  JobsAreKept'
  BY <1>26 DEF ValidateShadowFails, Fault, CannotWrite, Throw, Catch, GoTo
<1>27. ASSUME NEW w \in Worker, Cutover(w)
      PROVE  JobsAreKept'
  BY <1>27 DEF Cutover
<1>28. ASSUME NEW w \in Worker, Commit(w)
      PROVE  JobsAreKept'
  BY <1>28 DEF Commit, Transition
<1>29. ASSUME NEW w \in Worker, CommitFails(w)
      PROVE  JobsAreKept'
  BY <1>29 DEF CommitFails, Fault, CannotWrite, Throw, Catch, GoTo
<1>30. ASSUME NEW w \in Worker, Publish(w)
      PROVE  JobsAreKept'
  BY <1>30 DEF Publish, JobReturns, Leave
<1>31. ASSUME NEW w \in Worker, Finished(w)
      PROVE  JobsAreKept'
  BY <1>31 DEF Finished, JobReturns, Leave
<1>32. ASSUME NEW w \in Worker, Rollback(w)
      PROVE  JobsAreKept'
  BY <1>32 DEF Rollback, CleanupShadow, RemoveResource, GoTo
<1>33. ASSUME NEW w \in Worker, RollbackFails(w)
      PROVE  JobsAreKept'
  BY <1>33 DEF RollbackFails, CleanupShadowThrows, RemoveResource,
      ShadowMissed, Throw, Catch, GoTo
<1>34. ASSUME NEW w \in Worker, Place(w)
      PROVE  JobsAreKept'
  BY <1>34 DEF Place, GoTo
<1>35. ASSUME NEW w \in Worker, PlaceFails(w)
      PROVE  JobsAreKept'
  BY <1>35 DEF PlaceFails, Fault, Throw, Catch, GoTo
<1>36. ASSUME NEW w \in Worker, Cancel(w)
      PROVE  JobsAreKept'
  BY <1>36 DEF Cancel, CleanupShadow, CleanupShadowThrows, RemoveResource,
      Throw, Catch, GoTo
<1>37. ASSUME NEW w \in Worker, Cancelled(w)
      PROVE  JobsAreKept'
  BY <1>37 DEF Cancelled, JobReturns, Leave
<1>38. ASSUME NEW w \in Worker, CancelledFails(w)
      PROVE  JobsAreKept'
  BY <1>38 DEF CancelledFails, Fault, CannotWrite, Throw, Catch, GoTo
<1>39. ASSUME NEW w \in Worker, RecordRollback(w)
      PROVE  JobsAreKept'
  BY <1>39 DEF RecordRollback, RollbackBegins, Transition
<1>40. ASSUME NEW w \in Worker, RecordFails(w)
      PROVE  JobsAreKept'
  BY <1>40 DEF RecordFails, Fault, CannotWrite, GoTo
<1>41. ASSUME NEW w \in Worker, Undo(w)
      PROVE  JobsAreKept'
  BY <1>41 DEF Undo, CleanupShadow, RemoveResource, GoTo
<1>42. ASSUME NEW w \in Worker, Replace(w)
      PROVE  JobsAreKept'
  BY <1>42 DEF Replace, Fault, GoTo
<1>43. ASSUME NEW w \in Worker, UndoFails(w)
      PROVE  JobsAreKept'
  BY <1>43 DEF UndoFails, CleanupShadowThrows, RemoveResource, ShadowMissed,
      GoTo
<1>44. ASSUME NEW w \in Worker, Fail(w)
      PROVE  JobsAreKept'
  BY <1>44 DEF Fail, RowFails, JobReturns, Leave
<1>45. ASSUME NEW w \in Worker, FailFails(w)
      PROVE  JobsAreKept'
  BY <1>45 DEF FailFails, RowFails, Fault, JobThrows, FinalAttempt, Leave
<1>46. ASSUME NEW w \in Worker, Crash(w)
      PROVE  JobsAreKept'
  BY <1>46 DEF Crash, Reverting, Fault, JobDropped, Leave
<1>47. ASSUME NEW w \in Worker, NEW j \in Job, Take(w, j)
      PROVE  JobsAreKept'
  BY <1>47 DEF Take, JobTaken
<1>48. ASSUME NEW j \in Job, JobStalls(j)
      PROVE  JobsAreKept'
  BY <1>48 DEF JobStalls, JobFoundSilent, Fault
<1>49. CASE UNCHANGED vars
  BY <1>49 DEF vars
<1> QED
  BY <1>1, <1>2, <1>3, <1>4, <1>5, <1>6, <1>7, <1>8, <1>9, <1>10, <1>11,
     <1>12, <1>13, <1>14, <1>15, <1>16, <1>17, <1>18, <1>19, <1>20,
     <1>21, <1>22, <1>23, <1>24, <1>25, <1>26, <1>27, <1>28, <1>29,
     <1>30, <1>31, <1>32, <1>33, <1>34, <1>35, <1>36, <1>37, <1>38,
     <1>39, <1>40, <1>41, <1>42, <1>43, <1>44, <1>45, <1>46, <1>47,
     <1>48, <1>49
  DEF Next, OperatorStep, WorkerStep

\* Without faults, races and rollbacks every step keeps the migration on its
\* course: the job of the request is in one slot, whose worker holds the lease
\* until the row is settled, so nobody else touches servers or row but the
\* operator's confirmation.
LEMMA NextCourse ==
  ASSUME MigrationInv, PlacementInv, JobsAreKept, CourseInv, [Next]_vars
  PROVE  CourseInv'
<1> USE MigrationAssumption
    DEF MigrationInv, NoLeaseBeforeRow, SoleExecutor, HolderKnowsStatus,
        TypeOK, QueueTypeOK, PlacementInv, LostLeaseIsLate,
        HolderKnowsCutover, CancelsBeforeCutover, PlacedByStatus, Exempt,
        JobsAreKept, CourseInv, Forward, OnCourse, ShadowAsReported,
        BeforeShadow, Executing,
        Owned, Allowed, Claimable, Lapsed, Active, CutOver, Terminal, Status,
        Server, Job
<1>1. ASSUME Migrate
      PROVE  CourseInv'
  BY <1>1 DEF Migrate, JobAdded
<1>2. ASSUME EnqueueResumable
      PROVE  CourseInv'
  BY <1>2 DEF EnqueueResumable, Fault, JobAdded
<1>3. ASSUME RequestCancel
      PROVE  CourseInv'
  BY <1>3 DEF RequestCancel, Request
<1>4. ASSUME WriteCancel
      PROVE  CourseInv'
  BY <1>4 DEF WriteCancel
<1>5. ASSUME RequestRollback
      PROVE  CourseInv'
  BY <1>5 DEF RequestRollback, Request
<1>6. ASSUME WriteRollback
      PROVE  CourseInv'
  BY <1>6 DEF WriteRollback, RollbackBegins, JobAdded
<1>7. ASSUME RequestConfirm
      PROVE  CourseInv'
  BY <1>7 DEF RequestConfirm, Request
<1>8. ASSUME CleanupSource
      PROVE  CourseInv'
  BY <1>8 DEF CleanupSource, RemoveResource
<1>9. ASSUME CheckConfirm
      PROVE  CourseInv'
  BY <1>9 DEF CheckConfirm
<1>10. ASSUME ConfirmFails
      PROVE  CourseInv'
  BY <1>10 DEF ConfirmFails, Fault
<1>11. ASSUME WriteConfirm
      PROVE  CourseInv'
  BY <1>11 DEF WriteConfirm
<1>12. ASSUME NEW w \in Worker, Claim(w)
      PROVE  CourseInv'
  <2> SUFFICES ASSUME Forward' PROVE CourseInv'
    BY DEF CourseInv
  <2>1. /\ pc[w] = "claim" /\ pc' = [pc EXCEPT ![w] = "top"]
        /\ started' = [started EXCEPT ![w] = status \in CutOver]
        /\ UNCHANGED <<status, services, deployment, jobVars, job, confirming,
                       faults, raced, astray>>
    BY <1>12 DEF Claim, TakeLease
  <2>2. Forward
    BY <1>12 DEF Claim, TakeLease
  <2>3. status = "queued" /\ services = {"source"}
    BY <2>1, <2>2
  <2>4. ASSUME NEW v \in Worker, Executing(v)' PROVE v = w
    <3>1. pc[v] # "idle" /\ pc[w] # "idle"
      BY <2>1, <2>4
    <3>2. job[v] = "migrate" /\ job[w] = "migrate"
      BY <2>2, <3>1
    <3> QED
      BY <2>2, <3>1, <3>2
  <2>5. OnCourse(w)' /\ ~started'[w]
    <3>1. OnCourse(w)'
      BY <2>1, <2>3
    <3>2. w \in DOMAIN started
      OBVIOUS
    <3>3. started'[w] = (status \in CutOver)
      <4> HIDE DEF MigrationInv, PlacementInv, JobsAreKept, CourseInv,
                   CutOver, Forward
      <4> QED
        BY <2>1, <3>2, Zenon
    <3>4. status \notin CutOver
      BY <2>3
    <3> QED
      BY <3>1, <3>3, <3>4, Zenon
  <2>6. (\E v \in Worker : pc'[v] = "publish") <=>
          \E v \in Worker : pc[v] = "publish"
    BY <2>1
  <2>7. (\E v \in Worker : pc'[v] = "claim") =>
          \E v \in Worker : pc[v] = "claim"
    BY <2>1
  <2> HIDE DEF OnCourse, Executing
  <2> QED
    BY <2>1, <2>2, <2>3, <2>4, <2>5, <2>6, <2>7
<1>13. ASSUME NEW w \in Worker, ClaimInVain(w)
      PROVE  CourseInv'
  BY <1>13 DEF ClaimInVain, TakeLease, Fault, JobThrows, Leave, FinalAttempt
<1>14. ASSUME NEW w \in Worker, ClaimSettled(w)
      PROVE  CourseInv'
  BY <1>14 DEF ClaimSettled, JobReturns, Leave
<1>15. ASSUME NEW w \in Worker, ClaimRefused(w)
      PROVE  CourseInv'
  BY <1>15 DEF ClaimRefused, Fault, JobThrows, FinalAttempt, Leave
<1>16. ASSUME NEW w \in Worker, Top(w)
      PROVE  CourseInv'
  BY <1>16 DEF Top, Catch
<1>17. ASSUME NEW w \in Worker, StepFails(w)
      PROVE  CourseInv'
  BY <1>17 DEF StepFails, Fault, CannotWrite, Throw, Catch, GoTo
<1>18. ASSUME NEW w \in Worker, Advance(w)
      PROVE  CourseInv'
  BY <1>18 DEF Advance, Transition
<1>19. ASSUME NEW w \in Worker, Preflight(w)
      PROVE  CourseInv'
  BY <1>19 DEF Preflight, Transition
<1>20. ASSUME NEW w \in Worker, PreflightFails(w)
      PROVE  CourseInv'
  BY <1>20 DEF PreflightFails, Fault, CannotWrite, Throw, Catch, GoTo
<1>21. ASSUME NEW w \in Worker, DeployShadow(w)
      PROVE  CourseInv'
  BY <1>21 DEF DeployShadow, GoTo
<1>22. ASSUME NEW w \in Worker, DeployShadowFails(w)
      PROVE  CourseInv'
  BY <1>22 DEF DeployShadowFails, Throw, Catch, GoTo
<1>23. ASSUME NEW w \in Worker, Checkpoint(w)
      PROVE  CourseInv'
  BY <1>23 DEF Checkpoint, GoTo
<1>24. ASSUME NEW w \in Worker, Deployed(w)
      PROVE  CourseInv'
  BY <1>24 DEF Deployed, Transition
<1>25. ASSUME NEW w \in Worker, ValidateShadow(w)
      PROVE  CourseInv'
  BY <1>25 DEF ValidateShadow, Transition
<1>26. ASSUME NEW w \in Worker, ValidateShadowFails(w)
      PROVE  CourseInv'
  BY <1>26 DEF ValidateShadowFails, Fault, CannotWrite, Throw, Catch, GoTo
<1>27. ASSUME NEW w \in Worker, Cutover(w)
      PROVE  CourseInv'
  BY <1>27 DEF Cutover
<1>28. ASSUME NEW w \in Worker, Commit(w)
      PROVE  CourseInv'
  BY <1>28 DEF Commit, Transition
<1>29. ASSUME NEW w \in Worker, CommitFails(w)
      PROVE  CourseInv'
  BY <1>29 DEF CommitFails, Fault, CannotWrite, Throw, Catch, GoTo
<1>30. ASSUME NEW w \in Worker, Publish(w)
      PROVE  CourseInv'
  BY <1>30 DEF Publish, JobReturns, Leave
<1>31. ASSUME NEW w \in Worker, Finished(w)
      PROVE  CourseInv'
  BY <1>31 DEF Finished, JobReturns, Leave
<1>32. ASSUME NEW w \in Worker, Rollback(w)
      PROVE  CourseInv'
  BY <1>32 DEF Rollback, CleanupShadow, RemoveResource, GoTo
<1>33. ASSUME NEW w \in Worker, RollbackFails(w)
      PROVE  CourseInv'
  BY <1>33 DEF RollbackFails, CleanupShadowThrows, RemoveResource,
      ShadowMissed, Throw, Catch, GoTo
<1>34. ASSUME NEW w \in Worker, Place(w)
      PROVE  CourseInv'
  BY <1>34 DEF Place, GoTo
<1>35. ASSUME NEW w \in Worker, PlaceFails(w)
      PROVE  CourseInv'
  BY <1>35 DEF PlaceFails, Fault, Throw, Catch, GoTo
<1>36. ASSUME NEW w \in Worker, Cancel(w)
      PROVE  CourseInv'
  BY <1>36 DEF Cancel, CleanupShadow, CleanupShadowThrows, RemoveResource,
      Throw, Catch, GoTo
<1>37. ASSUME NEW w \in Worker, Cancelled(w)
      PROVE  CourseInv'
  BY <1>37 DEF Cancelled, JobReturns, Leave
<1>38. ASSUME NEW w \in Worker, CancelledFails(w)
      PROVE  CourseInv'
  BY <1>38 DEF CancelledFails, Fault, CannotWrite, Throw, Catch, GoTo
<1>39. ASSUME NEW w \in Worker, RecordRollback(w)
      PROVE  CourseInv'
  BY <1>39 DEF RecordRollback, RollbackBegins, Transition
<1>40. ASSUME NEW w \in Worker, RecordFails(w)
      PROVE  CourseInv'
  BY <1>40 DEF RecordFails, Fault, CannotWrite, GoTo
<1>41. ASSUME NEW w \in Worker, Undo(w)
      PROVE  CourseInv'
  BY <1>41 DEF Undo, CleanupShadow, RemoveResource, GoTo
<1>42. ASSUME NEW w \in Worker, Replace(w)
      PROVE  CourseInv'
  BY <1>42 DEF Replace, Fault, GoTo
<1>43. ASSUME NEW w \in Worker, UndoFails(w)
      PROVE  CourseInv'
  BY <1>43 DEF UndoFails, CleanupShadowThrows, RemoveResource, ShadowMissed,
      GoTo
<1>44. ASSUME NEW w \in Worker, Fail(w)
      PROVE  CourseInv'
  BY <1>44 DEF Fail, RowFails, JobReturns, Leave
<1>45. ASSUME NEW w \in Worker, FailFails(w)
      PROVE  CourseInv'
  BY <1>45 DEF FailFails, RowFails, Fault, JobThrows, FinalAttempt, Leave
<1>46. ASSUME NEW w \in Worker, Crash(w)
      PROVE  CourseInv'
  BY <1>46 DEF Crash, Reverting, Fault, JobDropped, Leave
<1>47. ASSUME NEW w \in Worker, NEW j \in Job, Take(w, j)
      PROVE  CourseInv'
  BY <1>47 DEF Take, JobTaken
<1>48. ASSUME NEW j \in Job, JobStalls(j)
      PROVE  CourseInv'
  BY <1>48 DEF JobStalls, JobFoundSilent, Fault
<1>49. CASE UNCHANGED vars
  BY <1>49 DEF vars
<1> HIDE DEF MigrationInv, PlacementInv, JobsAreKept, CourseInv
<1> QED
  BY <1>1, <1>2, <1>3, <1>4, <1>5, <1>6, <1>7, <1>8, <1>9, <1>10, <1>11,
     <1>12, <1>13, <1>14, <1>15, <1>16, <1>17, <1>18, <1>19, <1>20,
     <1>21, <1>22, <1>23, <1>24, <1>25, <1>26, <1>27, <1>28, <1>29,
     <1>30, <1>31, <1>32, <1>33, <1>34, <1>35, <1>36, <1>37, <1>38,
     <1>39, <1>40, <1>41, <1>42, <1>43, <1>44, <1>45, <1>46, <1>47,
     <1>48, <1>49
  DEF Next, OperatorStep, WorkerStep

\* JobsAreKept and CourseInv are invariants beside those of the lease and of
\* the placement.
LEMMA CourseInvariance ==
  Spec => [](MigrationInv /\ PlacementInv /\ JobsAreKept /\ CourseInv)
<1>1. MigrationInv /\ PlacementInv /\ JobsAreKept /\ CourseInv /\ [Next]_vars
        => JobsAreKept' /\ CourseInv'
  BY NextJobs, NextCourse
<1> QED
  BY PlacementInvariance, InitCourse, <1>1, PTL DEF Spec

\* Without faults and races a migration nobody works on is what its status
\* says: cancelled, it has left nothing on the target; awaiting confirmation,
\* it runs on both servers and is placed on the target; completed, it runs on
\* the target alone, and the deployment record agrees.  A server differs only
\* where removeResource did not end as it reported.
THEOREM SettledAsRecordedHolds == Spec => []SettledAsRecorded
<1>1. MigrationInv /\ PlacementInv /\ CourseInv => SettledAsRecorded
  <2> SUFFICES ASSUME MigrationInv, PlacementInv, CourseInv,
                      faults = 0 /\ ~usurped /\ ~raced,
                      confirming = "idle",
                      \A w \in Worker : ~Executing(w),
                      status \in {"cancelled", "awaiting-confirmation",
                                  "completed"}
               PROVE  SettledAsRecorded
    BY DEF SettledAsRecorded
  <2>1. Forward /\ ~Exempt
    BY DEF CourseInv, Forward, Exempt
  <2>2. \A w \in Worker : pc[w] # "publish"
    BY DEF Executing
  <2>3. /\ status = "awaiting-confirmation" =>
             "source" \in services \/ "source" \in misreported
        /\ status = "completed" =>
             "source" \notin services \/ "source" \in misreported
    BY <2>1 DEF CourseInv
  <2>4. status # "cancelled" => server = "target" /\ "target" \in services
    BY <2>1 DEF PlacementInv, PlacedByStatus
  <2>5. status # "cancelled" => deployment = "success"
    BY <2>1, <2>2 DEF CourseInv
  <2>6. status = "cancelled" => /\ server = "source" /\ ShadowAsReported
                                /\ deployment = "cancelled"
    BY <2>1 DEF CourseInv, PlacementInv, PlacedByStatus
  <2> QED
    BY <2>3, <2>4, <2>5, <2>6 DEF SettledAsRecorded, ShadowAsReported
<1> QED
  BY CourseInvariance, <1>1, PTL
=============================================================================
