-------------------------- MODULE Retention_proofs --------------------------
(***************************************************************************)
(* Proof that retention never deletes a backup it keeps, for every         *)
(* retention count, any number of runs and workers, and any faults.        *)
(***************************************************************************)
EXTENDS Backup_proofs, FiniteSetTheorems

USE DEF runVars, jobVars, workerVars, deletionVars, historyVars

-----------------------------------------------------------------------------
(* Counting runs.                                                          *)

\* A set of runs has a newest one.
LEMMA NewestRun ==
  ASSUME NEW S \in SUBSET Run, S # {}
  PROVE  \E m \in S : \A r \in S : r <= m
<1> DEFINE Below == {p \in Nat \X Nat : p[1] < p[2]}
           Age == {MaxRuns - r : r \in S}
<1>1. IsWellFoundedOn(Below, Nat)
  BY NatLessThanWellFounded DEF OpToRel
<1>2. Age \subseteq Nat
  BY BackupAssumption DEF Run
<1>3. Age # {}
  <2>1. PICK r \in S : TRUE
    OBVIOUS
  <2>2. MaxRuns - r \in Age
    OBVIOUS
  <2> QED
    BY <2>2
<1>4. PICK a \in Age : \A b \in Age : ~(<<b, a>> \in Below)
  <2> HIDE DEF Below, Age
  <2> QED
    BY <1>1, <1>2, <1>3, WFMin
<1>5. PICK m \in S : a = MaxRuns - m
  OBVIOUS
<1>6. \A r \in S : ~(MaxRuns - r < MaxRuns - m)
  BY <1>2, <1>4, <1>5
<1> QED
  BY <1>6, BackupAssumption DEF Run

\* Sets of runs are finite, and larger ones do not count less.
LEMMA CountGrows ==
  ASSUME NEW T \in SUBSET Run, NEW S \in SUBSET T
  PROVE  Cardinality(S) \in Nat /\ Cardinality(T) \in Nat
         /\ Cardinality(S) <= Cardinality(T)
<1>1. IsFiniteSet(Run)
  BY FS_Interval, BackupAssumption DEF Run
<1>2. IsFiniteSet(T) /\ IsFiniteSet(S)
  BY <1>1, FS_Subset
<1> QED
  BY <1>2, FS_Subset, FS_CardinalityType

\* A covered run stays covered as long as settled runs stay settled.
LEMMA CoveredStays ==
  ASSUME NEW r, Covered(r), \A k \in Run : Settled(k) => Settled(k)'
  PROVE  Covered(r)'
<1> DEFINE S == {k \in Run : k > r /\ Settled(k)}
           T == {k \in Run : k > r /\ Settled(k)'}
<1>1. T \in SUBSET Run /\ S \in SUBSET T
  OBVIOUS
<1>2. Cardinality(S) >= Retention /\ Retention # 0
  BY DEF Covered
<1>3. Cardinality(T) >= Retention
  <2> HIDE DEF S, T
  <2> QED
    BY <1>1, <1>2, CountGrows, BackupAssumption
<1> QED
  BY <1>2, <1>3 DEF Covered

\* A covered run is not one of those that retention keeps.
LEMMA CoveredIsNotKept ==
  ASSUME NEW r, Covered(r)
  PROVE  Retention # 0 /\ Cardinality(Newer(r)) >= Retention
<1> DEFINE S == {k \in Run : k > r /\ Settled(k)}
<1>1. S \in SUBSET Newer(r) /\ Newer(r) \in SUBSET Run
  BY DEF Newer, Settled
<1>2. Cardinality(S) >= Retention /\ Retention # 0
  BY DEF Covered
<1> QED
  <2> HIDE DEF S
  <2> QED
    BY <1>1, <1>2, CountGrows, BackupAssumption

\* The retention pass spares retentionCount backups that are newer than all it
\* has found expired.
LEMMA ExpiredSparesNewest ==
  ASSUME Expired # {}
  PROVE  \E m \in Run :
           /\ Retention # 0
           /\ Cardinality(Newer(m)) >= Retention
           /\ \A v \in Expired : v[1] <= m
<1> DEFINE S == {q \in Run : /\ status[q] = "succeeded"
                             /\ fileKey[q] # 0
                             /\ Retention # 0
                             /\ Cardinality(Newer(q)) >= Retention}
<1>1. Expired = {<<r, fileKey[r]>> : r \in S}
  BY DEF Expired
<1>2. S \in SUBSET Run /\ S # {}
  BY <1>1
<1>3. PICK m \in S : \A r \in S : r <= m
  <2> HIDE DEF S
  <2> QED
    BY <1>2, NewestRun
<1>4. \A v \in Expired : v[1] <= m
  BY <1>1, <1>3
<1> QED
  BY <1>3, <1>4

\* The next expired file of a worker is one of its expired files.
LEMMA VictimIsChosen ==
  ASSUME TypeOK, NEW w \in Worker, victims[w] # {}
  PROVE  Victim(w) \in victims[w] /\ Victim(w)[1] \in Run
<1> DEFINE S == {v[1] : v \in victims[w]}
<1>1. victims[w] \subseteq Run \X Nat
  BY DEF TypeOK
<1>2. S \in SUBSET Run /\ S # {}
  BY <1>1
<1>3. PICK m \in S : \A r \in S : r <= m
  <2> HIDE DEF S
  <2> QED
    BY <1>2, NewestRun
<1>4. \E v \in victims[w] : \A u \in victims[w] : u[1] <= v[1]
  BY <1>3
<1> QED
  BY <1>1, <1>4 DEF Victim

-----------------------------------------------------------------------------
\* Nothing is deleted or stored at first.
LEMMA InitRetention == Init => RetentionInv
  BY DEF Init, RetentionInv, SoleWorker, DeletionIsKnown,
         VictimsWhilePruning, NotYetSucceeded, UploadExists, LostIsCovered,
         VictimIsCovered, Working

\* Every step keeps one worker at work and one execution at a run, unless it is
\* recorded; so an execution that has not been recorded has not succeeded, and
\* nobody deletes its upload.
LEMMA NextSole ==
  BackupInv /\ RetentionInv /\ [Next]_vars =>
    (/\ SoleWorker /\ DeletionIsKnown /\ VictimsWhilePruning
     /\ NotYetSucceeded /\ UploadExists)'
<1> DEFINE Sole == /\ SoleWorker /\ DeletionIsKnown /\ VictimsWhilePruning
                   /\ NotYetSucceeded /\ UploadExists
<1> SUFFICES ASSUME BackupInv, RetentionInv, [Next]_vars PROVE Sole'
  OBVIOUS
<1> USE JobShape, BusyRun
    DEF BackupInv, RetentionInv, SoleWorker, DeletionIsKnown,
        VictimsWhilePruning, NotYetSucceeded, UploadExists, TypeOK, At,
        Working, RowExists
<1>1. ASSUME NEW r \in Run, Trigger(r)
      PROVE  Sole'
  BY <1>1 DEF Trigger
<1>2. ASSUME NEW r \in Run, RowGoesStale(r)
      PROVE  Sole'
  BY <1>2 DEF RowGoesStale, Fault
<1>3. ASSUME NEW r \in Run, RecoverStale(r)
      PROVE  Sole'
  BY <1>3 DEF RecoverStale, JobAdded
<1>4. ASSUME CreateRun
      PROVE  Sole'
  BY <1>4 DEF CreateRun, JobAdded
<1>5. ASSUME CreateRunFails
      PROVE  Sole'
  BY <1>5 DEF CreateRunFails, Fault, ReleaseLock
<1>6. ASSUME TriggerCrash
      PROVE  Sole'
  BY <1>6 DEF TriggerCrash, Fault
<1>7. ASSUME LockExpires
      PROVE  Sole'
  BY <1>7 DEF LockExpires, Fault
<1>8. ASSUME StartDeletion
      PROVE  Sole'
  BY <1>8 DEF StartDeletion, Fault
<1>9. ASSUME DeleteObject
      PROVE  Sole'
  BY <1>9 DEF DeleteObject
<1>10. ASSUME DeletionFails
      PROVE  Sole'
  BY <1>10 DEF DeletionFails, Failure
<1>11. ASSUME DeleteSchedule
      PROVE  Sole'
  BY <1>11, BackupAssumption DEF DeleteSchedule
<1>12. ASSUME NEW w \in Worker, Find(w)
      PROVE  Sole'
  BY <1>12 DEF Find, GoTo
<1>13. ASSUME NEW w \in Worker, FindSucceeded(w)
      PROVE  Sole'
  BY <1>13 DEF FindSucceeded, JobReturns, Leave
<1>14. ASSUME NEW w \in Worker, FindFails(w)
      PROVE  Sole'
  BY <1>14 DEF FindFails, Fault, GoTo
<1>15. ASSUME NEW w \in Worker, Claim(w)
      PROVE  Sole'
  BY <1>15 DEF Claim, Claimable, Attended
<1>16. ASSUME NEW w \in Worker, ClaimRefused(w)
      PROVE  Sole'
  BY <1>16 DEF ClaimRefused, Claimable, Fault, GoTo
<1>17. ASSUME NEW w \in Worker, EnsureLock(w)
      PROVE  Sole'
  <2>1. ASSUME ~overlapped'
        PROVE  \A v \in Worker : pc[v] \notin Working
    BY <1>17, <2>1 DEF EnsureLock
  <2>2. overlapped => overlapped'
    BY <1>17 DEF EnsureLock
  <2>3. SoleWorker'
    BY <1>17, <2>1, <2>2 DEF EnsureLock, GoTo
  <2> QED
    BY <1>17, <2>1, <2>2, <2>3 DEF EnsureLock, GoTo
<1>18. ASSUME NEW w \in Worker, EnsureLockFails(w)
      PROVE  Sole'
  BY <1>18 DEF EnsureLockFails, LockEnsured, Fault, GoTo
<1>19. ASSUME NEW w \in Worker, Check(w)
      PROVE  Sole'
  BY <1>19 DEF Check, GoTo
<1>20. ASSUME NEW w \in Worker, CheckFails(w)
      PROVE  Sole'
  BY <1>20 DEF CheckFails, UpdateRun, Failure, Fault, GoTo
<1>21. ASSUME NEW w \in Worker, Dump(w)
      PROVE  Sole'
  BY <1>21 DEF Dump
<1>22. ASSUME NEW w \in Worker, DumpFails(w)
      PROVE  Sole'
  BY <1>22 DEF DumpFails, Failure, GoTo
<1>23. ASSUME NEW w \in Worker, Store(w)
      PROVE  Sole'
  BY <1>23 DEF Store, UpdateRun, GoTo
<1>24. ASSUME NEW w \in Worker, StoreFails(w)
      PROVE  Sole'
  BY <1>24 DEF StoreFails, Fault, GoTo
<1>25. ASSUME NEW w \in Worker, Verify(w)
      PROVE  Sole'
  BY <1>25 DEF Verify, GoTo
<1>26. ASSUME NEW w \in Worker, VerifyFails(w)
      PROVE  Sole'
  BY <1>26 DEF VerifyFails, Failure, GoTo
<1>27. ASSUME NEW w \in Worker, List(w)
      PROVE  Sole'
  BY <1>27 DEF List, Expired
<1>28. ASSUME NEW w \in Worker, ListFails(w)
      PROVE  Sole'
  BY <1>28 DEF ListFails, Fault, GoTo
<1>29. ASSUME NEW w \in Worker, Prune(w)
      PROVE  Sole'
  BY <1>29 DEF Prune, GoTo
<1>30. ASSUME NEW w \in Worker, PruneFails(w)
      PROVE  Sole'
  BY <1>30 DEF PruneFails, Failure
<1>31. ASSUME NEW w \in Worker, Forget(w)
      PROVE  Sole'
  BY <1>31 DEF Forget, Fault
<1>32. ASSUME NEW w \in Worker, Pruned(w)
      PROVE  Sole'
  BY <1>32 DEF Pruned, GoTo
<1>33. ASSUME NEW w \in Worker, Release(w)
      PROVE  Sole'
  BY <1>33 DEF Release, ReleaseLock, JobReturns, Leave
<1>34. ASSUME NEW w \in Worker, ReleaseFails(w)
      PROVE  Sole'
  BY <1>34 DEF ReleaseFails, Fault, GoTo
<1>35. ASSUME NEW w \in Worker, Catch(w)
      PROVE  Sole'
  BY <1>35 DEF Catch, UpdateRun, Fault, GoTo
<1>36. ASSUME NEW w \in Worker, Throw(w)
      PROVE  Sole'
  BY <1>36 DEF Throw, ReleaseLock, Fault, JobThrows, Leave
<1>37. ASSUME NEW w \in Worker, Heartbeat(w)
      PROVE  Sole'
  BY <1>37 DEF Heartbeat
<1>38. ASSUME NEW w \in Worker, Crash(w)
      PROVE  Sole'
  BY <1>38 DEF Crash, Fault, JobDropped, Leave
<1>39. ASSUME NEW w \in Worker, NEW j \in Job, Take(w, j)
      PROVE  Sole'
  BY <1>39 DEF Take, JobTaken
<1>40. ASSUME NEW j \in Job, JobStalls(j)
      PROVE  Sole'
  BY <1>40 DEF JobStalls, Fault, JobFoundSilent
<1>41. CASE UNCHANGED vars
  BY <1>41 DEF vars
<1> QED
  BY <1>1, <1>2, <1>3, <1>4, <1>5, <1>6, <1>7, <1>8, <1>9, <1>10, <1>11,
     <1>12, <1>13, <1>14, <1>15, <1>16, <1>17, <1>18, <1>19, <1>20,
     <1>21, <1>22, <1>23, <1>24, <1>25, <1>26, <1>27, <1>28, <1>29,
     <1>30, <1>31, <1>32, <1>33, <1>34, <1>35, <1>36, <1>37, <1>38,
     <1>39, <1>40, <1>41
  DEF Next, WorkerStep

\* A settled run stays settled in every step but a new retention pass.
LEMMA SettledStays ==
  ASSUME BackupInv, RetentionInv, [Next]_vars, ~overlapped', ~dismantled',
         \A w \in Worker : ~List(w),
         NEW k \in Run, Settled(k)
  PROVE  Settled(k)'
<1> USE JobShape, BusyRun
    DEF BackupInv, RetentionInv, SoleWorker, DeletionIsKnown,
        VictimsWhilePruning, NotYetSucceeded, TypeOK, At,
        Working, RowExists, Settled
<1>1. ASSUME NEW r \in Run, Trigger(r)
      PROVE  Settled(k)'
  BY <1>1 DEF Trigger
<1>2. ASSUME NEW r \in Run, RowGoesStale(r)
      PROVE  Settled(k)'
  BY <1>2 DEF RowGoesStale, Fault
<1>3. ASSUME NEW r \in Run, RecoverStale(r)
      PROVE  Settled(k)'
  BY <1>3 DEF RecoverStale, JobAdded
<1>4. ASSUME CreateRun
      PROVE  Settled(k)'
  BY <1>4 DEF CreateRun, JobAdded, NoJobBeforeRun
<1>5. ASSUME CreateRunFails
      PROVE  Settled(k)'
  BY <1>5 DEF CreateRunFails, Fault, ReleaseLock
<1>6. ASSUME TriggerCrash
      PROVE  Settled(k)'
  BY <1>6 DEF TriggerCrash, Fault
<1>7. ASSUME LockExpires
      PROVE  Settled(k)'
  BY <1>7 DEF LockExpires, Fault
<1>8. ASSUME StartDeletion
      PROVE  Settled(k)'
  BY <1>8 DEF StartDeletion, Fault
<1>9. ASSUME DeleteObject
      PROVE  Settled(k)'
  BY <1>9 DEF DeleteObject
<1>10. ASSUME DeletionFails
      PROVE  Settled(k)'
  BY <1>10 DEF DeletionFails, Failure
<1>11. ASSUME DeleteSchedule
      PROVE  Settled(k)'
  BY <1>11, BackupAssumption DEF DeleteSchedule
<1>12. ASSUME NEW w \in Worker, Find(w)
      PROVE  Settled(k)'
  BY <1>12 DEF Find, GoTo
<1>13. ASSUME NEW w \in Worker, FindSucceeded(w)
      PROVE  Settled(k)'
  BY <1>13 DEF FindSucceeded, JobReturns, Leave
<1>14. ASSUME NEW w \in Worker, FindFails(w)
      PROVE  Settled(k)'
  BY <1>14 DEF FindFails, Fault, GoTo
<1>15. ASSUME NEW w \in Worker, Claim(w)
      PROVE  Settled(k)'
  BY <1>15 DEF Claim, Claimable
<1>16. ASSUME NEW w \in Worker, ClaimRefused(w)
      PROVE  Settled(k)'
  BY <1>16 DEF ClaimRefused, Claimable, Fault, GoTo
<1>17. ASSUME NEW w \in Worker, EnsureLock(w)
      PROVE  Settled(k)'
  BY <1>17 DEF EnsureLock, GoTo
<1>18. ASSUME NEW w \in Worker, EnsureLockFails(w)
      PROVE  Settled(k)'
  BY <1>18 DEF EnsureLockFails, LockEnsured, Fault, GoTo
<1>19. ASSUME NEW w \in Worker, Check(w)
      PROVE  Settled(k)'
  BY <1>19 DEF Check, GoTo
<1>20. ASSUME NEW w \in Worker, CheckFails(w)
      PROVE  Settled(k)'
  BY <1>20 DEF CheckFails, UpdateRun, Failure, Fault, GoTo
<1>21. ASSUME NEW w \in Worker, Dump(w)
      PROVE  Settled(k)'
  BY <1>21 DEF Dump
<1>22. ASSUME NEW w \in Worker, DumpFails(w)
      PROVE  Settled(k)'
  BY <1>22 DEF DumpFails, Failure, GoTo
<1>23. ASSUME NEW w \in Worker, Store(w)
      PROVE  Settled(k)'
  BY <1>23 DEF Store, UpdateRun, GoTo
<1>24. ASSUME NEW w \in Worker, StoreFails(w)
      PROVE  Settled(k)'
  BY <1>24 DEF StoreFails, Fault, GoTo
<1>25. ASSUME NEW w \in Worker, Verify(w)
      PROVE  Settled(k)'
  BY <1>25 DEF Verify, GoTo
<1>26. ASSUME NEW w \in Worker, VerifyFails(w)
      PROVE  Settled(k)'
  BY <1>26 DEF VerifyFails, Failure, GoTo
<1>27. ASSUME NEW w \in Worker, List(w)
      PROVE  Settled(k)'
  BY <1>27
<1>28. ASSUME NEW w \in Worker, ListFails(w)
      PROVE  Settled(k)'
  BY <1>28 DEF ListFails, Fault, GoTo
<1>29. ASSUME NEW w \in Worker, Prune(w)
      PROVE  Settled(k)'
  BY <1>29 DEF Prune, GoTo
<1>30. ASSUME NEW w \in Worker, PruneFails(w)
      PROVE  Settled(k)'
  BY <1>30 DEF PruneFails, Failure
<1>31. ASSUME NEW w \in Worker, Forget(w)
      PROVE  Settled(k)'
  <2>1. Victim(w) \in victims[w] /\ Victim(w)[1] # k
    BY <1>31, VictimIsChosen DEF Forget
  <2> QED
    BY <1>31, <2>1 DEF Forget
<1>32. ASSUME NEW w \in Worker, Pruned(w)
      PROVE  Settled(k)'
  BY <1>32 DEF Pruned, GoTo
<1>33. ASSUME NEW w \in Worker, Release(w)
      PROVE  Settled(k)'
  BY <1>33 DEF Release, ReleaseLock, JobReturns, Leave
<1>34. ASSUME NEW w \in Worker, ReleaseFails(w)
      PROVE  Settled(k)'
  BY <1>34 DEF ReleaseFails, Fault, GoTo
<1>35. ASSUME NEW w \in Worker, Catch(w)
      PROVE  Settled(k)'
  BY <1>35 DEF Catch, UpdateRun, Fault, GoTo
<1>36. ASSUME NEW w \in Worker, Throw(w)
      PROVE  Settled(k)'
  BY <1>36 DEF Throw, ReleaseLock, Fault, JobThrows, Leave
<1>37. ASSUME NEW w \in Worker, Heartbeat(w)
      PROVE  Settled(k)'
  BY <1>37 DEF Heartbeat
<1>38. ASSUME NEW w \in Worker, Crash(w)
      PROVE  Settled(k)'
  BY <1>38 DEF Crash, Fault, JobDropped, Leave
<1>39. ASSUME NEW w \in Worker, NEW j \in Job, Take(w, j)
      PROVE  Settled(k)'
  BY <1>39 DEF Take, JobTaken
<1>40. ASSUME NEW j \in Job, JobStalls(j)
      PROVE  Settled(k)'
  BY <1>40 DEF JobStalls, Fault, JobFoundSilent
<1>41. CASE UNCHANGED vars
  BY <1>41 DEF vars
<1> QED
  BY <1>1, <1>2, <1>3, <1>4, <1>5, <1>6, <1>7, <1>8, <1>9, <1>10, <1>11,
     <1>12, <1>13, <1>14, <1>15, <1>16, <1>17, <1>18, <1>19, <1>20,
     <1>21, <1>22, <1>23, <1>24, <1>25, <1>26, <1>27, <1>28, <1>29,
     <1>30, <1>31, <1>32, <1>33, <1>34, <1>35, <1>36, <1>37, <1>38,
     <1>39, <1>40, <1>41
  DEF Next, WorkerStep

\* Whatever lost its file in a step, or is about to lose it after the step, was
\* covered before it; a new retention pass is treated below.
LEMMA LostWasCovered ==
  ASSUME BackupInv, RetentionInv, [Next]_vars, ~overlapped', ~dismantled',
         \A w \in Worker : ~List(w)
  PROVE  /\ \A r \in Run :
              (status[r] = "succeeded" /\ <<r, fileKey[r]>> \notin storage)'
                => Covered(r)
         /\ \A w \in Worker : \A v \in victims'[w] : Covered(v[1])
<1> DEFINE WasCovered ==
      /\ \A r \in Run :
           (status[r] = "succeeded" /\ <<r, fileKey[r]>> \notin storage)'
             => Covered(r)
      /\ \A w \in Worker : \A v \in victims'[w] : Covered(v[1])
<1> USE JobShape, BusyRun
    DEF BackupInv, RetentionInv, DeletionIsKnown, UploadExists,
        LostIsCovered, VictimIsCovered, TypeOK, At, Working, RowExists
<1>1. ASSUME NEW r \in Run, Trigger(r)
      PROVE  WasCovered
  BY <1>1 DEF Trigger
<1>2. ASSUME NEW r \in Run, RowGoesStale(r)
      PROVE  WasCovered
  BY <1>2 DEF RowGoesStale, Fault
<1>3. ASSUME NEW r \in Run, RecoverStale(r)
      PROVE  WasCovered
  BY <1>3 DEF RecoverStale, JobAdded
<1>4. ASSUME CreateRun
      PROVE  WasCovered
  BY <1>4 DEF CreateRun, JobAdded
<1>5. ASSUME CreateRunFails
      PROVE  WasCovered
  BY <1>5 DEF CreateRunFails, Fault, ReleaseLock
<1>6. ASSUME TriggerCrash
      PROVE  WasCovered
  BY <1>6 DEF TriggerCrash, Fault
<1>7. ASSUME LockExpires
      PROVE  WasCovered
  BY <1>7 DEF LockExpires, Fault
<1>8. ASSUME StartDeletion
      PROVE  WasCovered
  BY <1>8 DEF StartDeletion, Fault
<1>9. ASSUME DeleteObject
      PROVE  WasCovered
  BY <1>9 DEF DeleteObject
<1>10. ASSUME DeletionFails
      PROVE  WasCovered
  BY <1>10 DEF DeletionFails, Failure
<1>11. ASSUME DeleteSchedule
      PROVE  WasCovered
  BY <1>11, BackupAssumption DEF DeleteSchedule
<1>12. ASSUME NEW w \in Worker, Find(w)
      PROVE  WasCovered
  BY <1>12 DEF Find, GoTo
<1>13. ASSUME NEW w \in Worker, FindSucceeded(w)
      PROVE  WasCovered
  BY <1>13 DEF FindSucceeded, JobReturns, Leave
<1>14. ASSUME NEW w \in Worker, FindFails(w)
      PROVE  WasCovered
  BY <1>14 DEF FindFails, Fault, GoTo
<1>15. ASSUME NEW w \in Worker, Claim(w)
      PROVE  WasCovered
  BY <1>15 DEF Claim, Claimable
<1>16. ASSUME NEW w \in Worker, ClaimRefused(w)
      PROVE  WasCovered
  BY <1>16 DEF ClaimRefused, Claimable, Fault, GoTo
<1>17. ASSUME NEW w \in Worker, EnsureLock(w)
      PROVE  WasCovered
  BY <1>17 DEF EnsureLock, GoTo, LockEnsured
<1>18. ASSUME NEW w \in Worker, EnsureLockFails(w)
      PROVE  WasCovered
  BY <1>18 DEF EnsureLockFails, LockEnsured, Fault, GoTo
<1>19. ASSUME NEW w \in Worker, Check(w)
      PROVE  WasCovered
  BY <1>19 DEF Check, GoTo
<1>20. ASSUME NEW w \in Worker, CheckFails(w)
      PROVE  WasCovered
  BY <1>20 DEF CheckFails, UpdateRun, Failure, Fault, GoTo
<1>21. ASSUME NEW w \in Worker, Dump(w)
      PROVE  WasCovered
  BY <1>21 DEF Dump
<1>22. ASSUME NEW w \in Worker, DumpFails(w)
      PROVE  WasCovered
  BY <1>22 DEF DumpFails, Failure, GoTo
<1>23. ASSUME NEW w \in Worker, Store(w)
      PROVE  WasCovered
  BY <1>23 DEF Store, UpdateRun, GoTo
<1>24. ASSUME NEW w \in Worker, StoreFails(w)
      PROVE  WasCovered
  BY <1>24 DEF StoreFails, Fault, GoTo
<1>25. ASSUME NEW w \in Worker, Verify(w)
      PROVE  WasCovered
  BY <1>25 DEF Verify, GoTo
<1>26. ASSUME NEW w \in Worker, VerifyFails(w)
      PROVE  WasCovered
  BY <1>26 DEF VerifyFails, Failure, GoTo
<1>27. ASSUME NEW w \in Worker, List(w)
      PROVE  WasCovered
  BY <1>27
<1>28. ASSUME NEW w \in Worker, ListFails(w)
      PROVE  WasCovered
  BY <1>28 DEF ListFails, Fault, GoTo
<1>29. ASSUME NEW w \in Worker, Prune(w)
      PROVE  WasCovered
  <2>1. Victim(w) \in victims[w]
    BY <1>29, VictimIsChosen DEF Prune
  <2>2. Covered(Victim(w)[1])
    BY <1>29, <2>1 DEF Prune
  <2> QED
    BY <1>29, <2>2 DEF Prune, GoTo
<1>30. ASSUME NEW w \in Worker, PruneFails(w)
      PROVE  WasCovered
  BY <1>30 DEF PruneFails, Failure
<1>31. ASSUME NEW w \in Worker, Forget(w)
      PROVE  WasCovered
  BY <1>31 DEF Forget, Fault
<1>32. ASSUME NEW w \in Worker, Pruned(w)
      PROVE  WasCovered
  BY <1>32 DEF Pruned, GoTo
<1>33. ASSUME NEW w \in Worker, Release(w)
      PROVE  WasCovered
  BY <1>33 DEF Release, ReleaseLock, JobReturns, Leave
<1>34. ASSUME NEW w \in Worker, ReleaseFails(w)
      PROVE  WasCovered
  BY <1>34 DEF ReleaseFails, Fault, GoTo
<1>35. ASSUME NEW w \in Worker, Catch(w)
      PROVE  WasCovered
  BY <1>35 DEF Catch, UpdateRun, Fault, GoTo
<1>36. ASSUME NEW w \in Worker, Throw(w)
      PROVE  WasCovered
  BY <1>36 DEF Throw, ReleaseLock, Fault, JobThrows, Leave
<1>37. ASSUME NEW w \in Worker, Heartbeat(w)
      PROVE  WasCovered
  BY <1>37 DEF Heartbeat
<1>38. ASSUME NEW w \in Worker, Crash(w)
      PROVE  WasCovered
  BY <1>38 DEF Crash, Fault, JobDropped, Leave
<1>39. ASSUME NEW w \in Worker, NEW j \in Job, Take(w, j)
      PROVE  WasCovered
  BY <1>39 DEF Take, JobTaken
<1>40. ASSUME NEW j \in Job, JobStalls(j)
      PROVE  WasCovered
  BY <1>40 DEF JobStalls, Fault, JobFoundSilent
<1>41. CASE UNCHANGED vars
  BY <1>41 DEF vars
<1> QED
  BY <1>1, <1>2, <1>3, <1>4, <1>5, <1>6, <1>7, <1>8, <1>9, <1>10, <1>11,
     <1>12, <1>13, <1>14, <1>15, <1>16, <1>17, <1>18, <1>19, <1>20,
     <1>21, <1>22, <1>23, <1>24, <1>25, <1>26, <1>27, <1>28, <1>29,
     <1>30, <1>31, <1>32, <1>33, <1>34, <1>35, <1>36, <1>37, <1>38,
     <1>39, <1>40, <1>41
  DEF Next, WorkerStep

\* A retention pass makes its expired runs covered, and keeps the covered ones:
\* the retentionCount backups it spares are newer than all of them, and their
\* success is final, as the worker that lists is the only one at work.
LEMMA ListCovers ==
  ASSUME BackupInv, RetentionInv, ~overlapped', ~dismantled',
         NEW w \in Worker, List(w)
  PROVE  (LostIsCovered /\ VictimIsCovered)'
<1>1. /\ UNCHANGED <<status, fileKey, storage, job>>
      /\ ~overlapped /\ ~dismantled
      /\ pc[w] = "list"
      /\ pc' = [pc EXCEPT ![w] = "prune"]
      /\ victims' = [victims EXCEPT ![w] = Expired]
  BY DEF List
<1>2. /\ pc \in [Worker -> Control]
      /\ victims \in [Worker -> SUBSET (Run \X Nat)]
  BY DEF BackupInv, TypeOK
<1>3. \A v \in Worker : v # w => pc[v] \notin Working /\ victims[v] = {}
  BY <1>1 DEF RetentionInv, SoleWorker, VictimsWhilePruning, Working
<1>4. ASSUME NEW k \in Run, status[k] = "succeeded", fileKey[k] # 0,
             \A v \in Expired : v[1] # k
      PROVE  Settled(k)'
  BY <1>1, <1>2, <1>3, <1>4 DEF Settled, At, Working
<1>5. \A v \in Expired : v[1] \in Run
  BY DEF Expired
<1>6. \A r \in Run :
        status[r] = "succeeded" /\ <<r, fileKey[r]>> \notin storage
          => Covered(r)
  BY <1>1 DEF RetentionInv, LostIsCovered
<1>7. CASE Expired = {}
  <2>1. \A k \in Run : Settled(k) => Settled(k)'
    BY <1>4, <1>7 DEF Settled
  <2>2. LostIsCovered'
    BY <1>1, <1>6, <2>1, CoveredStays DEF LostIsCovered
  <2>3. VictimIsCovered'
    BY <1>1, <1>2, <1>3, <1>7 DEF VictimIsCovered
  <2> QED
    BY <2>2, <2>3
<1>8. CASE Expired # {}
  <2>1. PICK m \in Run : /\ Retention # 0
                         /\ Cardinality(Newer(m)) >= Retention
                         /\ \A v \in Expired : v[1] <= m
    BY <1>8, ExpiredSparesNewest
  <2>2. ASSUME NEW r \in Run, r <= m
        PROVE  Covered(r)'
    <3> DEFINE T == {k \in Run : k > r /\ Settled(k)'}
    <3>1. Newer(m) \in SUBSET T
      BY <1>4, <1>5, <2>1, <2>2 DEF Newer, Run
    <3>2. T \in SUBSET Run
      OBVIOUS
    <3>3. Cardinality(T) >= Retention
      <4> HIDE DEF T
      <4> QED
        BY <2>1, <3>1, <3>2, CountGrows, BackupAssumption
    <3> QED
      BY <2>1, <3>3 DEF Covered
  <2>3. ASSUME NEW r \in Run, r > m, Covered(r)
        PROVE  Covered(r)'
    <3> DEFINE S == {k \in Run : k > r /\ Settled(k)}
               T == {k \in Run : k > r /\ Settled(k)'}
    <3>1. S \in SUBSET T
      BY <1>4, <1>5, <2>1, <2>3 DEF Settled, Run
    <3>2. T \in SUBSET Run
      OBVIOUS
    <3>3. Cardinality(S) >= Retention
      BY <2>3 DEF Covered
    <3>4. Cardinality(T) >= Retention
      <4> HIDE DEF S, T
      <4> QED
        BY <3>1, <3>2, <3>3, CountGrows, BackupAssumption
    <3> QED
      BY <2>1, <3>4 DEF Covered
  <2>4. \A r \in Run : Covered(r) => Covered(r)'
    BY <2>2, <2>3 DEF Run
  <2>5. LostIsCovered'
    BY <1>1, <1>6, <2>4 DEF LostIsCovered
  <2>6. VictimIsCovered'
    BY <1>1, <1>2, <1>3, <1>5, <2>1, <2>2 DEF VictimIsCovered
  <2> QED
    BY <2>5, <2>6
<1> QED
  BY <1>7, <1>8

\* RetentionInv is kept by every step.
LEMMA NextRetention ==
  BackupInv /\ RetentionInv /\ [Next]_vars => RetentionInv'
<1> SUFFICES ASSUME BackupInv, RetentionInv, [Next]_vars
             PROVE  (LostIsCovered /\ VictimIsCovered)'
  BY NextSole DEF RetentionInv
<1>1. CASE overlapped' \/ dismantled'
  BY <1>1 DEF LostIsCovered, VictimIsCovered
<1>2. CASE ~overlapped' /\ ~dismantled' /\ \E w \in Worker : List(w)
  BY <1>2, ListCovers
<1>3. CASE ~overlapped' /\ ~dismantled' /\ \A w \in Worker : ~List(w)
  <2>1. \A k \in Run : Settled(k) => Settled(k)'
    BY <1>3, SettledStays
  <2>2. \A r : Covered(r) => Covered(r)'
    BY <2>1, CoveredStays
  <2> QED
    BY <1>3, <2>2, LostWasCovered DEF LostIsCovered, VictimIsCovered
<1> QED
  BY <1>1, <1>2, <1>3

\* What retention keeps can be restored, although it decides on a list of runs
\* that it read before, for every retention count, any number of runs and
\* workers, and any crashes, failing calls, recoveries and redeliveries; until
\* two executions overlap or the schedule is deleted.
THEOREM RetainedBackupsStay == Spec => []RetainedBackupsExist
<1>1. BackupInv /\ RetentionInv => RetainedBackupsExist
  <2> SUFFICES ASSUME RetentionInv, ~overlapped, ~dismantled,
                      NEW r \in Run, status[r] = "succeeded",
                      Retention = 0 \/ Cardinality(Newer(r)) < Retention,
                      <<r, fileKey[r]>> \notin storage
               PROVE  FALSE
    BY DEF RetainedBackupsExist
  <2>1. Covered(r)
    BY DEF RetentionInv, LostIsCovered
  <2>2. Cardinality(Newer(r)) \in Nat
    BY CountGrows DEF Newer
  <2> QED
    BY <2>1, <2>2, CoveredIsNotKept, BackupAssumption
<1>2. Init => RetentionInv
  BY InitRetention
<1>3. BackupInv /\ RetentionInv /\ [Next]_vars => RetentionInv'
  BY NextRetention
<1> QED
  BY Invariance, <1>1, <1>2, <1>3, PTL DEF Spec
=============================================================================
