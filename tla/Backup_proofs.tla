--------------------------- MODULE Backup_proofs ---------------------------
(***************************************************************************)
(* Proofs about Backup, for every set of workers, every retention, and     *)
(* every bound on runs, attempts, recoveries, failures and faults.         *)
(***************************************************************************)
EXTENDS Backup, TLAPS

USE DEF runVars, jobVars, workerVars, deletionVars, historyVars

\* The initial state has the types: no run, no job, no object.
LEMMA InitType == Init => TypeOK
<1> SUFFICES ASSUME Init PROVE TypeOK
  OBVIOUS
<1>1. QueueTypeOK
  BY DEF Init, QueueInit, QueueTypeOK
<1>2. /\ failures \in 0 .. MaxFailures
      /\ faults \in 0 .. MaxFaults
      /\ recovered \in [Run -> 0 .. MaxRecoveries]
  BY BackupAssumption DEF Init
<1>3. \A w \in Worker : pc[w] = "idle" <=> job[w] = None
  BY DEF Init
<1> QED
  BY <1>1, <1>2, <1>3 DEF Init, TypeOK, Status, Control, Flags

\* A busy slot works on a job of a run.
LEMMA BusyRun ==
  ASSUME TypeOK, NEW w \in Worker, pc[w] # "idle"
  PROVE  job[w] \in Job /\ At(w) \in Run /\ At(w) # None
<1>1. job[w] \in Job
  BY DEF TypeOK
<1> QED
  BY <1>1, BackupAssumption DEF Job, At, Run

\* Every step keeps the types, and a slot has a job exactly while it is busy.
LEMMA NextType == TypeOK /\ [Next]_vars => TypeOK'
<1> SUFFICES ASSUME TypeOK, [Next]_vars PROVE TypeOK'
  OBVIOUS
<1> USE BackupAssumption DEF TypeOK, QueueTypeOK, Status, Control, Flags
<1>1. ASSUME NEW r \in Run, Trigger(r)
      PROVE  TypeOK'
  BY <1>1 DEF Trigger
<1>2. ASSUME NEW r \in Run, RowGoesStale(r)
      PROVE  TypeOK'
  <2>1. faults' \in 0 .. MaxFaults
    BY <1>2 DEF RowGoesStale, Fault
  <2>2. Flags' \subseteq BOOLEAN
    BY <1>2, Zenon DEF RowGoesStale
  <2> HIDE DEF Flags
  <2> QED
    BY <1>2, <2>1, <2>2 DEF RowGoesStale
<1>3. ASSUME NEW r \in Run, RecoverStale(r)
      PROVE  TypeOK'
  <2>1. recovered[r] + 1 \in 0 .. MaxRecoveries
    BY <1>3 DEF RecoverStale
  <2>2. recovered' \in [Run -> 0 .. MaxRecoveries]
    BY <1>3, <2>1 DEF RecoverStale
  <2>3. QueueTypeOK'
    BY <1>3 DEF RecoverStale, JobAdded
  <2> HIDE DEF QueueTypeOK
  <2> QED
    BY <1>3, <2>2, <2>3 DEF RecoverStale
<1>4. ASSUME CreateRun
      PROVE  TypeOK'
  BY <1>4 DEF CreateRun, JobAdded
<1>5. ASSUME CreateRunFails
      PROVE  TypeOK'
  BY <1>5 DEF CreateRunFails, Fault, ReleaseLock
<1>6. ASSUME TriggerCrash
      PROVE  TypeOK'
  BY <1>6 DEF TriggerCrash, Fault
<1>7. ASSUME LockExpires
      PROVE  TypeOK'
  <2>1. faults' \in 0 .. MaxFaults
    BY <1>7 DEF LockExpires, Fault
  <2>2. Flags' \subseteq BOOLEAN
    BY <1>7, Zenon DEF LockExpires
  <2> HIDE DEF Flags
  <2> QED
    BY <1>7, <2>1, <2>2 DEF LockExpires
<1>8. ASSUME StartDeletion
      PROVE  TypeOK'
  BY <1>8 DEF StartDeletion, Fault
<1>9. ASSUME DeleteObject
      PROVE  TypeOK'
  BY <1>9 DEF DeleteObject
<1>10. ASSUME DeletionFails
      PROVE  TypeOK'
  BY <1>10 DEF DeletionFails, Failure
<1>11. ASSUME DeleteSchedule
      PROVE  TypeOK'
  BY <1>11 DEF DeleteSchedule
<1>12. ASSUME NEW w \in Worker, Find(w)
      PROVE  TypeOK'
  BY <1>12 DEF Find, GoTo
<1>13. ASSUME NEW w \in Worker, FindSucceeded(w)
      PROVE  TypeOK'
  BY <1>13 DEF FindSucceeded, JobReturns, Leave
<1>14. ASSUME NEW w \in Worker, FindFails(w)
      PROVE  TypeOK'
  BY <1>14, BusyRun DEF FindFails, Fault, GoTo
<1>15. ASSUME NEW w \in Worker, Claim(w)
      PROVE  TypeOK'
  BY <1>15 DEF Claim
<1>16. ASSUME NEW w \in Worker, ClaimRefused(w)
      PROVE  TypeOK'
  BY <1>16, BusyRun DEF ClaimRefused, Fault, GoTo
<1>17. ASSUME NEW w \in Worker, EnsureLock(w)
      PROVE  TypeOK'
  BY <1>17, BusyRun DEF EnsureLock, GoTo, LockEnsured
<1>18. ASSUME NEW w \in Worker, EnsureLockFails(w)
      PROVE  TypeOK'
  BY <1>18, BusyRun DEF EnsureLockFails, Fault, GoTo
<1>19. ASSUME NEW w \in Worker, Check(w)
      PROVE  TypeOK'
  BY <1>19 DEF Check, GoTo
<1>20. ASSUME NEW w \in Worker, CheckFails(w)
      PROVE  TypeOK'
  BY <1>20 DEF CheckFails, UpdateRun, Failure, Fault, GoTo
<1>21. ASSUME NEW w \in Worker, Dump(w)
      PROVE  TypeOK'
  BY <1>21, BusyRun DEF Dump
<1>22. ASSUME NEW w \in Worker, DumpFails(w)
      PROVE  TypeOK'
  BY <1>22 DEF DumpFails, Failure, GoTo
<1>23. ASSUME NEW w \in Worker, Store(w)
      PROVE  TypeOK'
  BY <1>23 DEF Store, UpdateRun, GoTo
<1>24. ASSUME NEW w \in Worker, StoreFails(w)
      PROVE  TypeOK'
  BY <1>24 DEF StoreFails, Fault, GoTo
<1>25. ASSUME NEW w \in Worker, Verify(w)
      PROVE  TypeOK'
  BY <1>25 DEF Verify, GoTo
<1>26. ASSUME NEW w \in Worker, VerifyFails(w)
      PROVE  TypeOK'
  BY <1>26 DEF VerifyFails, Failure, GoTo
<1>27. ASSUME NEW w \in Worker, List(w)
      PROVE  TypeOK'
  BY <1>27 DEF List, Expired
<1>28. ASSUME NEW w \in Worker, ListFails(w)
      PROVE  TypeOK'
  BY <1>28 DEF ListFails, Fault, GoTo
<1>29. ASSUME NEW w \in Worker, Prune(w)
      PROVE  TypeOK'
  BY <1>29 DEF Prune, GoTo
<1>30. ASSUME NEW w \in Worker, PruneFails(w)
      PROVE  TypeOK'
  BY <1>30 DEF PruneFails, Failure
<1>31. ASSUME NEW w \in Worker, Forget(w)
      PROVE  TypeOK'
  BY <1>31 DEF Forget, Fault
<1>32. ASSUME NEW w \in Worker, Pruned(w)
      PROVE  TypeOK'
  BY <1>32 DEF Pruned, GoTo
<1>33. ASSUME NEW w \in Worker, Release(w)
      PROVE  TypeOK'
  BY <1>33 DEF Release, ReleaseLock, JobReturns, Leave
<1>34. ASSUME NEW w \in Worker, ReleaseFails(w)
      PROVE  TypeOK'
  BY <1>34 DEF ReleaseFails, Fault, GoTo
<1>35. ASSUME NEW w \in Worker, Catch(w)
      PROVE  TypeOK'
  BY <1>35 DEF Catch, UpdateRun, Fault, GoTo
<1>36. ASSUME NEW w \in Worker, Throw(w)
      PROVE  TypeOK'
  BY <1>36 DEF Throw, ReleaseLock, Fault, JobThrows, FinalAttempt, Leave
<1>37. ASSUME NEW w \in Worker, Heartbeat(w)
      PROVE  TypeOK'
  BY <1>37 DEF Heartbeat
<1>38. ASSUME NEW w \in Worker, Crash(w)
      PROVE  TypeOK'
  BY <1>38, BusyRun DEF Crash, Fault, JobDropped, Leave
<1>39. ASSUME NEW w \in Worker, NEW j \in Job, Take(w, j)
      PROVE  TypeOK'
  <2>1. FinalAttempt(j) \in BOOLEAN
    BY DEF FinalAttempt
  <2>2. last' \in [Worker -> BOOLEAN]
    BY <1>39, <2>1 DEF Take
  <2>3. QueueTypeOK'
    BY <1>39 DEF Take, JobTaken
  <2>4. /\ job' \in [Worker -> Job \union {None}]
        /\ pc' \in [Worker -> Control]
        /\ \A v \in Worker : pc'[v] = "idle" <=> job'[v] = None
    <3>1. j # None
      BY DEF Job, Run
    <3> QED
      BY <1>39, <3>1 DEF Take
  <2> HIDE DEF QueueTypeOK, Control
  <2> QED
    BY <1>39, <2>2, <2>3, <2>4 DEF Take
<1>40. ASSUME NEW j \in Job, JobStalls(j)
      PROVE  TypeOK'
  <2>1. faults' \in 0 .. MaxFaults
    BY <1>40 DEF JobStalls, Fault
  <2>2. Flags' \subseteq BOOLEAN
    BY <1>40, Zenon DEF JobStalls
  <2>3. QueueTypeOK'
    BY <1>40 DEF JobStalls, JobFoundSilent
  <2> HIDE DEF Flags, QueueTypeOK
  <2> QED
    BY <1>40, <2>1, <2>2, <2>3 DEF JobStalls
<1>41. CASE UNCHANGED vars
  BY <1>41 DEF vars
<1> QED
  BY <1>1, <1>2, <1>3, <1>4, <1>5, <1>6, <1>7, <1>8, <1>9, <1>10, <1>11,
     <1>12, <1>13, <1>14, <1>15, <1>16, <1>17, <1>18, <1>19, <1>20, <1>21,
     <1>22, <1>23, <1>24, <1>25, <1>26, <1>27, <1>28, <1>29, <1>30, <1>31,
     <1>32, <1>33, <1>34, <1>35, <1>36, <1>37, <1>38, <1>39, <1>40, <1>41
  DEF Next, WorkerStep

\* Jobs are named by a run and a number.
LEMMA JobShape ==
  /\ None \notin Run /\ None \notin Job /\ None \notin Worker
  /\ \A j \in Job : j[1] \in Run /\ j[2] \in Nat
  BY BackupAssumption DEF Run, Job

\* Backups start in the invariant: there is no job and nobody works.
LEMMA InitInv == Init => BackupInv
  BY InitType, BackupAssumption
  DEF Init, QueueInit, BackupInv, NoJobBeforeRun, NoJobBeyondRecovery,
      HeldIsActive, BusyHoldsJob, WorkingHoldsLock, Working, Job

\* A job is delivered to one slot at a time, and while no run is recovered a
\* run has one job: two busy slots never work on the same run.
LEMMA OneSlotPerRun ==
  ASSUME BackupInv, Undisturbed,
         NEW v \in Worker, NEW w \in Worker,
         pc[v] # "idle", pc[w] # "idle", At(v) = At(w)
  PROVE  v = w
<1>1. /\ job[v] \in Job /\ jobState[job[v]] = "active"
      /\ job[w] \in Job /\ jobState[job[w]] = "active"
      /\ holder[job[v]] = v /\ holder[job[w]] = w
  BY BusyRun DEF BackupInv, BusyHoldsJob, Undisturbed
<1>2. job[v][2] = 0 /\ job[w][2] = 0
  BY <1>1, BackupAssumption
  DEF BackupInv, NoJobBeyondRecovery, Undisturbed, Job, Run
<1>3. job[v] = job[w]
  BY <1>1, <1>2 DEF At, Job
<1> QED
  BY <1>1, <1>3

\* A slot that ends its job, by returning or throwing, takes no lock from
\* another slot.
LEMMA LeavingKeepsLocks ==
  ASSUME BackupInv, NEW w \in Worker, pc[w] # "idle",
         JobReturns(w, job[w]) \/ JobThrows(w, job[w]), Leave(w),
         UNCHANGED frozen
  PROVE  BusyHoldsJob'
<1> SUFFICES ASSUME ~frozen, NEW v \in Worker, pc'[v] # "idle"
             PROVE  jobState'[job'[v]] = "active" /\ holder'[job'[v]] = v
  BY DEF BusyHoldsJob
<1>1. v # w /\ pc'[v] = pc[v] /\ job'[v] = job[v]
  BY DEF BackupInv, TypeOK, Leave
<1>2. /\ job[v] \in Job /\ jobState[job[v]] = "active"
      /\ holder[job[v]] = v /\ holder[job[w]] = w /\ job[w] \in Job
  BY <1>1, BusyRun DEF BackupInv, BusyHoldsJob
<1>3. job[v] # job[w]
  BY <1>1, <1>2
<1> QED
  BY <1>1, <1>2, <1>3 DEF BackupInv, TypeOK, QueueTypeOK, JobReturns, JobThrows

\* Every step keeps jobs and runs together: jobs appear with their run or its
\* recovery, and a busy slot keeps its job's lock unless it is suspended.
LEMMA NextJobs ==
  BackupInv /\ [Next]_vars =>
    (/\ NoJobBeforeRun /\ NoJobBeyondRecovery
     /\ HeldIsActive /\ BusyHoldsJob)'
<1> DEFINE Jobs == /\ NoJobBeforeRun /\ NoJobBeyondRecovery
                   /\ HeldIsActive /\ BusyHoldsJob
<1> SUFFICES ASSUME BackupInv, [Next]_vars PROVE Jobs'
  OBVIOUS
<1> USE JobShape, BusyRun
    DEF BackupInv, NoJobBeforeRun, NoJobBeyondRecovery, HeldIsActive,
        BusyHoldsJob, TypeOK, QueueTypeOK, RowExists
<1>1. ASSUME NEW r \in Run, Trigger(r)
      PROVE  Jobs'
  BY <1>1 DEF Trigger
<1>2. ASSUME NEW r \in Run, RowGoesStale(r)
      PROVE  Jobs'
  BY <1>2 DEF RowGoesStale, Fault
<1>3. ASSUME NEW r \in Run, RecoverStale(r)
      PROVE  Jobs'
  BY <1>3 DEF RecoverStale, JobAdded
<1>4. ASSUME CreateRun
      PROVE  Jobs'
  BY <1>4 DEF CreateRun, JobAdded
<1>5. ASSUME CreateRunFails
      PROVE  Jobs'
  BY <1>5 DEF CreateRunFails, Fault, ReleaseLock
<1>6. ASSUME TriggerCrash
      PROVE  Jobs'
  BY <1>6 DEF TriggerCrash, Fault
<1>7. ASSUME LockExpires
      PROVE  Jobs'
  BY <1>7 DEF LockExpires, Fault
<1>8. ASSUME StartDeletion
      PROVE  Jobs'
  BY <1>8 DEF StartDeletion, Fault
<1>9. ASSUME DeleteObject
      PROVE  Jobs'
  BY <1>9 DEF DeleteObject
<1>10. ASSUME DeletionFails
      PROVE  Jobs'
  BY <1>10 DEF DeletionFails, Failure
<1>11. ASSUME DeleteSchedule
      PROVE  Jobs'
  BY <1>11 DEF DeleteSchedule
<1>12. ASSUME NEW w \in Worker, Find(w)
      PROVE  Jobs'
  BY <1>12 DEF Find, GoTo
<1>13. ASSUME NEW w \in Worker, FindSucceeded(w)
      PROVE  Jobs'
  <2>1. BusyHoldsJob'
    BY <1>13, LeavingKeepsLocks DEF FindSucceeded
  <2>2. (NoJobBeforeRun /\ NoJobBeyondRecovery /\ HeldIsActive)'
    <3>1. job[w] \in Job /\ UNCHANGED <<status, trigger, recovered>>
      BY <1>13 DEF FindSucceeded
    <3>2. JobReturns(w, job[w])
      BY <1>13 DEF FindSucceeded
    <3> QED
      BY <3>1, <3>2 DEF JobReturns
  <2> QED
    BY <2>1, <2>2
<1>14. ASSUME NEW w \in Worker, FindFails(w)
      PROVE  Jobs'
  BY <1>14 DEF FindFails, Fault, GoTo
<1>15. ASSUME NEW w \in Worker, Claim(w)
      PROVE  Jobs'
  BY <1>15 DEF Claim, Claimable
<1>16. ASSUME NEW w \in Worker, ClaimRefused(w)
      PROVE  Jobs'
  BY <1>16 DEF ClaimRefused, Fault, GoTo
<1>17. ASSUME NEW w \in Worker, EnsureLock(w)
      PROVE  Jobs'
  BY <1>17 DEF EnsureLock, GoTo, LockEnsured
<1>18. ASSUME NEW w \in Worker, EnsureLockFails(w)
      PROVE  Jobs'
  BY <1>18 DEF EnsureLockFails, Fault, GoTo
<1>19. ASSUME NEW w \in Worker, Check(w)
      PROVE  Jobs'
  BY <1>19 DEF Check, GoTo
<1>20. ASSUME NEW w \in Worker, CheckFails(w)
      PROVE  Jobs'
  BY <1>20 DEF CheckFails, UpdateRun, Failure, Fault, GoTo
<1>21. ASSUME NEW w \in Worker, Dump(w)
      PROVE  Jobs'
  BY <1>21 DEF Dump
<1>22. ASSUME NEW w \in Worker, DumpFails(w)
      PROVE  Jobs'
  BY <1>22 DEF DumpFails, Failure, GoTo
<1>23. ASSUME NEW w \in Worker, Store(w)
      PROVE  Jobs'
  BY <1>23 DEF Store, UpdateRun, GoTo
<1>24. ASSUME NEW w \in Worker, StoreFails(w)
      PROVE  Jobs'
  BY <1>24 DEF StoreFails, Fault, GoTo
<1>25. ASSUME NEW w \in Worker, Verify(w)
      PROVE  Jobs'
  BY <1>25 DEF Verify, GoTo
<1>26. ASSUME NEW w \in Worker, VerifyFails(w)
      PROVE  Jobs'
  BY <1>26 DEF VerifyFails, Failure, GoTo
<1>27. ASSUME NEW w \in Worker, List(w)
      PROVE  Jobs'
  BY <1>27 DEF List, Expired
<1>28. ASSUME NEW w \in Worker, ListFails(w)
      PROVE  Jobs'
  BY <1>28 DEF ListFails, Fault, GoTo
<1>29. ASSUME NEW w \in Worker, Prune(w)
      PROVE  Jobs'
  BY <1>29 DEF Prune, GoTo
<1>30. ASSUME NEW w \in Worker, PruneFails(w)
      PROVE  Jobs'
  BY <1>30 DEF PruneFails, Failure
<1>31. ASSUME NEW w \in Worker, Forget(w)
      PROVE  Jobs'
  BY <1>31 DEF Forget, Fault
<1>32. ASSUME NEW w \in Worker, Pruned(w)
      PROVE  Jobs'
  BY <1>32 DEF Pruned, GoTo
<1>33. ASSUME NEW w \in Worker, Release(w)
      PROVE  Jobs'
  <2>1. BusyHoldsJob'
    BY <1>33, LeavingKeepsLocks DEF Release
  <2>2. (NoJobBeforeRun /\ NoJobBeyondRecovery /\ HeldIsActive)'
    BY <1>33 DEF Release, JobReturns
  <2> QED
    BY <2>1, <2>2
<1>34. ASSUME NEW w \in Worker, ReleaseFails(w)
      PROVE  Jobs'
  BY <1>34 DEF ReleaseFails, Fault, GoTo
<1>35. ASSUME NEW w \in Worker, Catch(w)
      PROVE  Jobs'
  BY <1>35 DEF Catch, UpdateRun, Fault, GoTo
<1>36. ASSUME NEW w \in Worker, Throw(w)
      PROVE  Jobs'
  <2>1. BusyHoldsJob'
    BY <1>36, LeavingKeepsLocks DEF Throw
  <2>2. (NoJobBeforeRun /\ NoJobBeyondRecovery /\ HeldIsActive)'
    BY <1>36 DEF Throw, JobThrows, FinalAttempt
  <2> QED
    BY <2>1, <2>2
<1>37. ASSUME NEW w \in Worker, Heartbeat(w)
      PROVE  Jobs'
  BY <1>37 DEF Heartbeat
<1>38. ASSUME NEW w \in Worker, Crash(w)
      PROVE  Jobs'
  BY <1>38 DEF Crash, Fault, JobDropped, Leave
<1>39. ASSUME NEW w \in Worker, NEW j \in Job, Take(w, j)
      PROVE  Jobs'
  BY <1>39 DEF Take, JobTaken
<1>40. ASSUME NEW j \in Job, JobStalls(j)
      PROVE  Jobs'
  <2>1. (NoJobBeforeRun /\ NoJobBeyondRecovery /\ HeldIsActive)'
    BY <1>40 DEF JobStalls, JobFoundSilent
  <2>2. CASE holder[j] = None
    BY <1>40, <2>1, <2>2 DEF JobStalls, JobFoundSilent
  <2>3. CASE holder[j] # None
    BY <1>40, <2>1, <2>3 DEF JobStalls, JobFoundSilent
  <2> QED
    BY <2>2, <2>3
<1>41. CASE UNCHANGED vars
  BY <1>41 DEF vars
<1> QED
  BY <1>1, <1>2, <1>3, <1>4, <1>5, <1>6, <1>7, <1>8, <1>9, <1>10, <1>11,
     <1>12, <1>13, <1>14, <1>15, <1>16, <1>17, <1>18, <1>19, <1>20, <1>21,
     <1>22, <1>23, <1>24, <1>25, <1>26, <1>27, <1>28, <1>29, <1>30, <1>31,
     <1>32, <1>33, <1>34, <1>35, <1>36, <1>37, <1>38, <1>39, <1>40, <1>41
  DEF Next, WorkerStep

\* Every step keeps the schedule's lock with the run that is being worked on:
\* whoever gives it back or lets it expire is not working, or works alone.
LEMMA NextLock ==
  BackupInv /\ [Next]_vars => WorkingHoldsLock'
<1> SUFFICES ASSUME BackupInv, [Next]_vars, Undisturbed' PROVE
       \A w \in Worker : pc'[w] \in Working => lock' = At(w)'
  BY DEF WorkingHoldsLock
<1> DEFINE Held == \A v \in Worker : pc'[v] \in Working => lock' = At(v)'
<1> USE JobShape, BusyRun, OneSlotPerRun
    DEF BackupInv, WorkingHoldsLock, Undisturbed, TypeOK, At, Working
<1>1. ASSUME NEW r \in Run, Trigger(r)
      PROVE  Held
  BY <1>1 DEF Trigger
<1>2. ASSUME NEW r \in Run, RowGoesStale(r)
      PROVE  Held
  BY <1>2 DEF RowGoesStale, Fault
<1>3. ASSUME NEW r \in Run, RecoverStale(r)
      PROVE  Held
  BY <1>3 DEF RecoverStale
<1>4. ASSUME CreateRun
      PROVE  Held
  BY <1>4 DEF CreateRun
<1>5. ASSUME CreateRunFails
      PROVE  Held
  <2>1. \A v \in Worker : pc[v] # "idle" => At(v) # trigger
    BY <1>5
    DEF CreateRunFails, BusyHoldsJob, NoJobBeforeRun
  <2> QED
    BY <1>5, <2>1 DEF CreateRunFails, ReleaseLock
<1>6. ASSUME TriggerCrash
      PROVE  Held
  BY <1>6 DEF TriggerCrash, Fault
<1>7. ASSUME LockExpires
      PROVE  Held
  <2>1. ~Attended(lock)
    BY <1>7 DEF LockExpires
  <2>2. \A v \in Worker : pc[v] \notin Working
    BY <1>7, <2>1 DEF LockExpires, Attended
  <2> QED
    BY <1>7, <2>2 DEF LockExpires
<1>8. ASSUME StartDeletion
      PROVE  Held
  BY <1>8 DEF StartDeletion, Fault
<1>9. ASSUME DeleteObject
      PROVE  Held
  BY <1>9 DEF DeleteObject
<1>10. ASSUME DeletionFails
      PROVE  Held
  BY <1>10 DEF DeletionFails, Failure
<1>11. ASSUME DeleteSchedule
      PROVE  Held
  BY <1>11 DEF DeleteSchedule
<1>12. ASSUME NEW w \in Worker, Find(w)
      PROVE  Held
  BY <1>12 DEF Find, GoTo
<1>13. ASSUME NEW w \in Worker, FindSucceeded(w)
      PROVE  Held
  BY <1>13 DEF FindSucceeded, Leave
<1>14. ASSUME NEW w \in Worker, FindFails(w)
      PROVE  Held
  BY <1>14 DEF FindFails, Fault, GoTo
<1>15. ASSUME NEW w \in Worker, Claim(w)
      PROVE  Held
  BY <1>15 DEF Claim
<1>16. ASSUME NEW w \in Worker, ClaimRefused(w)
      PROVE  Held
  BY <1>16 DEF ClaimRefused, Fault, GoTo
<1>17. ASSUME NEW w \in Worker, EnsureLock(w)
      PROVE  Held
  BY <1>17 DEF EnsureLock, GoTo, LockEnsured
<1>18. ASSUME NEW w \in Worker, EnsureLockFails(w)
      PROVE  Held
  BY <1>18 DEF EnsureLockFails, Fault, GoTo
<1>19. ASSUME NEW w \in Worker, Check(w)
      PROVE  Held
  BY <1>19 DEF Check, GoTo
<1>20. ASSUME NEW w \in Worker, CheckFails(w)
      PROVE  Held
  BY <1>20 DEF CheckFails, Failure, Fault, GoTo
<1>21. ASSUME NEW w \in Worker, Dump(w)
      PROVE  Held
  BY <1>21 DEF Dump
<1>22. ASSUME NEW w \in Worker, DumpFails(w)
      PROVE  Held
  BY <1>22 DEF DumpFails, Failure, GoTo
<1>23. ASSUME NEW w \in Worker, Store(w)
      PROVE  Held
  BY <1>23 DEF Store, GoTo
<1>24. ASSUME NEW w \in Worker, StoreFails(w)
      PROVE  Held
  BY <1>24 DEF StoreFails, Fault, GoTo
<1>25. ASSUME NEW w \in Worker, Verify(w)
      PROVE  Held
  BY <1>25 DEF Verify, GoTo
<1>26. ASSUME NEW w \in Worker, VerifyFails(w)
      PROVE  Held
  BY <1>26 DEF VerifyFails, Failure, GoTo
<1>27. ASSUME NEW w \in Worker, List(w)
      PROVE  Held
  BY <1>27 DEF List, Expired
<1>28. ASSUME NEW w \in Worker, ListFails(w)
      PROVE  Held
  BY <1>28 DEF ListFails, Fault, GoTo
<1>29. ASSUME NEW w \in Worker, Prune(w)
      PROVE  Held
  BY <1>29 DEF Prune, GoTo
<1>30. ASSUME NEW w \in Worker, PruneFails(w)
      PROVE  Held
  BY <1>30 DEF PruneFails, Failure
<1>31. ASSUME NEW w \in Worker, Forget(w)
      PROVE  Held
  BY <1>31 DEF Forget, Fault
<1>32. ASSUME NEW w \in Worker, Pruned(w)
      PROVE  Held
  BY <1>32 DEF Pruned, GoTo
<1>33. ASSUME NEW w \in Worker, Release(w)
      PROVE  Held
  BY <1>33 DEF Release, ReleaseLock, Leave
<1>34. ASSUME NEW w \in Worker, ReleaseFails(w)
      PROVE  Held
  BY <1>34 DEF ReleaseFails, Fault, GoTo
<1>35. ASSUME NEW w \in Worker, Catch(w)
      PROVE  Held
  BY <1>35 DEF Catch, Fault, GoTo
<1>36. ASSUME NEW w \in Worker, Throw(w)
      PROVE  Held
  BY <1>36 DEF Throw, ReleaseLock, Fault, Leave
<1>37. ASSUME NEW w \in Worker, Heartbeat(w)
      PROVE  Held
  BY <1>37 DEF Heartbeat
<1>38. ASSUME NEW w \in Worker, Crash(w)
      PROVE  Held
  BY <1>38 DEF Crash, Fault, Leave
<1>39. ASSUME NEW w \in Worker, NEW j \in Job, Take(w, j)
      PROVE  Held
  BY <1>39 DEF Take
<1>40. ASSUME NEW j \in Job, JobStalls(j)
      PROVE  Held
  BY <1>40 DEF JobStalls, Fault
<1>41. CASE UNCHANGED vars
  BY <1>41 DEF vars
<1> QED
  BY <1>1, <1>2, <1>3, <1>4, <1>5, <1>6, <1>7, <1>8, <1>9, <1>10, <1>11,
     <1>12, <1>13, <1>14, <1>15, <1>16, <1>17, <1>18, <1>19, <1>20, <1>21,
     <1>22, <1>23, <1>24, <1>25, <1>26, <1>27, <1>28, <1>29, <1>30, <1>31,
     <1>32, <1>33, <1>34, <1>35, <1>36, <1>37, <1>38, <1>39, <1>40, <1>41
  DEF Next, WorkerStep

\* BackupInv holds in every reachable state.
LEMMA Invariance == Spec => []BackupInv
<1>1. BackupInv /\ [Next]_vars => BackupInv'
  BY NextType, NextJobs, NextLock DEF BackupInv
<1> QED
  BY InitInv, <1>1, PTL DEF Spec

\* The variables of runs, jobs, workers and storage keep their types, and a
\* slot has a job exactly while it is busy.
THEOREM TypeCorrect == Spec => []TypeOK
<1>1. BackupInv => TypeOK
  BY DEF BackupInv
<1> QED
  BY Invariance, <1>1, PTL

\* The schedule's lock keeps backups apart for any number of workers, runs and
\* faults, as long as no process is suspended and no run recovered.
THEOREM BackupsApart == Spec => []OneBackupAtATime
<1>1. BackupInv => OneBackupAtATime
  <2> SUFFICES ASSUME BackupInv, Undisturbed,
                      NEW v \in Worker, NEW w \in Worker,
                      pc[v] \in Working, pc[w] \in Working
               PROVE  v = w
    BY DEF OneBackupAtATime, Undisturbed
  <2>1. At(v) = At(w)
    BY DEF BackupInv, WorkingHoldsLock
  <2> QED
    BY <2>1, OneSlotPerRun DEF Working
<1> QED
  BY Invariance, <1>1, PTL

-----------------------------------------------------------------------------
(* The lock of the schedule is given back.                                 *)

\* At first no run has anything left to do, and the lock is free.
LEMMA InitQuiet == Init => QuietInv
  BY JobShape
  DEF Init, QueueInit, QuietInv, Calm, ActiveIsHeld, LockServesLive, Live,
      RunningIsExecuted, PendingIsClaimable, KnowsItsRun, Working

\* Without a fault a busy slot is alone: the lock is its run's, nobody else is
\* busy, no other job waits, no other run is running or about to be created.
LEMMA BusyAlone ==
  ASSUME BackupInv, QuietInv, faults = 0, NEW w \in Worker, pc[w] # "idle"
  PROVE  /\ lock = At(w) /\ trigger = None
         /\ jobState[job[w]] = "active" /\ holder[job[w]] = w
         /\ \A v \in Worker : pc[v] # "idle" => v = w
         /\ \A j \in Job : jobState[j] \in {"pending", "active"} => j = job[w]
         /\ \A r \in Run : status[r] = "running" => r = At(w)
<1>1. Undisturbed
  BY DEF QuietInv, Calm, Undisturbed
<1>2. /\ job[w] \in Job /\ At(w) \in Run
      /\ jobState[job[w]] = "active" /\ holder[job[w]] = w
  BY <1>1, BusyRun DEF BackupInv, BusyHoldsJob, Undisturbed
<1>3. \A r \in Run : Live(r) => lock = r
  BY DEF QuietInv, LockServesLive
<1>4. lock = At(w)
  BY <1>2, <1>3 DEF Live, At
<1>5. \A r \in Run : Live(r) => r = At(w)
  BY <1>3, <1>4
<1>6. \A v \in Worker : pc[v] # "idle" => v = w
  BY <1>1, <1>4, <1>3, BusyRun, OneSlotPerRun
  DEF BackupInv, BusyHoldsJob, Undisturbed, Live, At
<1>7. \A j \in Job : jobState[j] \in {"pending", "active"} => j = job[w]
  <2> SUFFICES ASSUME NEW j \in Job, jobState[j] \in {"pending", "active"}
               PROVE  j = job[w]
    OBVIOUS
  <2>1. j[1] = At(w)
    BY <1>5, JobShape DEF Live
  <2>2. j[2] = 0 /\ job[w][2] = 0
    BY <1>1, <1>2, BackupAssumption
    DEF BackupInv, NoJobBeyondRecovery, Undisturbed, Job, Run
  <2> QED
    BY <1>2, <2>1, <2>2 DEF At, Job
<1>8. trigger = None
  <2> SUFFICES ASSUME trigger \in Run PROVE FALSE
    BY DEF BackupInv, TypeOK
  <2>1. trigger = At(w)
    BY <1>5 DEF Live
  <2> QED
    BY <1>2, <2>1 DEF BackupInv, NoJobBeforeRun, At
<1>9. \A r \in Run : status[r] = "running" => r = At(w)
  BY <1>5 DEF Live
<1> QED
  BY <1>2, <1>4, <1>6, <1>7, <1>8, <1>9

\* Until a fault happens every step keeps the schedule quiet: the lock passes
\* from the trigger to the run it created, stays with the run over its retries
\* and is given back when the run is done, and nothing else touches it.
LEMMA NextQuiet == BackupInv /\ QuietInv /\ [Next]_vars => QuietInv'
<1> DEFINE Quiet == /\ Calm
                    /\ ActiveIsHeld
                    /\ LockServesLive
                    /\ RunningIsExecuted
                    /\ PendingIsClaimable
                    /\ \A w \in Worker : KnowsItsRun(w)
                    /\ lock # None => Live(lock)
<1> SUFFICES ASSUME BackupInv, QuietInv, [Next]_vars, faults' = 0
             PROVE  Quiet'
  BY DEF QuietInv
<1> USE JobShape, BusyRun, BusyAlone
    DEF BackupInv, TypeOK, QueueTypeOK, QuietInv, Calm, ActiveIsHeld, LockServesLive,
        RunningIsExecuted, PendingIsClaimable, KnowsItsRun, Live, At, Working,
        NoJobBeforeRun, NoJobBeyondRecovery, HeldIsActive, BusyHoldsJob, RowExists, FinalAttempt
<1>1. ASSUME NEW r \in Run, Trigger(r)
      PROVE  Quiet'
  BY <1>1 DEF Trigger
<1>2. ASSUME NEW r \in Run, RowGoesStale(r)
      PROVE  Quiet'
  <2>1. ~Attended(r)
    BY <1>2 DEF RowGoesStale, Fault
  <2>2. faults = 0 /\ status[r] = "running"
    BY <1>2 DEF RowGoesStale, Fault
  <2>3. PICK w \in Worker :
          pc[w] \in {"lock", "check", "dump", "store", "catch"} /\ At(w) = r
    BY <2>2
  <2> QED
    BY <2>1, <2>3 DEF Attended
<1>3. ASSUME NEW r \in Run, RecoverStale(r)
      PROVE  Quiet'
  BY <1>3 DEF RecoverStale, JobAdded
<1>4. ASSUME CreateRun
      PROVE  Quiet'
  <2>1. lock = trigger /\ trigger \in Run /\ lock' = lock
    BY <1>4 DEF CreateRun
  <2>2. <<trigger, 0>> \in Job /\ jobState'[<<trigger, 0>>] = "pending"
    BY <1>4, <2>1, BackupAssumption DEF CreateRun, JobAdded, Job
  <2>3. (Calm /\ ActiveIsHeld)'
    BY <1>4 DEF CreateRun, JobAdded
  <2>4. LockServesLive'
    BY <1>4 DEF CreateRun, JobAdded
  <2>5. (RunningIsExecuted /\ PendingIsClaimable)'
    BY <1>4 DEF CreateRun, JobAdded
  <2>6. \A v \in Worker : KnowsItsRun(v)'
    BY <1>4 DEF CreateRun, JobAdded
  <2>7. (lock # None => Live(lock))'
    BY <2>1, <2>2
  <2> QED
    BY <2>3, <2>4, <2>5, <2>6, <2>7
<1>5. ASSUME CreateRunFails
      PROVE  Quiet'
  BY <1>5 DEF CreateRunFails, Fault, ReleaseLock
<1>6. ASSUME TriggerCrash
      PROVE  Quiet'
  BY <1>6 DEF TriggerCrash, Fault
<1>7. ASSUME LockExpires
      PROVE  Quiet'
  BY <1>7 DEF LockExpires, Fault
<1>8. ASSUME StartDeletion
      PROVE  Quiet'
  BY <1>8 DEF StartDeletion, Fault
<1>9. ASSUME DeleteObject
      PROVE  Quiet'
  BY <1>9 DEF DeleteObject
<1>10. ASSUME DeletionFails
      PROVE  Quiet'
  BY <1>10 DEF DeletionFails, Failure
<1>11. ASSUME DeleteSchedule
      PROVE  Quiet'
  BY <1>11, BackupAssumption DEF DeleteSchedule
<1>12. ASSUME NEW w \in Worker, Find(w)
      PROVE  Quiet'
  BY <1>12 DEF Find, GoTo
<1>13. ASSUME NEW w \in Worker, FindSucceeded(w)
      PROVE  Quiet'
  BY <1>13 DEF FindSucceeded, JobReturns, Leave
<1>14. ASSUME NEW w \in Worker, FindFails(w)
      PROVE  Quiet'
  BY <1>14 DEF FindFails, Fault, GoTo
<1>15. ASSUME NEW w \in Worker, Claim(w)
      PROVE  Quiet'
  <2>1. (Calm /\ ActiveIsHeld)'
    BY <1>15 DEF Claim, Claimable
  <2>2. LockServesLive'
    BY <1>15 DEF Claim, Claimable
  <2>3. (RunningIsExecuted /\ PendingIsClaimable)'
    BY <1>15 DEF Claim, Claimable
  <2>4. \A v \in Worker : KnowsItsRun(v)'
    BY <1>15 DEF Claim, Claimable
  <2>5. (lock # None => Live(lock))'
    BY <1>15 DEF Claim, Claimable
  <2> QED
    BY <2>1, <2>2, <2>3, <2>4, <2>5
<1>16. ASSUME NEW w \in Worker, ClaimRefused(w)
      PROVE  Quiet'
  BY <1>16 DEF ClaimRefused, Claimable, Fault, GoTo
<1>17. ASSUME NEW w \in Worker, EnsureLock(w)
      PROVE  Quiet'
  BY <1>17 DEF EnsureLock, GoTo, LockEnsured
<1>18. ASSUME NEW w \in Worker, EnsureLockFails(w)
      PROVE  Quiet'
  BY <1>18 DEF EnsureLockFails, LockEnsured, Fault, GoTo
<1>19. ASSUME NEW w \in Worker, Check(w)
      PROVE  Quiet'
  BY <1>19 DEF Check, GoTo
<1>20. ASSUME NEW w \in Worker, CheckFails(w)
      PROVE  Quiet'
  <2>1. (Calm /\ ActiveIsHeld)'
    BY <1>20 DEF CheckFails, UpdateRun, Failure, Fault, GoTo
  <2>2. LockServesLive'
    BY <1>20 DEF CheckFails, UpdateRun, Failure, Fault, GoTo
  <2>3. (RunningIsExecuted /\ PendingIsClaimable)'
    BY <1>20 DEF CheckFails, UpdateRun, Failure, Fault, GoTo
  <2>4. \A v \in Worker : KnowsItsRun(v)'
    BY <1>20 DEF CheckFails, UpdateRun, Failure, Fault, GoTo
  <2>5. (lock # None => Live(lock))'
    BY <1>20 DEF CheckFails, UpdateRun, Failure, Fault, GoTo
  <2> QED
    BY <2>1, <2>2, <2>3, <2>4, <2>5
<1>21. ASSUME NEW w \in Worker, Dump(w)
      PROVE  Quiet'
  BY <1>21 DEF Dump
<1>22. ASSUME NEW w \in Worker, DumpFails(w)
      PROVE  Quiet'
  BY <1>22 DEF DumpFails, Failure, GoTo
<1>23. ASSUME NEW w \in Worker, Store(w)
      PROVE  Quiet'
  BY <1>23 DEF Store, UpdateRun, GoTo
<1>24. ASSUME NEW w \in Worker, StoreFails(w)
      PROVE  Quiet'
  BY <1>24 DEF StoreFails, Fault, GoTo
<1>25. ASSUME NEW w \in Worker, Verify(w)
      PROVE  Quiet'
  BY <1>25 DEF Verify, GoTo
<1>26. ASSUME NEW w \in Worker, VerifyFails(w)
      PROVE  Quiet'
  BY <1>26 DEF VerifyFails, Failure, GoTo
<1>27. ASSUME NEW w \in Worker, List(w)
      PROVE  Quiet'
  BY <1>27 DEF List, Expired
<1>28. ASSUME NEW w \in Worker, ListFails(w)
      PROVE  Quiet'
  BY <1>28 DEF ListFails, Fault, GoTo
<1>29. ASSUME NEW w \in Worker, Prune(w)
      PROVE  Quiet'
  BY <1>29 DEF Prune, GoTo
<1>30. ASSUME NEW w \in Worker, PruneFails(w)
      PROVE  Quiet'
  BY <1>30 DEF PruneFails, Failure
<1>31. ASSUME NEW w \in Worker, Forget(w)
      PROVE  Quiet'
  <2>1. (Calm /\ ActiveIsHeld)'
    BY <1>31 DEF Forget, Fault
  <2>2. LockServesLive'
    BY <1>31 DEF Forget, Fault
  <2>3. (RunningIsExecuted /\ PendingIsClaimable)'
    BY <1>31 DEF Forget, Fault
  <2>4. \A v \in Worker : KnowsItsRun(v)'
    BY <1>31 DEF Forget, Fault
  <2>5. (lock # None => Live(lock))'
    BY <1>31 DEF Forget, Fault
  <2> QED
    BY <2>1, <2>2, <2>3, <2>4, <2>5
<1>32. ASSUME NEW w \in Worker, Pruned(w)
      PROVE  Quiet'
  BY <1>32 DEF Pruned, GoTo
<1>33. ASSUME NEW w \in Worker, Release(w)
      PROVE  Quiet'
  <2>1. \A j \in Job : jobState'[j] \notin {"pending", "active"}
    BY <1>33 DEF Release, JobReturns
  <2>2. \A r \in Run : ~Live(r)'
    BY <1>33, <2>1 DEF Release
  <2>3. (Calm /\ ActiveIsHeld)'
    BY <1>33, <2>1 DEF Release
  <2>4. LockServesLive'
    BY <2>2
  <2>5. (RunningIsExecuted /\ PendingIsClaimable)'
    BY <1>33 DEF Release, ReleaseLock, JobReturns, Leave
  <2>6. \A v \in Worker : KnowsItsRun(v)'
    BY <1>33 DEF Release, ReleaseLock, JobReturns, Leave
  <2>7. (lock # None => Live(lock))'
    BY <1>33 DEF Release, ReleaseLock, JobReturns, Leave
  <2> QED
    BY <2>3, <2>4, <2>5, <2>6, <2>7
<1>34. ASSUME NEW w \in Worker, ReleaseFails(w)
      PROVE  Quiet'
  BY <1>34 DEF ReleaseFails, Fault, GoTo
<1>35. ASSUME NEW w \in Worker, Catch(w)
      PROVE  Quiet'
  BY <1>35 DEF Catch, UpdateRun, Fault, GoTo
<1>36. ASSUME NEW w \in Worker, Throw(w)
      PROVE  Quiet'
  <2>1. faults = 0 /\ job[w] \in Job /\ holder[job[w]] = w
    BY <1>36 DEF Throw, Fault
  <2>2. \A j \in Job : jobState[j] = "active" => j = job[w]
    BY <1>36, <2>1 DEF Throw
  <2>3. \A j \in Job : jobState'[j] # "active"
    BY <1>36, <2>1, <2>2 DEF Throw, JobThrows
  <2>4. (Calm /\ ActiveIsHeld)'
    BY <1>36, <2>3 DEF Throw, Fault
  <2>5. LockServesLive'
    BY <1>36 DEF Throw, ReleaseLock, Fault, JobThrows, Leave
  <2>6. (RunningIsExecuted /\ PendingIsClaimable)'
    BY <1>36 DEF Throw, ReleaseLock, Fault, JobThrows, Leave
  <2>7. \A v \in Worker : KnowsItsRun(v)'
    BY <1>36 DEF Throw, ReleaseLock, Fault, JobThrows, Leave
  <2>8. (lock # None => Live(lock))'
    BY <1>36 DEF Throw, ReleaseLock, Fault, JobThrows, Leave
  <2> QED
    BY <2>4, <2>5, <2>6, <2>7, <2>8
<1>37. ASSUME NEW w \in Worker, Heartbeat(w)
      PROVE  Quiet'
  BY <1>37 DEF Heartbeat
<1>38. ASSUME NEW w \in Worker, Crash(w)
      PROVE  Quiet'
  BY <1>38 DEF Crash, Fault, JobDropped, Leave
<1>39. ASSUME NEW w \in Worker, NEW j \in Job, Take(w, j)
      PROVE  Quiet'
  BY <1>39 DEF Take, JobTaken
<1>40. ASSUME NEW j \in Job, JobStalls(j)
      PROVE  Quiet'
  BY <1>40 DEF JobStalls, Fault, JobFoundSilent
<1>41. CASE UNCHANGED vars
  BY <1>41 DEF vars
<1> QED
  BY <1>1, <1>2, <1>3, <1>4, <1>5, <1>6, <1>7, <1>8, <1>9, <1>10, <1>11,
     <1>12, <1>13, <1>14, <1>15, <1>16, <1>17, <1>18, <1>19, <1>20,
     <1>21, <1>22, <1>23, <1>24, <1>25, <1>26, <1>27, <1>28, <1>29,
     <1>30, <1>31, <1>32, <1>33, <1>34, <1>35, <1>36, <1>37, <1>38,
     <1>39, <1>40, <1>41
  DEF Next, WorkerStep

\* Without faults the schedule's lock is free unless some run has something
\* left to do: an execution that ends for good gives the lock back.
THEOREM FinishedRunsFreeLock == Spec => []FinishedRunFreesLock
<1>1. QuietInv => FinishedRunFreesLock
  BY DEF QuietInv, FinishedRunFreesLock
<1> QED
  BY Invariance, InitQuiet, NextQuiet, <1>1, PTL DEF Spec
=============================================================================
