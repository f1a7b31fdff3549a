---------------------------- MODULE SolQueueProofs ----------------------------
(***************************************************************************)
(* Proofs, for every value of the constants, of the safety properties that *)
(* the runs check on small instances.                                      *)
(***************************************************************************)
EXTENDS SolQueueRefinement, SumTheorems

-----------------------------------------------------------------------------
(* Type correctness.                                                       *)

\* The limit a new job gets is a u8, whether the caller or the queue sets it.
LEMMA RetryLimitType ==
  ASSUME TypeOK, NEW o \in RetryOverrides
  PROVE  RetryLimit(o) \in 0..U8Max
BY U8Assumption DEF TypeOK, QueueConfig, RetryLimit

\* The account enqueue_job writes is a well-formed job.
LEMMA NewJobType ==
  ASSUME TypeOK, NEW k \in Keys, NEW p \in Priorities, NEW o \in RetryOverrides
  PROVE  NewJob(k, p, o) \in Job
<1>1. RetryLimit(o) \in 0..U8Max
  BY RetryLimitType
<1>2. p \in Nat /\ queue.next_job_seq \in Nat /\ now \in Nat
  BY ArgsAssumption DEF TypeOK, QueueConfig
<1>3. 0 \in 0..U8Max
  BY U8Assumption
<1> QED
  BY <1>1, <1>2, <1>3 DEF NewJob, Job, JobStatus, ResultKinds

LEMMA NoJobType == NoJob \in Job
BY U8Assumption DEF NoJob, Job, JobStatus, ResultKinds

\* The updates the instructions make to a well-formed account.
LEMMA ClaimedType ==
  ASSUME now \in Nat, NEW j \in Job, NEW k \in Keys
  PROVE  Claimed(j, k) \in Job
BY DEF Claimed, Job, JobStatus

LEMMA CompletedType ==
  ASSUME NEW j \in Job, NEW t \in Nat
  PROVE  [j EXCEPT !.status = "Completed", !.completed_at = t,
                   !.result = "result"] \in Job
BY DEF Job, JobStatus, ResultKinds

LEMMA FailureCountedType ==
  ASSUME NEW j \in Job, j.retry_count + 1 <= U8Max
  PROVE  [j EXCEPT !.retry_count = @ + 1, !.result = "reason"] \in Job
<1>1. j.retry_count + 1 \in 0..U8Max
  BY U8Assumption DEF Job
<1> QED
  BY <1>1 DEF Job, ResultKinds

LEMMA FailedType ==
  ASSUME NEW j \in Job, NEW t \in Nat
  PROVE  [j EXCEPT !.status = "Failed", !.completed_at = t] \in Job
BY DEF Job, JobStatus

LEMMA RequeuedType ==
  ASSUME NEW j \in Job
  PROVE  /\ Requeued(j) \in Job
         /\ [Requeued(j) EXCEPT !.result = "expiry note"] \in Job
<1>1. Requeued(j) \in Job
  BY DEF Job, JobStatus, Requeued
<1> QED
  BY <1>1 DEF Job, ResultKinds

LEMMA EnqueuedOnType ==
  ASSUME NEW q \in QueueConfig
  PROVE  EnqueuedOn(q) \in QueueConfig
<1>1. q.next_job_seq + 1 \in Nat /\ q.total_enqueued + 1 \in Nat
  BY DEF QueueConfig
<1> QED
  BY <1>1 DEF EnqueuedOn, QueueConfig

LEMMA InitTypeOK == Init => TypeOK
BY U8Assumption
   DEF Init, TypeOK, NoQueue, NoJob, NoWorker, QueueConfig, Job, WorkerRegistry,
       JobStatus, ResultKinds

LEMMA NextTypeOK == TypeOK /\ [Next]_vars => TypeOK'
<1> SUFFICES ASSUME TypeOK, [Next]_vars PROVE TypeOK'
  OBVIOUS
<1> USE DEF TypeOK
<1>1. ASSUME NEW k \in Keys, NEW r \in MaxRetriesArgs, NEW t \in Timeouts,
             InitializeQueue(k, r, t)
      PROVE  TypeOK'
  BY <1>1, ArgsAssumption, U8Assumption DEF InitializeQueue, NoQueue, QueueConfig
<1>2. ASSUME NEW k \in Keys, NEW p \in BOOLEAN, SetQueuePaused(k, p)
      PROVE  TypeOK'
  BY <1>2 DEF SetQueuePaused, QueueConfig
<1>3. ASSUME NEW k \in Keys, NEW w \in Keys, RegisterWorker(k, w)
      PROVE  TypeOK'
  BY <1>3 DEF RegisterWorker, NoWorker, WorkerRegistry
<1>4. ASSUME NEW k \in Keys, NEW w \in Keys, DeactivateWorker(k, w)
      PROVE  TypeOK'
  BY <1>4 DEF DeactivateWorker, WorkerRegistry
<1>5. ASSUME NEW k \in Keys, NEW s \in SeqArgs, NEW p \in Priorities,
             NEW o \in RetryOverrides, EnqueueJob(k, s, p, o)
      PROVE  TypeOK'
  BY <1>5, NewJobType, EnqueuedOnType DEF EnqueueJob
<1>6. ASSUME NEW k \in Keys, NEW s \in SeqArgs, ClaimJob(k, s)
      PROVE  TypeOK'
  <2>1. registry' \in [Keys -> WorkerRegistry]
    BY <1>6 DEF ClaimJob, WorkerRegistry
  <2> QED
    BY <1>6, <2>1, ClaimedType DEF ClaimJob
<1>7. ASSUME NEW k \in Keys, NEW s \in SeqArgs, CompleteJob(k, s)
      PROVE  TypeOK'
  <2>1. registry' \in [Keys -> WorkerRegistry] /\ queue' \in QueueConfig
    BY <1>7 DEF CompleteJob, WorkerRegistry, QueueConfig
  <2> QED
    BY <1>7, <2>1, CompletedType DEF CompleteJob
<1>8. ASSUME NEW k \in Keys, NEW s \in SeqArgs, FailJob(k, s)
      PROVE  TypeOK'
  <2> DEFINE failed == [job[s] EXCEPT !.retry_count = @ + 1, !.result = "reason"]
  <2>1. job[s].retry_count + 1 <= U8Max
    BY <1>8 DEF FailJob, Job
  <2>2. failed \in Job
    BY <2>1, FailureCountedType
  <2> HIDE DEF failed
  <2>3. job' = [job EXCEPT ![s] = Requeued(failed)]
        \/ job' = [job EXCEPT ![s] = [failed EXCEPT !.status = "Failed", !.completed_at = now]]
    BY <1>8 DEF FailJob, failed
  <2>4. job' \in [SeqArgs -> Job]
    BY <2>2, <2>3, RequeuedType, FailedType
  <2>5. registry' \in [Keys -> WorkerRegistry] /\ queue' \in QueueConfig
    BY <1>8 DEF FailJob, WorkerRegistry, QueueConfig
  <2> QED
    BY <1>8, <2>4, <2>5 DEF FailJob
<1>9. ASSUME NEW s \in SeqArgs, ExpireJob(s)
      PROVE  TypeOK'
  BY <1>9, RequeuedType DEF ExpireJob
<1>10. ASSUME NEW k \in Keys, NEW s \in SeqArgs, CloseJob(k, s)
       PROVE  TypeOK'
  BY <1>10, NoJobType DEF CloseJob
<1>11. CASE Tick
  BY <1>11 DEF Tick
<1>12. CASE UNCHANGED vars
  BY <1>12 DEF vars
<1> QED
  BY <1>1, <1>2, <1>3, <1>4, <1>5, <1>6, <1>7, <1>8, <1>9, <1>10, <1>11, <1>12
     DEF Next

\* Every account field keeps its type: in particular retry_count, which the
\* code increments without a bound check of its own, always fits its u8.
THEOREM TypeCorrect == Spec => []TypeOK
<1>1. Init => TypeOK
  BY InitTypeOK
<1>2. TypeOK /\ [Next]_vars => TypeOK'
  BY NextTypeOK
<1> QED
  BY <1>1, <1>2, PTL DEF Spec

-----------------------------------------------------------------------------
\* What fail_job does to the accounts, field by field: the same failure is
\* counted whether the job is given up or goes back to Pending.
LEMMA FailJobEffect ==
  ASSUME TypeOK, NEW k \in Keys, NEW s \in SeqArgs, FailJob(k, s)
  PROVE  /\ HeldBy(s, k)
         /\ \A t \in SeqArgs \ {s} : job'[t] = job[t]
         /\ job'[s].seq = job[s].seq
         /\ job'[s].creator = job[s].creator
         /\ job'[s].priority = job[s].priority
         /\ job'[s].enqueued_at = job[s].enqueued_at
         /\ job'[s].max_retries = job[s].max_retries
         /\ job'[s].retry_count = job[s].retry_count + 1
         /\ \/ /\ job'[s].status = "Failed"
               /\ job'[s].retry_count > job[s].max_retries
               /\ job'[s].assigned_worker = job[s].assigned_worker
               /\ job'[s].started_at = job[s].started_at
               /\ job'[s].completed_at = now
               /\ queue' = [queue EXCEPT !.total_failed = @ + 1]
            \/ /\ job'[s].status = "Pending"
               /\ job'[s].retry_count <= job[s].max_retries
               /\ job'[s].assigned_worker = None
               /\ job'[s].started_at = None
               /\ job'[s].completed_at = job[s].completed_at
               /\ queue' = queue
<1> DEFINE failed == [job[s] EXCEPT !.retry_count = @ + 1, !.result = "reason"]
<1>1. /\ failed.retry_count = job[s].retry_count + 1
      /\ failed.max_retries = job[s].max_retries
      /\ failed.seq = job[s].seq
      /\ failed.creator = job[s].creator
      /\ failed.priority = job[s].priority
      /\ failed.enqueued_at = job[s].enqueued_at
      /\ failed.assigned_worker = job[s].assigned_worker
      /\ failed.started_at = job[s].started_at
      /\ failed.completed_at = job[s].completed_at
  BY DEF TypeOK, Job
<1>2. failed \in Job
  <2>1. job[s].retry_count + 1 <= U8Max
    BY <1>1 DEF FailJob
  <2> QED
    BY <2>1, FailureCountedType DEF TypeOK
<1>3. /\ HeldBy(s, k)
      /\ \/ /\ Exhausted(failed.retry_count, failed.max_retries)
            /\ job' = [job EXCEPT ![s] = [failed EXCEPT !.status = "Failed",
                                                        !.completed_at = now]]
            /\ queue' = [queue EXCEPT !.total_failed = @ + 1]
         \/ /\ ~Exhausted(failed.retry_count, failed.max_retries)
            /\ job' = [job EXCEPT ![s] = Requeued(failed)]
            /\ queue' = queue
  BY DEF FailJob
<1> HIDE DEF failed
<1>4. CASE Exhausted(failed.retry_count, failed.max_retries)
  <2>1. /\ job'[s] = [failed EXCEPT !.status = "Failed", !.completed_at = now]
        /\ \A t \in SeqArgs \ {s} : job'[t] = job[t]
    BY <1>3, <1>4 DEF TypeOK
  <2>2. /\ job'[s].status = "Failed"
        /\ job'[s].completed_at = now
        /\ job'[s].seq = failed.seq
        /\ job'[s].creator = failed.creator
        /\ job'[s].priority = failed.priority
        /\ job'[s].enqueued_at = failed.enqueued_at
        /\ job'[s].max_retries = failed.max_retries
        /\ job'[s].retry_count = failed.retry_count
        /\ job'[s].assigned_worker = failed.assigned_worker
        /\ job'[s].started_at = failed.started_at
    BY <1>2, <2>1 DEF Job
  <2> QED
    BY <1>1, <1>3, <1>4, <2>1, <2>2 DEF Exhausted
<1>5. CASE ~Exhausted(failed.retry_count, failed.max_retries)
  <2>1. /\ job'[s] = Requeued(failed)
        /\ \A t \in SeqArgs \ {s} : job'[t] = job[t]
    BY <1>3, <1>5 DEF TypeOK
  <2>2. /\ job'[s].status = "Pending"
        /\ job'[s].assigned_worker = None
        /\ job'[s].started_at = None
        /\ job'[s].seq = failed.seq
        /\ job'[s].creator = failed.creator
        /\ job'[s].priority = failed.priority
        /\ job'[s].enqueued_at = failed.enqueued_at
        /\ job'[s].max_retries = failed.max_retries
        /\ job'[s].retry_count = failed.retry_count
        /\ job'[s].completed_at = failed.completed_at
    BY <1>2, <2>1 DEF Job, Requeued
  <2>3. failed.retry_count \in Nat /\ failed.max_retries \in Nat
    BY <1>2, U8Assumption DEF Job
  <2> QED
    BY <1>1, <1>3, <1>5, <2>1, <2>2, <2>3 DEF Exhausted
<1> QED
  BY <1>4, <1>5

-----------------------------------------------------------------------------
(* The optional fields of a job.                                           *)

LEMMA InitStatusFields == Init => StatusFields
BY DEF Init, StatusFields, NoJob, Live

\* An action that changes neither the jobs nor what StatusFields reads of
\* the queue and the registry.
LEMMA StatusFieldsFrame ==
  ASSUME StatusFields, UNCHANGED job, queue.exists => queue'.exists,
         \A k \in Keys : registry[k].exists => registry'[k].exists
  PROVE  StatusFields'
BY DEF StatusFields, Live

LEMMA NextStatusFields == TypeOK /\ StatusFields /\ [Next]_vars => StatusFields'
<1> SUFFICES ASSUME TypeOK, StatusFields, [Next]_vars PROVE StatusFields'
  OBVIOUS
<1>1. ASSUME NEW k \in Keys, NEW r \in MaxRetriesArgs, NEW t \in Timeouts,
             InitializeQueue(k, r, t)
      PROVE  StatusFields'
  BY <1>1, StatusFieldsFrame DEF InitializeQueue, NoQueue
<1>2. ASSUME NEW k \in Keys, NEW p \in BOOLEAN, SetQueuePaused(k, p)
      PROVE  StatusFields'
  BY <1>2, StatusFieldsFrame DEF SetQueuePaused, TypeOK, QueueConfig
<1>3. ASSUME NEW k \in Keys, NEW w \in Keys, RegisterWorker(k, w)
      PROVE  StatusFields'
  BY <1>3, StatusFieldsFrame DEF RegisterWorker, NoWorker, TypeOK, WorkerRegistry
<1>4. ASSUME NEW k \in Keys, NEW w \in Keys, DeactivateWorker(k, w)
      PROVE  StatusFields'
  BY <1>4, StatusFieldsFrame DEF DeactivateWorker, TypeOK, WorkerRegistry
<1>5. ASSUME NEW k \in Keys, NEW s \in SeqArgs, NEW p \in Priorities,
             NEW o \in RetryOverrides, EnqueueJob(k, s, p, o)
      PROVE  StatusFields'
  <2>1. queue'.exists
    BY <1>5 DEF EnqueueJob, EnqueuedOn, TypeOK, QueueConfig
  <2> QED
    BY <1>5, <2>1 DEF EnqueueJob, NewJob, StatusFields, Live, TypeOK
<1>6. ASSUME NEW k \in Keys, NEW s \in SeqArgs, ClaimJob(k, s)
      PROVE  StatusFields'
  <2>1. \A w \in Keys : registry'[w].exists = registry[w].exists
    BY <1>6 DEF ClaimJob, TypeOK, WorkerRegistry
  <2> QED
    BY <1>6, <2>1
       DEF ClaimJob, Claimed, ActiveWorker, Claimable, StatusFields, Live, TypeOK, Job
<1>7. ASSUME NEW k \in Keys, NEW s \in SeqArgs, CompleteJob(k, s)
      PROVE  StatusFields'
  <2>1. /\ queue'.exists
        /\ \A w \in Keys : registry'[w].exists = registry[w].exists
    BY <1>7 DEF CompleteJob, TypeOK, QueueConfig, WorkerRegistry
  <2> QED
    BY <1>7, <2>1 DEF CompleteJob, HeldBy, StatusFields, Live, TypeOK, Job
<1>8. ASSUME NEW k \in Keys, NEW s \in SeqArgs, FailJob(k, s)
      PROVE  StatusFields'
  <2>1. /\ queue'.exists
        /\ \A w \in Keys : registry'[w].exists = registry[w].exists
    BY <1>8 DEF FailJob, TypeOK, QueueConfig, WorkerRegistry
  <2> QED
    BY <1>8, <2>1, FailJobEffect DEF HeldBy, StatusFields, Live, TypeOK
<1>9. ASSUME NEW s \in SeqArgs, ExpireJob(s)
      PROVE  StatusFields'
  BY <1>9 DEF ExpireJob, IsExpired, Requeued, StatusFields, Live, TypeOK, Job
<1>10. ASSUME NEW k \in Keys, NEW s \in SeqArgs, CloseJob(k, s)
       PROVE  StatusFields'
  BY <1>10 DEF CloseJob, NoJob, StatusFields, Live, TypeOK
<1>11. CASE Tick
  BY <1>11, StatusFieldsFrame DEF Tick
<1>12. CASE UNCHANGED vars
  BY <1>12, StatusFieldsFrame DEF vars
<1> QED
  BY <1>1, <1>2, <1>3, <1>4, <1>5, <1>6, <1>7, <1>8, <1>9, <1>10, <1>11, <1>12
     DEF Next

\* Every job's optional fields agree with its status: a Processing job has
\* a registered worker and a start, so is_expired never meets a missing
\* started_at and the fallbacks of complete_job and expire_job are dead code.
THEOREM StatusFieldsHold == Spec => []StatusFields
<1>1. TypeOK /\ StatusFields /\ [Next]_vars => StatusFields'
  BY NextStatusFields
<1> QED
  BY <1>1, InitStatusFields, TypeCorrect, PTL DEF Spec

-----------------------------------------------------------------------------
(* The retry budget.                                                       *)

LEMMA NextRetryBudget == TypeOK /\ RetryBudget /\ [Next]_vars => RetryBudget'
<1> SUFFICES ASSUME TypeOK, RetryBudget, [Next]_vars PROVE RetryBudget'
  OBVIOUS
<1>1. CASE UNCHANGED job
  BY <1>1 DEF RetryBudget
<1>2. ASSUME NEW k \in Keys, NEW s \in SeqArgs, NEW p \in Priorities,
             NEW o \in RetryOverrides, EnqueueJob(k, s, p, o)
      PROVE  RetryBudget'
  <2>1. /\ job'[s].retry_count = 0
        /\ job'[s].max_retries = RetryLimit(o)
        /\ job'[s].status = "Pending"
        /\ \A t \in SeqArgs \ {s} : job'[t] = job[t]
    BY <1>2 DEF EnqueueJob, NewJob, TypeOK
  <2>2. RetryLimit(o) \in Nat
    BY RetryLimitType, U8Assumption
  <2> QED
    BY <2>1, <2>2 DEF RetryBudget
<1>3. ASSUME NEW k \in Keys, NEW s \in SeqArgs, ClaimJob(k, s)
      PROVE  RetryBudget'
  BY <1>3 DEF ClaimJob, Claimed, Claimable, RetryBudget, TypeOK, Job
<1>4. ASSUME NEW k \in Keys, NEW s \in SeqArgs, CompleteJob(k, s)
      PROVE  RetryBudget'
  BY <1>4 DEF CompleteJob, HeldBy, RetryBudget, TypeOK, Job
<1>5. ASSUME NEW k \in Keys, NEW s \in SeqArgs, FailJob(k, s)
      PROVE  RetryBudget'
  <2>1. job[s].retry_count \in Nat /\ job[s].max_retries \in Nat
    BY U8Assumption DEF TypeOK, Job
  <2> QED
    BY <1>5, <2>1, FailJobEffect DEF HeldBy, RetryBudget
<1>6. ASSUME NEW s \in SeqArgs, ExpireJob(s)
      PROVE  RetryBudget'
  BY <1>6 DEF ExpireJob, IsExpired, Requeued, RetryBudget, TypeOK, Job
<1>7. ASSUME NEW k \in Keys, NEW s \in SeqArgs, CloseJob(k, s)
      PROVE  RetryBudget'
  BY <1>7 DEF CloseJob, NoJob, RetryBudget, TypeOK
<1> QED
  BY <1>1, <1>2, <1>3, <1>4, <1>5, <1>6, <1>7
     DEF Next, vars, InitializeQueue, SetQueuePaused, RegisterWorker,
         DeactivateWorker, Tick

\* Every job gets exactly max_retries retries, whatever limit it was
\* enqueued with and however often its claims expire in between.
THEOREM RetryBudgetHolds == Spec => []RetryBudget
<1>1. Init => RetryBudget
  BY DEF Init, RetryBudget, NoJob
<1>2. TypeOK /\ RetryBudget /\ [Next]_vars => RetryBudget'
  BY NextRetryBudget
<1> QED
  BY <1>1, <1>2, TypeCorrect, PTL DEF Spec


-----------------------------------------------------------------------------
(* Sequence numbers.                                                       *)

LEMMA NextSeqsUnique ==
  TypeOK /\ StatusFields /\ SeqsUnique /\ [Next]_vars => SeqsUnique'
<1> SUFFICES ASSUME TypeOK, StatusFields, SeqsUnique, [Next]_vars
             PROVE  SeqsUnique'
  OBVIOUS
<1>1. ASSUME NEW k \in Keys, NEW r \in MaxRetriesArgs, NEW t \in Timeouts,
             InitializeQueue(k, r, t)
      PROVE  SeqsUnique'
  BY <1>1 DEF InitializeQueue, StatusFields, SeqsUnique, Live
<1>2. CASE UNCHANGED job /\ queue'.next_job_seq = queue.next_job_seq
  BY <1>2 DEF SeqsUnique, Live
<1>3. ASSUME NEW k \in Keys, NEW s \in SeqArgs, NEW p \in Priorities,
             NEW o \in RetryOverrides, EnqueueJob(k, s, p, o)
      PROVE  SeqsUnique'
  <2>1. /\ job'[s].seq = queue.next_job_seq
        /\ \A t \in SeqArgs \ {s} : job'[t] = job[t]
    BY <1>3 DEF EnqueueJob, NewJob, TypeOK
  <2>2. /\ queue.next_job_seq \in Nat
        /\ queue'.next_job_seq = queue.next_job_seq + 1
        /\ \A t \in SeqArgs : job[t].seq \in Nat
    BY <1>3 DEF EnqueueJob, EnqueuedOn, TypeOK, QueueConfig, Job
  <2> QED
    BY <2>1, <2>2 DEF SeqsUnique, Live
<1>4. ASSUME NEW k \in Keys, NEW s \in SeqArgs, ClaimJob(k, s)
      PROVE  SeqsUnique'
  BY <1>4 DEF ClaimJob, Claimed, Claimable, SeqsUnique, Live, TypeOK, Job
<1>5. ASSUME NEW k \in Keys, NEW s \in SeqArgs, CompleteJob(k, s)
      PROVE  SeqsUnique'
  <2>1. queue'.next_job_seq = queue.next_job_seq
    BY <1>5 DEF CompleteJob, TypeOK, QueueConfig
  <2> QED
    BY <1>5, <2>1 DEF CompleteJob, HeldBy, SeqsUnique, Live, TypeOK, Job
<1>6. ASSUME NEW k \in Keys, NEW s \in SeqArgs, FailJob(k, s)
      PROVE  SeqsUnique'
  <2>1. queue'.next_job_seq = queue.next_job_seq
    BY <1>6, FailJobEffect DEF TypeOK, QueueConfig
  <2> QED
    BY <1>6, <2>1, FailJobEffect DEF HeldBy, SeqsUnique, Live
<1>7. ASSUME NEW s \in SeqArgs, ExpireJob(s)
      PROVE  SeqsUnique'
  BY <1>7 DEF ExpireJob, IsExpired, Requeued, SeqsUnique, Live, TypeOK, Job
<1>8. ASSUME NEW k \in Keys, NEW s \in SeqArgs, CloseJob(k, s)
      PROVE  SeqsUnique'
  BY <1>8 DEF CloseJob, NoJob, SeqsUnique, Live, TypeOK
<1>9. ASSUME NEW k \in Keys, NEW p \in BOOLEAN, SetQueuePaused(k, p)
      PROVE  SeqsUnique'
  BY <1>9, <1>2 DEF SetQueuePaused, TypeOK, QueueConfig
<1> QED
  BY <1>1, <1>2, <1>3, <1>4, <1>5, <1>6, <1>7, <1>8, <1>9
     DEF Next, vars, RegisterWorker, DeactivateWorker, Tick

\* Job accounts carry distinct, issued sequence numbers, whatever addresses
\* callers choose and however often closed addresses are used again.
THEOREM SeqsUniqueHolds == Spec => []SeqsUnique
<1>1. Init => SeqsUnique
  BY DEF Init, SeqsUnique, NoJob, Live
<1>2. TypeOK /\ StatusFields /\ SeqsUnique /\ [Next]_vars => SeqsUnique'
  BY NextSeqsUnique
<1> QED
  BY <1>1, <1>2, TypeCorrect, StatusFieldsHold, PTL DEF Spec

-----------------------------------------------------------------------------
(* Timestamps.                                                             *)

LEMMA NextTimestampsOrdered ==
  TypeOK /\ StatusFields /\ TimestampsOrdered /\ [Next]_vars => TimestampsOrdered'
<1> SUFFICES ASSUME TypeOK, StatusFields, TimestampsOrdered, [Next]_vars
             PROVE  TimestampsOrdered'
  OBVIOUS
<1>1. /\ now \in Nat
      /\ \A s \in SeqArgs : /\ job[s].enqueued_at \in Nat
                            /\ job[s].started_at \in Nat \cup {None}
                            /\ job[s].completed_at \in Nat \cup {None}
  BY DEF TypeOK, Job
<1>2. CASE UNCHANGED <<job, now>>
  BY <1>2 DEF TimestampsOrdered
<1>3. ASSUME NEW k \in Keys, NEW s \in SeqArgs, NEW p \in Priorities,
             NEW o \in RetryOverrides, EnqueueJob(k, s, p, o)
      PROVE  TimestampsOrdered'
  BY <1>1, <1>3 DEF EnqueueJob, NewJob, TimestampsOrdered, TypeOK
<1>4. ASSUME NEW k \in Keys, NEW s \in SeqArgs, ClaimJob(k, s)
      PROVE  TimestampsOrdered'
  <2>1. job[s].completed_at = None
    BY <1>4 DEF ClaimJob, Claimable, StatusFields
  <2> QED
    BY <1>1, <1>4, <2>1 DEF ClaimJob, Claimed, TimestampsOrdered, TypeOK, Job
<1>5. ASSUME NEW k \in Keys, NEW s \in SeqArgs, CompleteJob(k, s)
      PROVE  TimestampsOrdered'
  <2>1. job[s].started_at \in Nat
    BY <1>5 DEF CompleteJob, HeldBy, StatusFields
  <2> QED
    BY <1>1, <1>5, <2>1, NoneAssumption
       DEF CompleteJob, TimestampsOrdered, TypeOK, Job
<1>6. ASSUME NEW k \in Keys, NEW s \in SeqArgs, FailJob(k, s)
      PROVE  TimestampsOrdered'
  <2>1. job[s].started_at \in Nat /\ job[s].completed_at = None
    BY <1>6, FailJobEffect DEF HeldBy, StatusFields
  <2>2. now' = now
    BY <1>6 DEF FailJob
  <2> QED
    BY <1>1, <1>6, <2>1, <2>2, FailJobEffect, NoneAssumption DEF TimestampsOrdered
<1>7. ASSUME NEW s \in SeqArgs, ExpireJob(s)
      PROVE  TimestampsOrdered'
  <2>1. job[s].completed_at = None
    BY <1>7 DEF ExpireJob, IsExpired, StatusFields
  <2> QED
    BY <1>1, <1>7, <2>1 DEF ExpireJob, Requeued, TimestampsOrdered, TypeOK, Job
<1>8. ASSUME NEW k \in Keys, NEW s \in SeqArgs, CloseJob(k, s)
      PROVE  TimestampsOrdered'
  BY <1>1, <1>8 DEF CloseJob, NoJob, TimestampsOrdered, TypeOK
<1>9. CASE Tick
  BY <1>1, <1>9, NoneAssumption DEF Tick, TimestampsOrdered
<1> QED
  BY <1>2, <1>3, <1>4, <1>5, <1>6, <1>7, <1>8, <1>9
     DEF Next, vars, InitializeQueue, SetQueuePaused, RegisterWorker,
         DeactivateWorker

\* No job starts before it was enqueued, ends before it started, or carries
\* a time of the future.
THEOREM TimestampsOrderedHolds == Spec => []TimestampsOrdered
<1>1. Init => TimestampsOrdered
  BY DEF Init, TimestampsOrdered, NoJob
<1>2. TypeOK /\ StatusFields /\ TimestampsOrdered /\ [Next]_vars
        => TimestampsOrdered'
  BY NextTimestampsOrdered
<1> QED
  BY <1>1, <1>2, TypeCorrect, StatusFieldsHold, PTL DEF Spec


-----------------------------------------------------------------------------
(* Job accounting.                                                         *)

OpenJobs == {s \in SeqArgs : Open(s)}

\* The sets of accounts that are counted are finite, so adding or removing
\* one address changes their size by one.
LEMMA OpenJobsFinite == IsFiniteSet(OpenJobs) /\ Cardinality(OpenJobs) \in Nat
<1>1. OpenJobs \in SUBSET SeqArgs
  BY DEF OpenJobs
<1> QED
  BY <1>1, ArgsAssumption, FS_Subset, FS_CardinalityType

LEMMA NextOpenJobsCounted ==
  TypeOK /\ StatusFields /\ OpenJobsCounted /\ [Next]_vars => OpenJobsCounted'
<1> SUFFICES ASSUME TypeOK, StatusFields, OpenJobsCounted, [Next]_vars
             PROVE  OpenJobsCounted'
  OBVIOUS
<1>1. /\ queue.next_job_seq = queue.total_enqueued
      /\ queue.total_enqueued =
           queue.total_completed + queue.total_failed + Cardinality(OpenJobs)
  BY DEF OpenJobsCounted, OpenJobs
<1>2. /\ queue.next_job_seq \in Nat /\ queue.total_enqueued \in Nat
      /\ queue.total_completed \in Nat /\ queue.total_failed \in Nat
  BY DEF TypeOK, QueueConfig
<1>3. ASSUME queue'.next_job_seq = queue'.total_enqueued,
             queue'.total_enqueued =
               queue'.total_completed + queue'.total_failed + Cardinality(OpenJobs')
      PROVE  OpenJobsCounted'
  BY <1>3 DEF OpenJobsCounted, OpenJobs
<1>4. ASSUME NEW k \in Keys, NEW r \in MaxRetriesArgs, NEW t \in Timeouts,
             InitializeQueue(k, r, t)
      PROVE  OpenJobsCounted'
  <2>1. OpenJobs' = {}
    BY <1>4 DEF InitializeQueue, StatusFields, OpenJobs, Open, Live
  <2>2. /\ queue'.next_job_seq = 0 /\ queue'.total_enqueued = 0
        /\ queue'.total_completed = 0 /\ queue'.total_failed = 0
    BY <1>4 DEF InitializeQueue, NoQueue
  <2> QED
    BY <1>3, <2>1, <2>2, FS_EmptySet
<1>5. CASE /\ OpenJobs' = OpenJobs
           /\ queue'.next_job_seq = queue.next_job_seq
           /\ queue'.total_enqueued = queue.total_enqueued
           /\ queue'.total_completed = queue.total_completed
           /\ queue'.total_failed = queue.total_failed
  BY <1>1, <1>3, <1>5
<1>6. ASSUME NEW k \in Keys, NEW p \in BOOLEAN, SetQueuePaused(k, p)
      PROVE  OpenJobsCounted'
  BY <1>5, <1>6 DEF SetQueuePaused, OpenJobs, Open, TypeOK, QueueConfig
<1>7. ASSUME NEW k \in Keys, NEW s \in SeqArgs, NEW p \in Priorities,
             NEW o \in RetryOverrides, EnqueueJob(k, s, p, o)
      PROVE  OpenJobsCounted'
  <2>1. OpenJobs' = OpenJobs \cup {s} /\ s \notin OpenJobs
    BY <1>7 DEF EnqueueJob, NewJob, OpenJobs, Open, Live, TypeOK
  <2>2. /\ queue'.next_job_seq = queue.next_job_seq + 1
        /\ queue'.total_enqueued = queue.total_enqueued + 1
        /\ queue'.total_completed = queue.total_completed
        /\ queue'.total_failed = queue.total_failed
    BY <1>7 DEF EnqueueJob, EnqueuedOn, TypeOK, QueueConfig
  <2>3. Cardinality(OpenJobs') = Cardinality(OpenJobs) + 1
    BY <2>1, OpenJobsFinite, FS_AddElement
  <2> QED
    BY <1>1, <1>2, <1>3, <2>2, <2>3, OpenJobsFinite
<1>8. ASSUME NEW k \in Keys, NEW s \in SeqArgs, ClaimJob(k, s)
      PROVE  OpenJobsCounted'
  <2>1. OpenJobs' = OpenJobs
    BY <1>8 DEF ClaimJob, Claimed, Claimable, OpenJobs, Open, TypeOK, Job
  <2> QED
    BY <1>5, <1>8, <2>1 DEF ClaimJob
<1>9. ASSUME NEW s \in SeqArgs, s \in OpenJobs, OpenJobs' = OpenJobs \ {s},
             queue'.next_job_seq = queue.next_job_seq,
             queue'.total_enqueued = queue.total_enqueued,
             queue'.total_completed + queue'.total_failed =
               queue.total_completed + queue.total_failed + 1
      PROVE  OpenJobsCounted'
  <2>1. Cardinality(OpenJobs') = Cardinality(OpenJobs) - 1
    BY <1>9, OpenJobsFinite, FS_RemoveElement
  <2> QED
    BY <1>1, <1>2, <1>3, <1>9, <2>1, OpenJobsFinite
<1>10. ASSUME NEW k \in Keys, NEW s \in SeqArgs, CompleteJob(k, s)
       PROVE  OpenJobsCounted'
  <2>1. s \in OpenJobs /\ OpenJobs' = OpenJobs \ {s}
    BY <1>10 DEF CompleteJob, HeldBy, OpenJobs, Open, TypeOK, Job
  <2>2. /\ queue'.next_job_seq = queue.next_job_seq
        /\ queue'.total_enqueued = queue.total_enqueued
        /\ queue'.total_completed = queue.total_completed + 1
        /\ queue'.total_failed = queue.total_failed
    BY <1>10 DEF CompleteJob, TypeOK, QueueConfig
  <2> QED
    BY <1>2, <1>9, <2>1, <2>2
<1>11. ASSUME NEW k \in Keys, NEW s \in SeqArgs, FailJob(k, s)
       PROVE  OpenJobsCounted'
  <2>1. CASE job'[s].status = "Failed"
    <3>1. s \in OpenJobs /\ OpenJobs' = OpenJobs \ {s}
      BY <1>11, <2>1, FailJobEffect DEF HeldBy, OpenJobs, Open
    <3>2. queue' = [queue EXCEPT !.total_failed = @ + 1]
      BY <1>11, <2>1, FailJobEffect
    <3>3. /\ queue'.next_job_seq = queue.next_job_seq
          /\ queue'.total_enqueued = queue.total_enqueued
          /\ queue'.total_completed = queue.total_completed
          /\ queue'.total_failed = queue.total_failed + 1
      BY <3>2 DEF TypeOK, QueueConfig
    <3> QED
      BY <1>2, <1>9, <3>1, <3>3
  <2>2. CASE job'[s].status = "Pending"
    <3>1. OpenJobs' = OpenJobs
      BY <1>11, <2>2, FailJobEffect DEF HeldBy, OpenJobs, Open
    <3> QED
      BY <1>5, <1>11, <2>2, <3>1, FailJobEffect
  <2> QED
    BY <1>11, <2>1, <2>2, FailJobEffect
<1>12. ASSUME NEW s \in SeqArgs, ExpireJob(s)
       PROVE  OpenJobsCounted'
  <2>1. OpenJobs' = OpenJobs
    BY <1>12 DEF ExpireJob, IsExpired, Requeued, OpenJobs, Open, TypeOK, Job
  <2> QED
    BY <1>5, <1>12, <2>1 DEF ExpireJob
<1>13. ASSUME NEW k \in Keys, NEW s \in SeqArgs, CloseJob(k, s)
       PROVE  OpenJobsCounted'
  <2>1. OpenJobs' = OpenJobs
    BY <1>13 DEF CloseJob, Closable, NoJob, OpenJobs, Open, TypeOK
  <2> QED
    BY <1>5, <1>13, <2>1 DEF CloseJob
<1>14. CASE UNCHANGED <<job, queue>>
  BY <1>5, <1>14 DEF OpenJobs, Open
<1> QED
  BY <1>4, <1>6, <1>7, <1>8, <1>10, <1>11, <1>12, <1>13, <1>14
     DEF Next, vars, RegisterWorker, DeactivateWorker, Tick

\* The queue's lifetime counters account for every job: those enqueued and
\* not yet completed or failed are exactly the open accounts.
THEOREM OpenJobsCountedHolds == Spec => []OpenJobsCounted
<1>1. Init => OpenJobsCounted
  <2>1. Init => OpenJobs = {}
    BY DEF Init, NoJob, OpenJobs, Open
  <2> QED
    BY <2>1, FS_EmptySet DEF Init, NoQueue, OpenJobsCounted, OpenJobs
<1>2. TypeOK /\ StatusFields /\ OpenJobsCounted /\ [Next]_vars => OpenJobsCounted'
  BY NextOpenJobsCounted
<1> QED
  BY <1>1, <1>2, TypeCorrect, StatusFieldsHold, PTL DEF Spec


-----------------------------------------------------------------------------
(* Worker accounting.                                                      *)

LEMMA HeldFinite ==
  ASSUME NEW k \in Keys
  PROVE  IsFiniteSet(Held(k)) /\ Cardinality(Held(k)) \in Nat
<1>1. Held(k) \in SUBSET SeqArgs
  BY DEF Held
<1> QED
  BY <1>1, ArgsAssumption, FS_Subset, FS_CardinalityType

\* A worker whose record is unchanged and who holds no new job keeps its
\* account in order.
LEMMA ClaimsAccountedFrame ==
  ASSUME NEW k \in Keys, registry'[k] = registry[k], Held(k)' \subseteq Held(k),
         TypeOK, ClaimsAccounted
  PROVE  registry'[k].jobs_completed + registry'[k].jobs_failed
           + Cardinality(Held(k)') <= registry'[k].jobs_claimed
<1>1. /\ registry[k].jobs_completed \in Nat /\ registry[k].jobs_failed \in Nat
      /\ registry[k].jobs_claimed \in Nat
  BY DEF TypeOK, WorkerRegistry
<1>2. Cardinality(Held(k)') \in Nat /\ Cardinality(Held(k)') <= Cardinality(Held(k))
  <2>1. Held(k)' \in SUBSET Held(k)
    OBVIOUS
  <2> QED
    BY <2>1, HeldFinite, FS_Subset, FS_CardinalityType
<1> QED
  BY <1>1, <1>2, HeldFinite DEF ClaimsAccounted

\* A worker that reports on a job holds it no more and has it on its record.
LEMMA ReportAccounted ==
  ASSUME NEW k \in Keys, NEW s \in Held(k), Held(k)' = Held(k) \ {s},
         TypeOK, ClaimsAccounted,
         registry'[k].jobs_completed + registry'[k].jobs_failed =
           registry[k].jobs_completed + registry[k].jobs_failed + 1,
         registry'[k].jobs_claimed = registry[k].jobs_claimed
  PROVE  registry'[k].jobs_completed + registry'[k].jobs_failed
           + Cardinality(Held(k)') <= registry'[k].jobs_claimed
<1>1. /\ registry[k].jobs_completed \in Nat /\ registry[k].jobs_failed \in Nat
      /\ registry[k].jobs_claimed \in Nat
  BY DEF TypeOK, WorkerRegistry
<1>2. Cardinality(Held(k)') = Cardinality(Held(k)) - 1
  BY HeldFinite, FS_RemoveElement
<1> QED
  BY <1>1, <1>2, HeldFinite DEF ClaimsAccounted

LEMMA NextClaimsAccounted ==
  TypeOK /\ StatusFields /\ ClaimsAccounted /\ [Next]_vars => ClaimsAccounted'
<1> DEFINE Accounted(w) ==
             registry[w].jobs_completed + registry[w].jobs_failed
               + Cardinality(Held(w)) <= registry[w].jobs_claimed
<1> SUFFICES ASSUME TypeOK, StatusFields, ClaimsAccounted, [Next]_vars,
                    NEW w \in Keys
             PROVE  Accounted(w)'
  BY DEF ClaimsAccounted
<1>1. CASE UNCHANGED <<job, registry>>
  BY <1>1, ClaimsAccountedFrame DEF Held, HeldBy
<1>2. ASSUME NEW k \in Keys, NEW v \in Keys, RegisterWorker(k, v)
      PROVE  Accounted(w)'
  <2>1. Held(w)' = Held(w)
    BY <1>2 DEF RegisterWorker, Held, HeldBy
  <2>2. CASE v = w
    <3>1. /\ registry'[w].jobs_completed = 0 /\ registry'[w].jobs_failed = 0
          /\ registry'[w].jobs_claimed = 0
      BY <1>2, <2>2 DEF RegisterWorker, NoWorker, TypeOK
    <3>2. Held(w) = {}
      BY <1>2, <2>2 DEF RegisterWorker, Registrable, Held, HeldBy, StatusFields
    <3> QED
      BY <2>1, <3>1, <3>2, FS_EmptySet
  <2> QED
    BY <1>2, <2>1, <2>2, ClaimsAccountedFrame DEF RegisterWorker, TypeOK
<1>3. ASSUME NEW k \in Keys, NEW v \in Keys, DeactivateWorker(k, v)
      PROVE  Accounted(w)'
  <2>1. Held(w)' = Held(w)
    BY <1>3 DEF DeactivateWorker, Held, HeldBy
  <2>2. /\ registry'[w].jobs_completed = registry[w].jobs_completed
        /\ registry'[w].jobs_failed = registry[w].jobs_failed
        /\ registry'[w].jobs_claimed = registry[w].jobs_claimed
    BY <1>3 DEF DeactivateWorker, TypeOK, WorkerRegistry
  <2> QED
    BY <2>1, <2>2 DEF ClaimsAccounted
<1>4. ASSUME NEW k \in Keys, NEW s \in SeqArgs, NEW p \in Priorities,
             NEW o \in RetryOverrides, EnqueueJob(k, s, p, o)
      PROVE  Accounted(w)'
  <2>1. Held(w)' \subseteq Held(w)
    BY <1>4 DEF EnqueueJob, NewJob, Held, HeldBy, TypeOK
  <2> QED
    BY <1>4, <2>1, ClaimsAccountedFrame DEF EnqueueJob
<1>5. ASSUME NEW k \in Keys, NEW s \in SeqArgs, ClaimJob(k, s)
      PROVE  Accounted(w)'
  <2>1. CASE k = w
    <3>1. Held(w)' = Held(w) \cup {s} /\ s \notin Held(w)
      BY <1>5, <2>1 DEF ClaimJob, Claimed, Claimable, Held, HeldBy, TypeOK, Job
    <3>2. Cardinality(Held(w)') = Cardinality(Held(w)) + 1
      BY <3>1, HeldFinite, FS_AddElement
    <3>3. /\ registry'[w].jobs_completed = registry[w].jobs_completed
          /\ registry'[w].jobs_failed = registry[w].jobs_failed
          /\ registry'[w].jobs_claimed = registry[w].jobs_claimed + 1
      BY <1>5, <2>1 DEF ClaimJob, TypeOK, WorkerRegistry
    <3>4. /\ registry[w].jobs_completed \in Nat /\ registry[w].jobs_failed \in Nat
          /\ registry[w].jobs_claimed \in Nat
      BY DEF TypeOK, WorkerRegistry
    <3> QED
      BY <3>2, <3>3, <3>4, HeldFinite DEF ClaimsAccounted
  <2>2. CASE k # w
    <3>1. Held(w)' \subseteq Held(w)
      BY <1>5, <2>2 DEF ClaimJob, Claimed, Held, HeldBy, TypeOK, Job
    <3> QED
      BY <1>5, <2>2, <3>1, ClaimsAccountedFrame DEF ClaimJob, TypeOK
  <2> QED
    BY <2>1, <2>2
<1>6. ASSUME NEW k \in Keys, NEW s \in SeqArgs, CompleteJob(k, s)
      PROVE  Accounted(w)'
  <2>1. CASE k = w
    <3>1. s \in Held(w) /\ Held(w)' = Held(w) \ {s}
      BY <1>6, <2>1 DEF CompleteJob, Held, HeldBy, TypeOK, Job
    <3>2. /\ registry'[w].jobs_completed = registry[w].jobs_completed + 1
          /\ registry'[w].jobs_failed = registry[w].jobs_failed
          /\ registry'[w].jobs_claimed = registry[w].jobs_claimed
          /\ registry[w].jobs_completed \in Nat /\ registry[w].jobs_failed \in Nat
      BY <1>6, <2>1 DEF CompleteJob, TypeOK, WorkerRegistry
    <3> QED
      BY <3>1, <3>2, ReportAccounted
  <2>2. CASE k # w
    <3>1. Held(w)' \subseteq Held(w)
      BY <1>6 DEF CompleteJob, Held, HeldBy, TypeOK, Job
    <3> QED
      BY <1>6, <2>2, <3>1, ClaimsAccountedFrame DEF CompleteJob, TypeOK
  <2> QED
    BY <2>1, <2>2
<1>7. ASSUME NEW k \in Keys, NEW s \in SeqArgs, FailJob(k, s)
      PROVE  Accounted(w)'
  <2>1. /\ HeldBy(s, k) /\ job'[s].status # "Processing"
        /\ \A t \in SeqArgs \ {s} : job'[t] = job[t]
    BY <1>7, FailJobEffect
  <2>2. CASE k = w
    <3>1. s \in Held(w) /\ Held(w)' = Held(w) \ {s}
      BY <2>1, <2>2 DEF Held, HeldBy
    <3>2. /\ registry'[w].jobs_completed = registry[w].jobs_completed
          /\ registry'[w].jobs_failed = registry[w].jobs_failed + 1
          /\ registry'[w].jobs_claimed = registry[w].jobs_claimed
          /\ registry[w].jobs_completed \in Nat /\ registry[w].jobs_failed \in Nat
      BY <1>7, <2>2 DEF FailJob, TypeOK, WorkerRegistry
    <3>3. registry'[w].jobs_completed + registry'[w].jobs_failed =
            registry[w].jobs_completed + registry[w].jobs_failed + 1
      BY <3>2
    <3> QED
      BY <3>1, <3>2, <3>3, ReportAccounted
  <2>3. CASE k # w
    <3>1. Held(w)' \subseteq Held(w)
      BY <2>1 DEF Held, HeldBy
    <3> QED
      BY <1>7, <2>3, <3>1, ClaimsAccountedFrame DEF FailJob, TypeOK
  <2> QED
    BY <2>2, <2>3
<1>8. ASSUME NEW s \in SeqArgs, ExpireJob(s)
      PROVE  Accounted(w)'
  <2>1. Held(w)' \subseteq Held(w)
    BY <1>8 DEF ExpireJob, Requeued, Held, HeldBy, TypeOK, Job
  <2> QED
    BY <1>8, <2>1, ClaimsAccountedFrame DEF ExpireJob
<1>9. ASSUME NEW k \in Keys, NEW s \in SeqArgs, CloseJob(k, s)
      PROVE  Accounted(w)'
  <2>1. Held(w)' \subseteq Held(w)
    BY <1>9 DEF CloseJob, NoJob, Held, HeldBy, TypeOK
  <2> QED
    BY <1>9, <2>1, ClaimsAccountedFrame DEF CloseJob
<1> QED
  BY <1>1, <1>2, <1>3, <1>4, <1>5, <1>6, <1>7, <1>8, <1>9
     DEF Next, vars, InitializeQueue, SetQueuePaused, Tick

\* No worker is credited with more completions, failures and claims in hand
\* than the claims it made.
THEOREM ClaimsAccountedHolds == Spec => []ClaimsAccounted
<1>1. Init => ClaimsAccounted
  <2>1. Init => \A k \in Keys : Held(k) = {}
    BY DEF Init, NoJob, Held, HeldBy
  <2> QED
    BY <2>1, FS_EmptySet DEF Init, NoWorker, ClaimsAccounted
<1>2. TypeOK /\ StatusFields /\ ClaimsAccounted /\ [Next]_vars => ClaimsAccounted'
  BY NextClaimsAccounted
<1> QED
  BY <1>1, <1>2, TypeCorrect, StatusFieldsHold, PTL DEF Spec

-----------------------------------------------------------------------------
(* The leaderboard.                                                        *)

\* Before the queue exists no sequence number has been issued.
NothingIssued == ~queue.exists => queue.next_job_seq = 0

LEMMA NothingIssuedHolds == Spec => []NothingIssued
<1>1. Init => NothingIssued
  BY DEF Init, NoQueue, NothingIssued
<1>2. TypeOK /\ NothingIssued /\ [Next]_vars => NothingIssued'
  BY DEF NothingIssued, TypeOK, QueueConfig, Next, vars, InitializeQueue, NoQueue,
         SetQueuePaused, IsAuthority, RegisterWorker, DeactivateWorker,
         EnqueueJob, EnqueuedOn, ClaimJob, CompleteJob, FailJob, ExpireJob,
         CloseJob, Tick
<1> QED
  BY <1>1, <1>2, TypeCorrect, PTL DEF Spec

\* A key that was never registered has no record, so that register_worker
\* overwrites no credit.
NoCreditUnregistered == \A k \in Keys : ~registry[k].exists => registry[k] = NoWorker

LEMMA NoCreditUnregisteredHolds == Spec => []NoCreditUnregistered
<1>1. Init => NoCreditUnregistered
  BY DEF Init, NoCreditUnregistered
<1>2. TypeOK /\ NoCreditUnregistered /\ [Next]_vars => NoCreditUnregistered'
  <2> SUFFICES ASSUME TypeOK, NoCreditUnregistered, [Next]_vars, NEW k \in Keys
               PROVE  \/ registry'[k] = registry[k]
                      \/ registry'[k].exists
    BY DEF NoCreditUnregistered
  <2> USE DEF TypeOK, WorkerRegistry
  <2>1. ASSUME NEW a \in Keys, NEW w \in Keys, RegisterWorker(a, w)
        PROVE  registry'[k] = registry[k] \/ registry'[k].exists
    BY <2>1 DEF RegisterWorker, NoWorker
  <2>2. ASSUME NEW a \in Keys, NEW w \in Keys, DeactivateWorker(a, w)
        PROVE  registry'[k] = registry[k] \/ registry'[k].exists
    BY <2>2 DEF DeactivateWorker
  <2>3. ASSUME NEW w \in Keys, NEW s \in SeqArgs,
               ClaimJob(w, s) \/ CompleteJob(w, s) \/ FailJob(w, s)
        PROVE  registry'[k] = registry[k] \/ registry'[k].exists
    BY <2>3 DEF ClaimJob, CompleteJob, FailJob, ActiveWorker
  <2> QED
    BY <2>1, <2>2, <2>3
       DEF Next, vars, InitializeQueue, SetQueuePaused, EnqueueJob, ExpireJob,
           CloseJob, Tick
<1> QED
  BY <1>1, <1>2, TypeCorrect, PTL DEF Spec

\* The sums as SumTheorems states them.
LEMMA CreditSums ==
  ASSUME TypeOK
  PROVE  /\ SumFunction(Completions) = SumFunctionOnSet(Completions, Keys)
         /\ SumFunction(Failures) = SumFunctionOnSet(Failures, Keys)
         /\ \A k \in Keys : Completions[k] \in Nat /\ Failures[k] \in Nat
         /\ SumFunction(Completions) \in Nat /\ SumFunction(Failures) \in Nat
<1>1. /\ SumFunction(Completions) = SumFunctionOnSet(Completions, Keys)
      /\ SumFunction(Failures) = SumFunctionOnSet(Failures, Keys)
  BY DEF SumFunction, Completions, Failures
<1>2. \A k \in Keys : Completions[k] \in Nat /\ Failures[k] \in Nat
  BY DEF Completions, Failures, TypeOK, WorkerRegistry
<1> QED
  BY <1>1, <1>2, KeysAssumption, SumType

\* A report adds one credit of its kind to its worker, hence to the sum.
LEMMA CreditGiven ==
  ASSUME TypeOK, NEW f, NEW g, NEW w \in Keys, \A k \in Keys : f[k] \in Nat,
         g[w] = f[w] + 1, \A k \in Keys \ {w} : g[k] = f[k]
  PROVE  SumFunctionOnSet(g, Keys) = SumFunctionOnSet(f, Keys) + 1
<1>1. /\ g[w] \in Nat /\ f[w] \in Nat
      /\ \A k \in Keys : g[k] \in Nat
  OBVIOUS
<1>2. SumFunctionOnSet(g, Keys) + f[w] = SumFunctionOnSet(f, Keys) + g[w]
  BY <1>1, KeysAssumption, SumUpdate
<1>3. SumFunctionOnSet(f, Keys) \in Nat /\ SumFunctionOnSet(g, Keys) \in Nat
  BY <1>1, KeysAssumption, SumType
<1> QED
  BY <1>1, <1>2, <1>3

LEMMA NextCreditsMatchTotals ==
  /\ TypeOK /\ OpenJobsCounted /\ NothingIssued /\ NoCreditUnregistered
  /\ CreditsMatchTotals /\ [Next]_vars
  => CreditsMatchTotals'
<1> SUFFICES ASSUME TypeOK, OpenJobsCounted, NothingIssued, NoCreditUnregistered,
                    CreditsMatchTotals, [Next]_vars
             PROVE  CreditsMatchTotals'
  OBVIOUS
<1>1. TypeOK'
  BY NextTypeOK
<1>2. /\ queue.total_completed = SumFunctionOnSet(Completions, Keys)
      /\ queue.total_failed <= SumFunctionOnSet(Failures, Keys)
      /\ queue.total_completed \in Nat /\ queue.total_failed \in Nat
      /\ SumFunctionOnSet(Completions, Keys) \in Nat
      /\ SumFunctionOnSet(Failures, Keys) \in Nat
      /\ \A k \in Keys : Completions[k] \in Nat /\ Failures[k] \in Nat
  BY CreditSums DEF CreditsMatchTotals, TypeOK, QueueConfig
<1>3. /\ SumFunction(Completions)' = SumFunctionOnSet(Completions', Keys)
      /\ SumFunction(Failures)' = SumFunctionOnSet(Failures', Keys)
  BY DEF SumFunction, Completions, Failures
<1>4. /\ Completions' = [k \in Keys |-> registry'[k].jobs_completed]
      /\ Failures' = [k \in Keys |-> registry'[k].jobs_failed]
  BY DEF Completions, Failures
<1>5. ASSUME Completions' = Completions, Failures' = Failures,
             queue'.total_completed = queue.total_completed,
             queue'.total_failed = queue.total_failed
      PROVE  CreditsMatchTotals'
  BY <1>2, <1>3, <1>5 DEF CreditsMatchTotals
<1>6. ASSUME NEW k \in Keys, NEW r \in MaxRetriesArgs, NEW t \in Timeouts,
             InitializeQueue(k, r, t)
      PROVE  CreditsMatchTotals'
  <2>1. queue.next_job_seq = 0
    BY <1>6 DEF InitializeQueue, NothingIssued
  <2>2. queue.total_completed = 0 /\ queue.total_failed = 0
    BY <1>2, <2>1, OpenJobsFinite DEF OpenJobsCounted, OpenJobs
  <2>3. queue'.total_completed = 0 /\ queue'.total_failed = 0
    BY <1>6 DEF InitializeQueue, NoQueue
  <2> QED
    BY <1>5, <1>6, <2>2, <2>3 DEF InitializeQueue, Completions, Failures
<1>7. ASSUME NEW k \in Keys, NEW w \in Keys, RegisterWorker(k, w)
      PROVE  CreditsMatchTotals'
  <2>1. registry[w] = NoWorker
    BY <1>7 DEF RegisterWorker, Registrable, NoCreditUnregistered
  <2>2. \A v \in Keys : /\ registry'[v].jobs_completed = registry[v].jobs_completed
                        /\ registry'[v].jobs_failed = registry[v].jobs_failed
    BY <1>7, <2>1 DEF RegisterWorker, NoWorker, TypeOK
  <2> QED
    BY <1>4, <1>5, <1>7, <2>2 DEF RegisterWorker, Completions, Failures
<1>8. ASSUME NEW k \in Keys, NEW w \in Keys, DeactivateWorker(k, w)
      PROVE  CreditsMatchTotals'
  <2>1. \A v \in Keys : /\ registry'[v].jobs_completed = registry[v].jobs_completed
                        /\ registry'[v].jobs_failed = registry[v].jobs_failed
    BY <1>8 DEF DeactivateWorker, TypeOK, WorkerRegistry
  <2> QED
    BY <1>4, <1>5, <1>8, <2>1 DEF DeactivateWorker, Completions, Failures
<1>9. ASSUME NEW k \in Keys, NEW s \in SeqArgs, ClaimJob(k, s)
      PROVE  CreditsMatchTotals'
  <2>1. \A v \in Keys : /\ registry'[v].jobs_completed = registry[v].jobs_completed
                        /\ registry'[v].jobs_failed = registry[v].jobs_failed
    BY <1>9 DEF ClaimJob, TypeOK, WorkerRegistry
  <2> QED
    BY <1>4, <1>5, <1>9, <2>1 DEF ClaimJob, Completions, Failures
<1>10. ASSUME NEW k \in Keys, NEW s \in SeqArgs, CompleteJob(k, s)
       PROVE  CreditsMatchTotals'
  <2>1. /\ Completions'[k] = Completions[k] + 1
        /\ \A v \in Keys \ {k} : Completions'[v] = Completions[v]
        /\ Failures' = Failures
    BY <1>10 DEF CompleteJob, TypeOK, WorkerRegistry, Completions, Failures
  <2>2. SumFunctionOnSet(Completions', Keys) = SumFunctionOnSet(Completions, Keys) + 1
    BY <1>2, <2>1, CreditGiven
  <2>3. /\ queue'.total_completed = queue.total_completed + 1
        /\ queue'.total_failed = queue.total_failed
    BY <1>10 DEF CompleteJob, TypeOK, QueueConfig
  <2> QED
    BY <1>2, <1>3, <2>1, <2>2, <2>3 DEF CreditsMatchTotals
<1>11. ASSUME NEW k \in Keys, NEW s \in SeqArgs, FailJob(k, s)
       PROVE  CreditsMatchTotals'
  <2>1. /\ Failures'[k] = Failures[k] + 1
        /\ \A v \in Keys \ {k} : Failures'[v] = Failures[v]
        /\ Completions' = Completions
    BY <1>11 DEF FailJob, TypeOK, WorkerRegistry, Completions, Failures
  <2>2. SumFunctionOnSet(Failures', Keys) = SumFunctionOnSet(Failures, Keys) + 1
    BY <1>2, <2>1, CreditGiven
  <2>3. /\ queue'.total_completed = queue.total_completed
        /\ queue'.total_failed <= queue.total_failed + 1
    BY <1>2, <1>11, FailJobEffect DEF TypeOK, QueueConfig
  <2>4. queue'.total_failed \in Nat
    BY <1>1 DEF TypeOK, QueueConfig
  <2> QED
    BY <1>2, <1>3, <2>1, <2>2, <2>3, <2>4 DEF CreditsMatchTotals
<1>12. ASSUME UNCHANGED registry, queue'.total_completed = queue.total_completed,
              queue'.total_failed = queue.total_failed
       PROVE  CreditsMatchTotals'
  BY <1>5, <1>12 DEF Completions, Failures
<1>13. ASSUME NEW k \in Keys, NEW s \in SeqArgs, NEW p \in Priorities,
              NEW o \in RetryOverrides, EnqueueJob(k, s, p, o)
       PROVE  CreditsMatchTotals'
  BY <1>12, <1>13 DEF EnqueueJob, EnqueuedOn, TypeOK, QueueConfig
<1>14. ASSUME NEW k \in Keys, NEW p \in BOOLEAN, SetQueuePaused(k, p)
       PROVE  CreditsMatchTotals'
  BY <1>12, <1>14 DEF SetQueuePaused, TypeOK, QueueConfig
<1> QED
  BY <1>6, <1>7, <1>8, <1>9, <1>10, <1>11, <1>12, <1>13, <1>14
     DEF Next, vars, ExpireJob, CloseJob, Tick

\* The leaderboard adds up to the queue's totals, for any number of workers,
\* however they are registered, deactivated and take over each other's jobs.
THEOREM CreditsMatchTotalsHold == Spec => []CreditsMatchTotals
<1>1. Init => CreditsMatchTotals
  <2> SUFFICES ASSUME Init PROVE CreditsMatchTotals
    OBVIOUS
  <2>1. \A k \in Keys : Completions[k] = 0 /\ Failures[k] = 0
    BY DEF Init, NoWorker, Completions, Failures
  <2>2. SumFunctionOnSet(Completions, Keys) = 0 /\ SumFunctionOnSet(Failures, Keys) = 0
    BY <2>1, KeysAssumption, SumZero
  <2> QED
    BY <2>2, CreditSums, InitTypeOK DEF Init, NoQueue, CreditsMatchTotals
<1>2. /\ TypeOK /\ OpenJobsCounted /\ NothingIssued /\ NoCreditUnregistered
      /\ CreditsMatchTotals /\ [Next]_vars
      => CreditsMatchTotals'
  BY NextCreditsMatchTotals
<1> QED
  BY <1>1, <1>2, TypeCorrect, OpenJobsCountedHolds, NothingIssuedHolds,
     NoCreditUnregisteredHolds, PTL DEF Spec

\* The accounts that name a worker are finitely many, and one more account,
\* or one less, changes their number by at most one.
LEMMA FinishedByFinite ==
  ASSUME NEW k, NEW status
  PROVE  /\ IsFiniteSet(FinishedBy(k, status))
         /\ Cardinality(FinishedBy(k, status)) \in Nat
<1>1. FinishedBy(k, status) \in SUBSET SeqArgs
  BY DEF FinishedBy
<1> QED
  BY <1>1, ArgsAssumption, FS_Subset, FS_CardinalityType

LEMMA FewerNamed ==
  ASSUME NEW A, IsFiniteSet(A), NEW B, B \subseteq A
  PROVE  Cardinality(B) \in Nat /\ Cardinality(B) <= Cardinality(A)
BY FS_Subset, FS_CardinalityType

LEMMA OneMoreNamed ==
  ASSUME NEW A, IsFiniteSet(A), NEW s, NEW B, B \subseteq A \cup {s}
  PROVE  Cardinality(B) \in Nat /\ Cardinality(B) <= Cardinality(A) + 1
<1>1. /\ IsFiniteSet(A \cup {s})
      /\ Cardinality(A \cup {s}) <= Cardinality(A) + 1
      /\ Cardinality(A) \in Nat
  BY FS_AddElement, FS_CardinalityType
<1>2. Cardinality(B) \in Nat /\ Cardinality(B) <= Cardinality(A \cup {s})
  BY <1>1, FewerNamed
<1>3. Cardinality(A \cup {s}) \in Nat
  BY <1>1, FS_CardinalityType
<1> QED
  BY <1>1, <1>2, <1>3

\* A worker that keeps its record and whom no further account names.
LEMMA CreditsWhereDueFrame ==
  ASSUME TypeOK, CreditsWhereDue, NEW w \in Keys,
         registry'[w].jobs_completed = registry[w].jobs_completed,
         registry'[w].jobs_failed = registry[w].jobs_failed,
         FinishedBy(w, "Completed")' \subseteq FinishedBy(w, "Completed"),
         FinishedBy(w, "Failed")' \subseteq FinishedBy(w, "Failed")
  PROVE  /\ Cardinality(FinishedBy(w, "Completed")') <= registry'[w].jobs_completed
         /\ Cardinality(FinishedBy(w, "Failed")') <= registry'[w].jobs_failed
<1>1. registry[w].jobs_completed \in Nat /\ registry[w].jobs_failed \in Nat
  BY DEF TypeOK, WorkerRegistry
<1>2. /\ Cardinality(FinishedBy(w, "Completed")') \in Nat
      /\ Cardinality(FinishedBy(w, "Completed")') <= Cardinality(FinishedBy(w, "Completed"))
      /\ Cardinality(FinishedBy(w, "Failed")') \in Nat
      /\ Cardinality(FinishedBy(w, "Failed")') <= Cardinality(FinishedBy(w, "Failed"))
  BY FinishedByFinite, FewerNamed
<1> QED
  BY <1>1, <1>2, FinishedByFinite DEF CreditsWhereDue

LEMMA NextCreditsWhereDue ==
  TypeOK /\ StatusFields /\ CreditsWhereDue /\ [Next]_vars => CreditsWhereDue'
<1> DEFINE Due(w) == /\ Cardinality(FinishedBy(w, "Completed")) <= registry[w].jobs_completed
                     /\ Cardinality(FinishedBy(w, "Failed")) <= registry[w].jobs_failed
<1> SUFFICES ASSUME TypeOK, StatusFields, CreditsWhereDue, [Next]_vars, NEW w \in Keys
             PROVE  Due(w)'
  BY DEF CreditsWhereDue
<1>1. CASE UNCHANGED <<job, registry>>
  BY <1>1, CreditsWhereDueFrame DEF FinishedBy
<1>2. ASSUME NEW k \in Keys, NEW v \in Keys, RegisterWorker(k, v)
      PROVE  Due(w)'
  <2>1. /\ FinishedBy(w, "Completed")' = FinishedBy(w, "Completed")
        /\ FinishedBy(w, "Failed")' = FinishedBy(w, "Failed")
    BY <1>2 DEF RegisterWorker, FinishedBy
  <2>2. CASE v = w
    <3>1. registry'[w].jobs_completed = 0 /\ registry'[w].jobs_failed = 0
      BY <1>2, <2>2 DEF RegisterWorker, NoWorker, TypeOK
    <3>2. FinishedBy(w, "Completed") = {} /\ FinishedBy(w, "Failed") = {}
      BY <1>2, <2>2 DEF RegisterWorker, Registrable, FinishedBy, StatusFields
    <3> QED
      BY <2>1, <3>1, <3>2, FS_EmptySet
  <2>3. CASE v # w
    BY <1>2, <2>1, <2>3, CreditsWhereDueFrame DEF RegisterWorker, TypeOK
  <2> QED
    BY <2>2, <2>3
<1>3. ASSUME NEW k \in Keys, NEW v \in Keys, DeactivateWorker(k, v)
      PROVE  Due(w)'
  <2>1. /\ FinishedBy(w, "Completed")' = FinishedBy(w, "Completed")
        /\ FinishedBy(w, "Failed")' = FinishedBy(w, "Failed")
    BY <1>3 DEF DeactivateWorker, FinishedBy
  <2>2. /\ registry'[w].jobs_completed = registry[w].jobs_completed
        /\ registry'[w].jobs_failed = registry[w].jobs_failed
    BY <1>3 DEF DeactivateWorker, TypeOK, WorkerRegistry
  <2> QED
    BY <2>1, <2>2, CreditsWhereDueFrame
<1>4. ASSUME NEW k \in Keys, NEW s \in SeqArgs, NEW p \in Priorities,
             NEW o \in RetryOverrides, EnqueueJob(k, s, p, o)
      PROVE  Due(w)'
  <2>1. /\ FinishedBy(w, "Completed")' \subseteq FinishedBy(w, "Completed")
        /\ FinishedBy(w, "Failed")' \subseteq FinishedBy(w, "Failed")
    BY <1>4 DEF EnqueueJob, NewJob, FinishedBy, TypeOK
  <2> QED
    BY <1>4, <2>1, CreditsWhereDueFrame DEF EnqueueJob
<1>5. ASSUME NEW k \in Keys, NEW s \in SeqArgs, ClaimJob(k, s)
      PROVE  Due(w)'
  <2>1. /\ FinishedBy(w, "Completed")' \subseteq FinishedBy(w, "Completed")
        /\ FinishedBy(w, "Failed")' \subseteq FinishedBy(w, "Failed")
    BY <1>5 DEF ClaimJob, Claimed, FinishedBy, TypeOK, Job
  <2>2. /\ registry'[w].jobs_completed = registry[w].jobs_completed
        /\ registry'[w].jobs_failed = registry[w].jobs_failed
    BY <1>5 DEF ClaimJob, TypeOK, WorkerRegistry
  <2> QED
    BY <2>1, <2>2, CreditsWhereDueFrame
<1>6. ASSUME NEW k \in Keys, NEW s \in SeqArgs, CompleteJob(k, s)
      PROVE  Due(w)'
  <2>1. FinishedBy(w, "Failed")' \subseteq FinishedBy(w, "Failed")
    BY <1>6 DEF CompleteJob, FinishedBy, TypeOK, Job
  <2>2. CASE k = w
    <3>1. FinishedBy(w, "Completed")' \subseteq FinishedBy(w, "Completed") \cup {s}
      BY <1>6 DEF CompleteJob, FinishedBy, TypeOK, Job
    <3>2. /\ registry'[w].jobs_completed = registry[w].jobs_completed + 1
          /\ registry'[w].jobs_failed = registry[w].jobs_failed
          /\ registry[w].jobs_completed \in Nat /\ registry[w].jobs_failed \in Nat
      BY <1>6, <2>2 DEF CompleteJob, TypeOK, WorkerRegistry
    <3>3. /\ Cardinality(FinishedBy(w, "Completed")') \in Nat
          /\ Cardinality(FinishedBy(w, "Completed")')
               <= Cardinality(FinishedBy(w, "Completed")) + 1
      BY <3>1, FinishedByFinite, OneMoreNamed
    <3>4. /\ Cardinality(FinishedBy(w, "Failed")') \in Nat
          /\ Cardinality(FinishedBy(w, "Failed")') <= Cardinality(FinishedBy(w, "Failed"))
      BY <2>1, FinishedByFinite, FewerNamed
    <3> QED
      BY <3>2, <3>3, <3>4, FinishedByFinite DEF CreditsWhereDue
  <2>3. CASE k # w
    <3>1. FinishedBy(w, "Completed")' \subseteq FinishedBy(w, "Completed")
      BY <1>6, <2>3 DEF CompleteJob, HeldBy, FinishedBy, TypeOK, Job
    <3> QED
      BY <1>6, <2>1, <2>3, <3>1, CreditsWhereDueFrame DEF CompleteJob, TypeOK
  <2> QED
    BY <2>2, <2>3
<1>7. ASSUME NEW k \in Keys, NEW s \in SeqArgs, FailJob(k, s)
      PROVE  Due(w)'
  <2>1. /\ HeldBy(s, k) /\ \A t \in SeqArgs \ {s} : job'[t] = job[t]
        /\ \/ job'[s].status = "Failed" /\ job'[s].assigned_worker = job[s].assigned_worker
           \/ job'[s].status = "Pending"
    BY <1>7, FailJobEffect
  <2>2. FinishedBy(w, "Completed")' \subseteq FinishedBy(w, "Completed")
    BY <2>1 DEF FinishedBy
  <2>3. CASE k = w
    <3>1. FinishedBy(w, "Failed")' \subseteq FinishedBy(w, "Failed") \cup {s}
      BY <2>1 DEF FinishedBy
    <3>2. /\ registry'[w].jobs_completed = registry[w].jobs_completed
          /\ registry'[w].jobs_failed = registry[w].jobs_failed + 1
          /\ registry[w].jobs_completed \in Nat /\ registry[w].jobs_failed \in Nat
      BY <1>7, <2>3 DEF FailJob, TypeOK, WorkerRegistry
    <3>3. /\ Cardinality(FinishedBy(w, "Failed")') \in Nat
          /\ Cardinality(FinishedBy(w, "Failed")') <= Cardinality(FinishedBy(w, "Failed")) + 1
      BY <3>1, FinishedByFinite, OneMoreNamed
    <3>4. /\ Cardinality(FinishedBy(w, "Completed")') \in Nat
          /\ Cardinality(FinishedBy(w, "Completed")') <= Cardinality(FinishedBy(w, "Completed"))
      BY <2>2, FinishedByFinite, FewerNamed
    <3> QED
      BY <3>2, <3>3, <3>4, FinishedByFinite DEF CreditsWhereDue
  <2>4. CASE k # w
    <3>1. FinishedBy(w, "Failed")' \subseteq FinishedBy(w, "Failed")
      BY <2>1, <2>4 DEF HeldBy, FinishedBy
    <3> QED
      BY <1>7, <2>2, <2>4, <3>1, CreditsWhereDueFrame DEF FailJob, TypeOK
  <2> QED
    BY <2>3, <2>4
<1>8. ASSUME NEW s \in SeqArgs, ExpireJob(s)
      PROVE  Due(w)'
  <2>1. /\ FinishedBy(w, "Completed")' \subseteq FinishedBy(w, "Completed")
        /\ FinishedBy(w, "Failed")' \subseteq FinishedBy(w, "Failed")
    BY <1>8 DEF ExpireJob, Requeued, FinishedBy, TypeOK, Job
  <2> QED
    BY <1>8, <2>1, CreditsWhereDueFrame DEF ExpireJob
<1>9. ASSUME NEW k \in Keys, NEW s \in SeqArgs, CloseJob(k, s)
      PROVE  Due(w)'
  <2>1. /\ FinishedBy(w, "Completed")' \subseteq FinishedBy(w, "Completed")
        /\ FinishedBy(w, "Failed")' \subseteq FinishedBy(w, "Failed")
    BY <1>9 DEF CloseJob, NoJob, FinishedBy, TypeOK
  <2> QED
    BY <1>9, <2>1, CreditsWhereDueFrame DEF CloseJob
<1> QED
  BY <1>1, <1>2, <1>3, <1>4, <1>5, <1>6, <1>7, <1>8, <1>9
     DEF Next, vars, InitializeQueue, SetQueuePaused, Tick

\* A finished account's worker has the credit for it: complete_job and
\* fail_job never pay another worker than the one the account names.
THEOREM CreditsWhereDueHold == Spec => []CreditsWhereDue
<1>1. Init => CreditsWhereDue
  <2>1. Init => \A k \in Keys : /\ FinishedBy(k, "Completed") = {}
                                /\ FinishedBy(k, "Failed") = {}
    BY DEF Init, NoJob, FinishedBy
  <2> QED
    BY <2>1, FS_EmptySet DEF Init, NoWorker, CreditsWhereDue
<1>2. TypeOK /\ StatusFields /\ CreditsWhereDue /\ [Next]_vars => CreditsWhereDue'
  BY NextCreditsWhereDue
<1> QED
  BY <1>1, <1>2, TypeCorrect, StatusFieldsHold, PTL DEF Spec

LEMMA RetrySums ==
  ASSUME TypeOK
  PROVE  /\ SumFunction(Retries) = SumFunctionOnSet(Retries, SeqArgs)
         /\ \A s \in SeqArgs : Retries[s] \in Nat
         /\ SumFunction(Retries) \in Nat
<1>1. SumFunction(Retries) = SumFunctionOnSet(Retries, SeqArgs)
  BY DEF SumFunction, Retries
<1>2. \A s \in SeqArgs : Retries[s] \in Nat
  BY U8Assumption DEF Retries, TypeOK, Job
<1> QED
  BY <1>1, <1>2, ArgsAssumption, SumType

\* A step that changes one account leaves the sum where it was but for that
\* account's count.
LEMMA RetriesChange ==
  ASSUME NEW f, NEW g, NEW e \in SeqArgs, \A s \in SeqArgs : f[s] \in Nat,
         \A s \in SeqArgs : g[s] \in Nat, \A s \in SeqArgs \ {e} : g[s] = f[s]
  PROVE  /\ g[e] <= f[e] => SumFunctionOnSet(g, SeqArgs) <= SumFunctionOnSet(f, SeqArgs)
         /\ g[e] = f[e] + 1 =>
              SumFunctionOnSet(g, SeqArgs) = SumFunctionOnSet(f, SeqArgs) + 1
<1>1. IsFiniteSet(SeqArgs) /\ g[e] \in Nat /\ f[e] \in Nat
  BY ArgsAssumption
<1>2. SumFunctionOnSet(g, SeqArgs) + f[e] = SumFunctionOnSet(f, SeqArgs) + g[e]
  BY <1>1, SumUpdate
<1>3. SumFunctionOnSet(g, SeqArgs) \in Nat /\ SumFunctionOnSet(f, SeqArgs) \in Nat
  BY <1>1, SumType
<1> QED
  BY <1>1, <1>2, <1>3

LEMMA NextRetriesOnRecord ==
  TypeOK /\ NoCreditUnregistered /\ RetriesOnRecord /\ [Next]_vars => RetriesOnRecord'
<1> SUFFICES ASSUME TypeOK, NoCreditUnregistered, RetriesOnRecord, [Next]_vars
             PROVE  RetriesOnRecord'
  OBVIOUS
<1> DEFINE R == SumFunctionOnSet(Retries, SeqArgs)
           F == SumFunctionOnSet(Failures, Keys)
<1>1. TypeOK'
  BY NextTypeOK
<1>2. /\ R <= F /\ R \in Nat /\ F \in Nat
      /\ \A s \in SeqArgs : Retries[s] \in Nat
      /\ \A k \in Keys : Failures[k] \in Nat
  BY RetrySums, CreditSums DEF RetriesOnRecord
<1>3. /\ Retries' = [s \in SeqArgs |-> job'[s].retry_count]
      /\ Failures' = [k \in Keys |-> registry'[k].jobs_failed]
      /\ \A s \in SeqArgs : Retries'[s] \in Nat
  BY <1>1, U8Assumption DEF Retries, Failures, TypeOK, Job
<1>4. /\ SumFunction(Retries)' = SumFunctionOnSet(Retries', SeqArgs)
      /\ SumFunction(Failures)' = SumFunctionOnSet(Failures', Keys)
      /\ SumFunctionOnSet(Retries', SeqArgs) \in Nat
  <2>1. /\ SumFunction(Retries)' = SumFunctionOnSet(Retries', SeqArgs)
        /\ SumFunction(Failures)' = SumFunctionOnSet(Failures', Keys)
    BY DEF SumFunction, Retries, Failures
  <2>2. SumFunctionOnSet(Retries', SeqArgs) \in Nat
    BY <1>3, ArgsAssumption, SumType
  <2> QED
    BY <2>1, <2>2
<1>5. ASSUME Failures' = Failures, NEW s \in SeqArgs,
             \A t \in SeqArgs \ {s} : job'[t].retry_count = job[t].retry_count,
             job'[s].retry_count <= job[s].retry_count
      PROVE  RetriesOnRecord'
  <2>1. SumFunctionOnSet(Retries', SeqArgs) <= R
    <3>1. /\ \A t \in SeqArgs \ {s} : Retries'[t] = Retries[t]
          /\ Retries'[s] <= Retries[s]
      BY <1>3, <1>5 DEF Retries
    <3> QED
      BY <1>2, <1>3, <3>1, RetriesChange
  <2> QED
    BY <1>2, <1>4, <1>5, <2>1 DEF RetriesOnRecord
<1>6. ASSUME Failures' = Failures, UNCHANGED job
      PROVE  RetriesOnRecord'
  <2>1. Retries' = Retries
    BY <1>6 DEF Retries
  <2> QED
    BY <1>2, <1>4, <1>6, <2>1 DEF RetriesOnRecord
<1>7. ASSUME UNCHANGED registry
      PROVE  Failures' = Failures
  BY <1>7 DEF Failures
<1>8. ASSUME NEW k \in Keys, NEW w \in Keys, RegisterWorker(k, w)
      PROVE  RetriesOnRecord'
  <2>1. registry[w] = NoWorker
    BY <1>8 DEF RegisterWorker, Registrable, NoCreditUnregistered
  <2>2. \A v \in Keys : registry'[v].jobs_failed = registry[v].jobs_failed
    BY <1>8, <2>1 DEF RegisterWorker, NoWorker, TypeOK
  <2> QED
    BY <1>3, <1>6, <1>8, <2>2 DEF RegisterWorker, Failures
<1>9. ASSUME NEW k \in Keys, NEW w \in Keys, DeactivateWorker(k, w)
      PROVE  RetriesOnRecord'
  <2>1. \A v \in Keys : registry'[v].jobs_failed = registry[v].jobs_failed
    BY <1>9 DEF DeactivateWorker, TypeOK, WorkerRegistry
  <2> QED
    BY <1>3, <1>6, <1>9, <2>1 DEF DeactivateWorker, Failures
<1>10. ASSUME NEW k \in Keys, NEW s \in SeqArgs, NEW p \in Priorities,
              NEW o \in RetryOverrides, EnqueueJob(k, s, p, o)
       PROVE  RetriesOnRecord'
  <2>1. /\ \A t \in SeqArgs \ {s} : job'[t].retry_count = job[t].retry_count
        /\ job'[s].retry_count = 0
    BY <1>10 DEF EnqueueJob, NewJob, TypeOK
  <2>2. 0 <= job[s].retry_count
    BY U8Assumption DEF TypeOK, Job
  <2> QED
    BY <1>5, <1>7, <1>10, <2>1, <2>2 DEF EnqueueJob
<1>11. ASSUME NEW k \in Keys, NEW s \in SeqArgs, ClaimJob(k, s)
       PROVE  RetriesOnRecord'
  <2>1. \A t \in SeqArgs : job'[t].retry_count = job[t].retry_count
    BY <1>11 DEF ClaimJob, Claimed, TypeOK, Job
  <2>2. \A v \in Keys : registry'[v].jobs_failed = registry[v].jobs_failed
    BY <1>11 DEF ClaimJob, TypeOK, WorkerRegistry
  <2>3. Failures' = Failures
    BY <1>3, <2>2 DEF Failures
  <2>4. job[s].retry_count <= job[s].retry_count
    BY U8Assumption DEF TypeOK, Job
  <2> QED
    BY <1>5, <2>1, <2>3, <2>4
<1>12. ASSUME NEW k \in Keys, NEW s \in SeqArgs, CompleteJob(k, s)
       PROVE  RetriesOnRecord'
  <2>1. \A t \in SeqArgs : job'[t].retry_count = job[t].retry_count
    BY <1>12 DEF CompleteJob, TypeOK, Job
  <2>2. \A v \in Keys : registry'[v].jobs_failed = registry[v].jobs_failed
    BY <1>12 DEF CompleteJob, TypeOK, WorkerRegistry
  <2>3. Failures' = Failures
    BY <1>3, <2>2 DEF Failures
  <2>4. job[s].retry_count <= job[s].retry_count
    BY U8Assumption DEF TypeOK, Job
  <2> QED
    BY <1>5, <2>1, <2>3, <2>4
<1>13. ASSUME NEW k \in Keys, NEW s \in SeqArgs, FailJob(k, s)
       PROVE  RetriesOnRecord'
  <2>1. /\ Failures'[k] = Failures[k] + 1
        /\ \A v \in Keys \ {k} : Failures'[v] = Failures[v]
    BY <1>13 DEF FailJob, TypeOK, WorkerRegistry, Failures
  <2>2. SumFunctionOnSet(Failures', Keys) = F + 1
    BY <1>2, <2>1, CreditGiven
  <2>3. /\ \A t \in SeqArgs \ {s} : Retries'[t] = Retries[t]
        /\ Retries'[s] = Retries[s] + 1
    BY <1>13, <1>3, FailJobEffect DEF Retries
  <2>4. SumFunctionOnSet(Retries', SeqArgs) = R + 1
    BY <1>2, <1>3, <2>3, RetriesChange
  <2> QED
    BY <1>2, <1>4, <2>2, <2>4 DEF RetriesOnRecord
<1>14. ASSUME NEW s \in SeqArgs, ExpireJob(s)
       PROVE  RetriesOnRecord'
  <2>1. \A t \in SeqArgs : job'[t].retry_count = job[t].retry_count
    BY <1>14 DEF ExpireJob, Requeued, TypeOK, Job
  <2>2. job[s].retry_count <= job[s].retry_count
    BY U8Assumption DEF TypeOK, Job
  <2> QED
    BY <1>5, <1>7, <1>14, <2>1, <2>2 DEF ExpireJob
<1>15. ASSUME NEW k \in Keys, NEW s \in SeqArgs, CloseJob(k, s)
       PROVE  RetriesOnRecord'
  <2>1. /\ \A t \in SeqArgs \ {s} : job'[t].retry_count = job[t].retry_count
        /\ job'[s].retry_count = 0
    BY <1>15 DEF CloseJob, NoJob, TypeOK
  <2>2. 0 <= job[s].retry_count
    BY U8Assumption DEF TypeOK, Job
  <2> QED
    BY <1>5, <1>7, <1>15, <2>1, <2>2 DEF CloseJob
<1> QED
  BY <1>6, <1>7, <1>8, <1>9, <1>10, <1>11, <1>12, <1>13, <1>14, <1>15
     DEF Next, vars, InitializeQueue, SetQueuePaused, Tick

\* The retries of all existing jobs together are covered by the failures on
\* the workers' records: only fail_job spends a retry.
THEOREM RetriesOnRecordHolds == Spec => []RetriesOnRecord
<1>1. Init => RetriesOnRecord
  <2> SUFFICES ASSUME Init PROVE RetriesOnRecord
    OBVIOUS
  <2>1. \A s \in SeqArgs : Retries[s] = 0
    BY DEF Init, NoJob, Retries
  <2>2. SumFunctionOnSet(Retries, SeqArgs) = 0
    BY <2>1, ArgsAssumption, SumZero
  <2> QED
    BY <2>2, RetrySums, CreditSums, InitTypeOK DEF RetriesOnRecord
<1>2. TypeOK /\ NoCreditUnregistered /\ RetriesOnRecord /\ [Next]_vars => RetriesOnRecord'
  BY NextRetriesOnRecord
<1> QED
  BY <1>1, <1>2, TypeCorrect, NoCreditUnregisteredHolds, PTL DEF Spec

-----------------------------------------------------------------------------
(* What a step may never do.                                               *)

\* A claim is exclusive: no step hands a Processing job to another worker.
THEOREM ClaimsNeverStolen == Spec => ClaimNotStolen
<1>1. TypeOK /\ [Next]_vars =>
        \A s \in SeqArgs :
          job[s].status = "Processing" /\ job'[s].status = "Processing"
            => job'[s] = job[s]
  <2> SUFFICES ASSUME TypeOK, Next, NEW s \in SeqArgs,
                      job[s].status = "Processing", job'[s].status = "Processing"
               PROVE  job'[s] = job[s]
    BY DEF vars
  <2>1. ASSUME NEW k \in Keys, NEW t \in SeqArgs, NEW p \in Priorities,
               NEW o \in RetryOverrides, EnqueueJob(k, t, p, o)
        PROVE  job'[s] = job[s]
    BY <2>1 DEF EnqueueJob, NewJob, TypeOK
  <2>2. ASSUME NEW k \in Keys, NEW t \in SeqArgs, ClaimJob(k, t)
        PROVE  job'[s] = job[s]
    BY <2>2 DEF ClaimJob, Claimable, TypeOK
  <2>3. ASSUME NEW k \in Keys, NEW t \in SeqArgs, CompleteJob(k, t)
        PROVE  job'[s] = job[s]
    BY <2>3 DEF CompleteJob, TypeOK, Job
  <2>4. ASSUME NEW k \in Keys, NEW t \in SeqArgs, FailJob(k, t)
        PROVE  job'[s] = job[s]
    BY <2>4, FailJobEffect
  <2>5. ASSUME NEW t \in SeqArgs, ExpireJob(t)
        PROVE  job'[s] = job[s]
    BY <2>5 DEF ExpireJob, Requeued, TypeOK, Job
  <2>6. ASSUME NEW k \in Keys, NEW t \in SeqArgs, CloseJob(k, t)
        PROVE  job'[s] = job[s]
    BY <2>6 DEF CloseJob, NoJob, TypeOK
  <2> QED
    BY <2>1, <2>2, <2>3, <2>4, <2>5, <2>6
       DEF Next, InitializeQueue, SetQueuePaused, RegisterWorker,
           DeactivateWorker, Tick
<1> QED
  BY <1>1, TypeCorrect, PTL DEF Spec, ClaimNotStolen

\* A deactivated worker's record never changes again.
THEOREM DeactivationIsFinal == Spec => DeactivationFinal
<1>1. TypeOK /\ [Next]_vars =>
        \A k \in Keys :
          registry[k].exists /\ ~registry[k].is_active => registry'[k] = registry[k]
  <2> SUFFICES ASSUME TypeOK, Next, NEW w \in Keys,
                      registry[w].exists, ~registry[w].is_active
               PROVE  registry'[w] = registry[w]
    BY DEF vars
  <2>1. ASSUME NEW k \in Keys, NEW v \in Keys, RegisterWorker(k, v)
        PROVE  registry'[w] = registry[w]
    BY <2>1 DEF RegisterWorker, Registrable, TypeOK
  <2>2. ASSUME NEW k \in Keys, NEW v \in Keys, DeactivateWorker(k, v)
        PROVE  registry'[w] = registry[w]
    <3>1. CASE v = w
      <4>1. registry'[w] = [registry[w] EXCEPT !.is_active = FALSE]
        BY <2>2, <3>1 DEF DeactivateWorker, TypeOK
      <4> QED
        BY <4>1 DEF TypeOK, WorkerRegistry
    <3> QED
      BY <2>2, <3>1 DEF DeactivateWorker, TypeOK
  <2>3. ASSUME NEW k \in Keys, NEW s \in SeqArgs, ClaimJob(k, s)
        PROVE  registry'[w] = registry[w]
    BY <2>3 DEF ClaimJob, ActiveWorker, TypeOK
  <2>4. ASSUME NEW k \in Keys, NEW s \in SeqArgs, CompleteJob(k, s)
        PROVE  registry'[w] = registry[w]
    BY <2>4 DEF CompleteJob, ActiveWorker, TypeOK
  <2>5. ASSUME NEW k \in Keys, NEW s \in SeqArgs, FailJob(k, s)
        PROVE  registry'[w] = registry[w]
    BY <2>5 DEF FailJob, ActiveWorker, TypeOK
  <2> QED
    BY <2>1, <2>2, <2>3, <2>4, <2>5
       DEF Next, InitializeQueue, SetQueuePaused, EnqueueJob, ExpireJob,
           CloseJob, Tick
<1> QED
  BY <1>1, TypeCorrect, PTL DEF Spec, DeactivationFinal


\* A worker loses its claim only by reporting a failure, which is on its
\* record and costs a retry, or by overrunning the timeout, which costs none.
THEOREM LeasesAreHonoured == Spec => LeaseHonoured
<1>1. TypeOK /\ StatusFields /\ [Next]_vars =>
        \A s \in SeqArgs :
          job[s].status = "Processing" /\ job'[s].status = "Pending" =>
            LET w == job[s].assigned_worker IN
            IF registry'[w].jobs_failed = registry[w].jobs_failed + 1
            THEN job'[s].retry_count = job[s].retry_count + 1
            ELSE /\ now > job[s].started_at + queue.job_timeout_secs
                 /\ job'[s].retry_count = job[s].retry_count
  <2> SUFFICES ASSUME TypeOK, StatusFields, Next, NEW s \in SeqArgs,
                      job[s].status = "Processing", job'[s].status = "Pending"
               PROVE  LET w == job[s].assigned_worker IN
                      IF registry'[w].jobs_failed = registry[w].jobs_failed + 1
                      THEN job'[s].retry_count = job[s].retry_count + 1
                      ELSE /\ now > job[s].started_at + queue.job_timeout_secs
                           /\ job'[s].retry_count = job[s].retry_count
    BY DEF vars
  <2> DEFINE w == job[s].assigned_worker
             Lease ==
               IF registry'[w].jobs_failed = registry[w].jobs_failed + 1
               THEN job'[s].retry_count = job[s].retry_count + 1
               ELSE /\ now > job[s].started_at + queue.job_timeout_secs
                    /\ job'[s].retry_count = job[s].retry_count
  <2>1. ASSUME NEW k \in Keys, NEW t \in SeqArgs, NEW p \in Priorities,
               NEW o \in RetryOverrides, EnqueueJob(k, t, p, o)
        PROVE  Lease
    BY <2>1 DEF EnqueueJob, Live, TypeOK
  <2>2. ASSUME NEW k \in Keys, NEW t \in SeqArgs, ClaimJob(k, t)
        PROVE  Lease
    BY <2>2 DEF ClaimJob, Claimable, TypeOK
  <2>3. ASSUME NEW k \in Keys, NEW t \in SeqArgs, CompleteJob(k, t)
        PROVE  Lease
    BY <2>3 DEF CompleteJob, TypeOK, Job
  <2>4. ASSUME NEW k \in Keys, NEW t \in SeqArgs, FailJob(k, t)
        PROVE  Lease
    <3>1. t = s /\ w = k /\ job'[s].retry_count = job[s].retry_count + 1
      BY <2>4, FailJobEffect DEF HeldBy
    <3>2. registry'[k].jobs_failed = registry[k].jobs_failed + 1
      BY <2>4 DEF FailJob, TypeOK, WorkerRegistry
    <3> QED
      BY <3>1, <3>2
  <2>5. ASSUME NEW t \in SeqArgs, ExpireJob(t)
        PROVE  Lease
    <3>1. t = s /\ job'[s].retry_count = job[s].retry_count
      BY <2>5 DEF ExpireJob, Requeued, TypeOK, Job
    <3>2. now > job[s].started_at + queue.job_timeout_secs
      BY <2>5, <3>1 DEF ExpireJob, IsExpired
    <3>3. registry' = registry
      BY <2>5 DEF ExpireJob
    <3>4. registry[w].jobs_failed \in Nat
      BY DEF StatusFields, TypeOK, WorkerRegistry
    <3> HIDE DEF w
    <3> QED
      BY <3>1, <3>2, <3>3, <3>4
  <2>6. ASSUME NEW k \in Keys, NEW t \in SeqArgs, CloseJob(k, t)
        PROVE  Lease
    BY <2>6 DEF CloseJob, NoJob, TypeOK
  <2> QED
    BY <2>1, <2>2, <2>3, <2>4, <2>5, <2>6
       DEF Next, InitializeQueue, SetQueuePaused, RegisterWorker,
           DeactivateWorker, Tick
<1> QED
  BY <1>1, TypeCorrect, StatusFieldsHold, PTL DEF Spec, LeaseHonoured


-----------------------------------------------------------------------------
(* When a failure can be reported.                                         *)

\* What fail_job does when its checks (FailAccepted) pass.
FailDone(k, s) ==
  LET failed == [job[s] EXCEPT !.retry_count = @ + 1, !.result = "reason"]
      givenUp == failed.retry_count > failed.max_retries
  IN
  /\ job' = [job EXCEPT ![s] =
               IF givenUp THEN [failed EXCEPT !.status = "Failed", !.completed_at = now]
               ELSE Requeued(failed)]
  /\ queue' = IF givenUp THEN [queue EXCEPT !.total_failed = @ + 1] ELSE queue
  /\ registry' = [registry EXCEPT ![k].jobs_failed = @ + 1]
  /\ now' = now

\* The action is its checks and then an assignment to every account: what
\* FailAccepted allows is what the program executes.
LEMMA FailJobParts ==
  ASSUME TypeOK, NEW k \in Keys, NEW s \in SeqArgs
  PROVE  FailJob(k, s) <=> FailAccepted(k, s) /\ FailDone(k, s)
<1> DEFINE failed == [job[s] EXCEPT !.retry_count = @ + 1, !.result = "reason"]
           givenUp == failed.retry_count > failed.max_retries
<1>1. /\ failed.retry_count = job[s].retry_count + 1
      /\ failed.max_retries = job[s].max_retries
  BY DEF TypeOK, Job
<1>2. FailDone(k, s) <=>
        /\ job' = [job EXCEPT ![s] =
                     IF givenUp THEN [failed EXCEPT !.status = "Failed", !.completed_at = now]
                     ELSE Requeued(failed)]
        /\ queue' = IF givenUp THEN [queue EXCEPT !.total_failed = @ + 1] ELSE queue
        /\ registry' = [registry EXCEPT ![k].jobs_failed = @ + 1]
        /\ now' = now
  BY DEF FailDone
<1>3. FailJob(k, s) <=>
        /\ queue.exists /\ ActiveWorker(k) /\ HeldBy(s, k)
        /\ failed.retry_count <= U8Max
        /\ registry' = [registry EXCEPT ![k].jobs_failed = @ + 1]
        /\ \/ /\ givenUp
              /\ job' = [job EXCEPT ![s] = [failed EXCEPT !.status = "Failed",
                                                          !.completed_at = now]]
              /\ queue' = [queue EXCEPT !.total_failed = @ + 1]
           \/ /\ ~givenUp
              /\ failed.max_retries + 1 <= U8Max
              /\ job' = [job EXCEPT ![s] = Requeued(failed)]
              /\ queue' = queue
        /\ now' = now
  BY DEF FailJob, Exhausted
<1> HIDE DEF failed
<1>4. FailAccepted(k, s) <=>
        /\ queue.exists /\ ActiveWorker(k) /\ HeldBy(s, k)
        /\ failed.retry_count <= U8Max
        /\ givenUp \/ failed.max_retries + 1 <= U8Max
  BY <1>1 DEF FailAccepted
<1> HIDE DEF givenUp
<1>5. CASE givenUp
  BY <1>2, <1>3, <1>4, <1>5, Zenon
<1>6. CASE ~givenUp
  BY <1>2, <1>3, <1>4, <1>6, Zenon
<1> QED
  BY <1>5, <1>6

\* fail_job accepts the report of a worker that holds the job for every retry
\* limit below the largest u8, and for none that is equal to it: the line
\* that logs max_retries + 1 aborts each of those reports.
FailureAccepted ==
  \A s \in SeqArgs, k \in Keys :
    ActiveWorker(k) /\ HeldBy(s, k) =>
      (FailAccepted(k, s) <=> job[s].max_retries < U8Max)

\* Whatever failures and expiries a job has behind it, nothing but its limit
\* decides whether fail_job can be executed.
THEOREM FailuresAccepted == Spec => []FailureAccepted
<1>1. TypeOK /\ StatusFields /\ RetryBudget => FailureAccepted
  <2> SUFFICES ASSUME TypeOK, StatusFields, RetryBudget,
                      NEW s \in SeqArgs, NEW k \in Keys, ActiveWorker(k), HeldBy(s, k)
               PROVE  FailAccepted(k, s) <=> job[s].max_retries < U8Max
    BY DEF FailureAccepted
  <2>1. /\ queue.exists
        /\ job[s].retry_count <= job[s].max_retries
    BY DEF StatusFields, RetryBudget, HeldBy, Live
  <2>2. /\ job[s].retry_count \in Nat /\ job[s].max_retries \in Nat
        /\ job[s].max_retries <= U8Max /\ U8Max \in Nat
    BY U8Assumption DEF TypeOK, Job
  <2> QED
    BY <2>1, <2>2 DEF FailAccepted
<1> QED
  BY <1>1, TypeCorrect, StatusFieldsHold, RetryBudgetHolds, PTL

-----------------------------------------------------------------------------
(* The program implements the abstract job queue.                          *)

\* A step is invisible to the abstract queue if the accounts it changes are
\* neither Pending nor Processing before or after.
LEMMA RefinementFrame ==
  ASSUME queue'.next_job_seq = queue.next_job_seq,
         \A s \in SeqArgs :
           \/ job'[s] = job[s]
           \/ /\ job[s].status \notin {"Pending", "Processing"}
              /\ job'[s].status \notin {"Pending", "Processing"}
  PROVE  UNCHANGED JQ!vars
<1>1. Waiting' = Waiting
  BY DEF Waiting
<1>2. Running' = Running
  BY DEF Running
<1> QED
  BY <1>1, <1>2 DEF JQ!vars

\* A claimed job leaves the waiting jobs and runs under its claimer.
LEMMA ClaimRefines ==
  ASSUME TypeOK, SeqsUnique, NEW k \in Keys, NEW s \in SeqArgs, ClaimJob(k, s)
  PROVE  JQ!Claim(job[s].seq, k)
<1>1. /\ job[s].status = "Pending"
      /\ job'[s].status = "Processing"
      /\ job'[s].seq = job[s].seq
      /\ job'[s].assigned_worker = k
      /\ \A t \in SeqArgs \ {s} : job'[t] = job[t]
  BY DEF ClaimJob, Claimed, Claimable, TypeOK, Job
<1>2. \A t \in SeqArgs \ {s} : Live(t) => job[t].seq # job[s].seq
  BY <1>1 DEF SeqsUnique, Live
<1>3. job[s].seq \in Waiting
  BY <1>1 DEF Waiting
<1>4. Waiting' = Waiting \ {job[s].seq}
  BY <1>1, <1>2 DEF Waiting, Live
<1>5. Running' = Running \cup {<<job[s].seq, k>>}
  BY <1>1 DEF Running
<1> QED
  BY <1>3, <1>4, <1>5 DEF JQ!Claim, ClaimJob

\* A job that goes back to Pending, by a failure or a timeout, is released.
LEMMA RequeueRefines ==
  ASSUME SeqsUnique, NEW s \in SeqArgs, job[s].status = "Processing",
         job'[s].status = "Pending", job'[s].seq = job[s].seq,
         \A t \in SeqArgs \ {s} : job'[t] = job[t],
         queue'.next_job_seq = queue.next_job_seq
  PROVE  JQ!Release(job[s].seq, job[s].assigned_worker)
<1>1. \A t \in SeqArgs \ {s} : Live(t) => job[t].seq # job[s].seq
  BY DEF SeqsUnique, Live
<1>2. <<job[s].seq, job[s].assigned_worker>> \in Running
  BY DEF Running
<1>3. Waiting' = Waiting \cup {job[s].seq}
  BY DEF Waiting
<1>4. Running' = Running \ {<<job[s].seq, job[s].assigned_worker>>}
  BY <1>1 DEF Running, Live
<1> QED
  BY <1>2, <1>3, <1>4 DEF JQ!Release

\* A job that completes or fails for good is finished.
LEMMA FinishRefines ==
  ASSUME SeqsUnique, NEW s \in SeqArgs, job[s].status = "Processing",
         job'[s].status \in {"Completed", "Failed"},
         \A t \in SeqArgs \ {s} : job'[t] = job[t],
         queue'.next_job_seq = queue.next_job_seq
  PROVE  JQ!Finish(job[s].seq, job[s].assigned_worker)
<1>1. \A t \in SeqArgs \ {s} : Live(t) => job[t].seq # job[s].seq
  BY DEF SeqsUnique, Live
<1>2. <<job[s].seq, job[s].assigned_worker>> \in Running
  BY DEF Running
<1>3. Waiting' = Waiting
  BY DEF Waiting
<1>4. Running' = Running \ {<<job[s].seq, job[s].assigned_worker>>}
  BY <1>1 DEF Running, Live
<1> QED
  BY <1>2, <1>3, <1>4 DEF JQ!Finish

LEMMA NextRefines ==
  TypeOK /\ StatusFields /\ SeqsUnique /\ NothingIssued /\ [Next]_vars
    => [JQ!Next]_(JQ!vars)
<1> SUFFICES ASSUME TypeOK, StatusFields, SeqsUnique, NothingIssued, [Next]_vars
             PROVE  JQ!Next \/ UNCHANGED JQ!vars
  OBVIOUS
<1>1. \A s \in SeqArgs : Live(s) => job[s].seq \in JQ!Numbers
  BY DEF TypeOK, QueueConfig, Job, SeqsUnique, JQ!Numbers
<1>2. CASE UNCHANGED job /\ queue'.next_job_seq = queue.next_job_seq
  BY <1>2, RefinementFrame
<1>3. ASSUME NEW k \in Keys, NEW r \in MaxRetriesArgs, NEW t \in Timeouts,
             InitializeQueue(k, r, t)
      PROVE  UNCHANGED JQ!vars
  <2>1. queue.next_job_seq = 0 /\ queue'.next_job_seq = 0
    BY <1>3 DEF InitializeQueue, NoQueue, NothingIssued
  <2> QED
    BY <1>3, <2>1, RefinementFrame DEF InitializeQueue
<1>4. ASSUME NEW k \in Keys, NEW p \in BOOLEAN, SetQueuePaused(k, p)
      PROVE  UNCHANGED JQ!vars
  <2>1. queue'.next_job_seq = queue.next_job_seq
    BY <1>4 DEF SetQueuePaused, TypeOK, QueueConfig
  <2> QED
    BY <1>4, <2>1, RefinementFrame DEF SetQueuePaused
<1>5. ASSUME NEW k \in Keys, NEW s \in SeqArgs, NEW p \in Priorities,
             NEW o \in RetryOverrides, EnqueueJob(k, s, p, o)
      PROVE  JQ!Submit
  <2>1. /\ job[s].status = "NoAccount"
        /\ job'[s].status = "Pending"
        /\ job'[s].seq = queue.next_job_seq
        /\ \A t \in SeqArgs \ {s} : job'[t] = job[t]
    BY <1>5 DEF EnqueueJob, NewJob, Live, TypeOK
  <2>2. queue'.next_job_seq = queue.next_job_seq + 1
    BY <1>5 DEF EnqueueJob, EnqueuedOn, TypeOK, QueueConfig
  <2>3. Waiting' = Waiting \cup {queue.next_job_seq}
    BY <2>1 DEF Waiting
  <2>4. Running' = Running
    BY <2>1 DEF Running
  <2> QED
    BY <2>2, <2>3, <2>4 DEF JQ!Submit
<1>6. ASSUME NEW k \in Keys, NEW s \in SeqArgs, ClaimJob(k, s)
      PROVE  JQ!Next
  <2>1. Live(s)
    BY <1>6 DEF ClaimJob, Claimable, Live
  <2> QED
    BY <1>1, <1>6, <2>1, ClaimRefines DEF JQ!Next
<1>7. ASSUME NEW s \in SeqArgs, job[s].status = "Processing",
             job'[s].status \in {"Pending", "Completed", "Failed"},
             job'[s].seq = job[s].seq,
             \A t \in SeqArgs \ {s} : job'[t] = job[t],
             queue'.next_job_seq = queue.next_job_seq
      PROVE  JQ!Next
  <2>1. job[s].seq \in JQ!Numbers /\ job[s].assigned_worker \in Keys
    BY <1>1, <1>7 DEF Live, StatusFields
  <2>2. CASE job'[s].status = "Pending"
    BY <1>7, <2>1, <2>2, RequeueRefines DEF JQ!Next
  <2>3. CASE job'[s].status # "Pending"
    BY <1>7, <2>1, <2>3, FinishRefines DEF JQ!Next
  <2> QED
    BY <2>2, <2>3
<1>8. ASSUME NEW k \in Keys, NEW s \in SeqArgs, CompleteJob(k, s)
      PROVE  JQ!Next
  <2>1. queue'.next_job_seq = queue.next_job_seq
    BY <1>8 DEF CompleteJob, TypeOK, QueueConfig
  <2> QED
    BY <1>7, <1>8, <2>1 DEF CompleteJob, HeldBy, TypeOK, Job
<1>9. ASSUME NEW k \in Keys, NEW s \in SeqArgs, FailJob(k, s)
      PROVE  JQ!Next
  <2>1. queue'.next_job_seq = queue.next_job_seq
    BY <1>9, FailJobEffect DEF TypeOK, QueueConfig
  <2> QED
    BY <1>7, <1>9, <2>1, FailJobEffect DEF HeldBy
<1>10. ASSUME NEW s \in SeqArgs, ExpireJob(s)
       PROVE  JQ!Next
  <2>1. /\ job[s].status = "Processing"
        /\ job'[s].status = "Pending"
        /\ job'[s].seq = job[s].seq
        /\ \A t \in SeqArgs \ {s} : job'[t] = job[t]
    BY <1>10 DEF ExpireJob, IsExpired, Requeued, TypeOK, Job
  <2> QED
    BY <1>7, <1>10, <2>1 DEF ExpireJob
<1>11. ASSUME NEW k \in Keys, NEW s \in SeqArgs, CloseJob(k, s)
       PROVE  UNCHANGED JQ!vars
  <2>1. \A t \in SeqArgs :
          \/ job'[t] = job[t]
          \/ /\ job[t].status \notin {"Pending", "Processing"}
             /\ job'[t].status \notin {"Pending", "Processing"}
    BY <1>11 DEF CloseJob, Closable, NoJob, TypeOK
  <2> QED
    BY <1>11, <2>1, RefinementFrame DEF CloseJob
<1> QED
  BY <1>2, <1>3, <1>4, <1>5, <1>6, <1>8, <1>9, <1>10, <1>11
     DEF Next, vars, RegisterWorker, DeactivateWorker, Tick, JQ!Next

\* Seen through the mapping, every behaviour of the program is one of the
\* abstract job queue, for any number of keys, addresses and jobs.
THEOREM Refinement == Spec => ImplementsJobQueue
<1>1. Init => JQ!Init
  BY DEF Init, NoQueue, NoJob, Waiting, Running, JQ!Init
<1>2. TypeOK /\ StatusFields /\ SeqsUnique /\ NothingIssued /\ [Next]_vars
        => [JQ!Next]_(JQ!vars)
  BY NextRefines
<1> QED
  BY <1>1, <1>2, TypeCorrect, StatusFieldsHold, SeqsUniqueHolds, NothingIssuedHolds,
     PTL DEF Spec, ImplementsJobQueue, JQ!Spec

\* What is proved of the abstract queue, for the numbers of the program's jobs.
JQProofs == INSTANCE JobQueueProofs WITH
  Workers <- Keys, issued <- queue.next_job_seq, waiting <- Waiting, running <- Running

\* A job that completed or failed for good is never waiting or processed
\* again under its number, through closed accounts and reused addresses.
THEOREM JobsFinishOnce == Spec => JQ!FinishedForever
<1>1. JQ!Init => JQProofs!Init
  BY DEF JQ!Init, JQProofs!Init
<1>2. [JQ!Next]_(JQ!vars) => [JQProofs!Next]_(JQProofs!vars)
  BY DEF JQ!Next, JQ!vars, JQ!Numbers, JQ!Submit, JQ!Claim, JQ!Release, JQ!Finish,
         JQProofs!Next, JQProofs!vars, JQProofs!Numbers, JQProofs!Submit,
         JQProofs!Claim, JQProofs!Release, JQProofs!Finish
<1>3. [JQProofs!Finished \subseteq JQProofs!Finished']_(JQProofs!vars)
        => [JQ!Finished \subseteq JQ!Finished']_(JQ!vars)
  BY DEF JQ!Finished, JQ!Numbers, JQ!vars, JQProofs!Finished, JQProofs!Numbers,
         JQProofs!vars
<1>4. JQProofs!Spec => JQProofs!FinishedForever
  BY JQProofs!FinishedIsFinal
<1> QED
  BY <1>1, <1>2, <1>3, <1>4, Refinement, PTL
     DEF ImplementsJobQueue, JQ!Spec, JQ!FinishedForever,
         JQProofs!Spec, JQProofs!FinishedForever

-----------------------------------------------------------------------------
(* The program implements the life of one job at every address.            *)

\* An address without an account holds nothing of an earlier job, and no job
\* exists before the queue it belongs to.
FreshAddresses ==
  \A s \in SeqArgs : IF Live(s) THEN queue.exists ELSE job[s] = NoJob

LEMMA FreshAddressesHold == Spec => []FreshAddresses
<1>1. Init => FreshAddresses
  BY DEF Init, FreshAddresses, Live, NoJob
<1>2. TypeOK /\ FreshAddresses /\ [Next]_vars => FreshAddresses'
  <2> SUFFICES ASSUME TypeOK, FreshAddresses, [Next]_vars PROVE FreshAddresses'
    OBVIOUS
  <2>1. queue.exists => queue'.exists
    BY DEF TypeOK, QueueConfig, Next, vars, InitializeQueue, SetQueuePaused,
           RegisterWorker, DeactivateWorker, EnqueueJob, EnqueuedOn, ClaimJob,
           CompleteJob, FailJob, ExpireJob, CloseJob, Tick
  <2>2. CASE UNCHANGED job
    BY <2>1, <2>2 DEF FreshAddresses, Live
  <2>3. ASSUME NEW s \in SeqArgs, queue.exists, \A t \in SeqArgs \ {s} : job'[t] = job[t],
               job'[s].status # "NoAccount" \/ job'[s] = NoJob
        PROVE  FreshAddresses'
    BY <2>1, <2>3 DEF FreshAddresses, Live, NoJob
  <2>4. ASSUME NEW k \in Keys, NEW s \in SeqArgs,
               \/ \E p \in Priorities, o \in RetryOverrides : EnqueueJob(k, s, p, o)
               \/ CloseJob(k, s)
        PROVE  FreshAddresses'
    BY <2>3, <2>4 DEF EnqueueJob, NewJob, CloseJob, TypeOK
  <2>5. ASSUME NEW k \in Keys, NEW s \in SeqArgs, ClaimJob(k, s)
        PROVE  FreshAddresses'
    BY <2>3, <2>5 DEF ClaimJob, Claimed, TypeOK, Job
  <2>6. ASSUME NEW k \in Keys, NEW s \in SeqArgs, FailJob(k, s)
        PROVE  FreshAddresses'
    <3>1. queue.exists
      BY <2>6 DEF FailJob
    <3> QED
      BY <2>3, <2>6, <3>1, FailJobEffect
  <2>7. ASSUME NEW k \in Keys, NEW s \in SeqArgs, CompleteJob(k, s)
        PROVE  FreshAddresses'
    BY <2>3, <2>7 DEF CompleteJob, TypeOK, Job
  <2>8. ASSUME NEW s \in SeqArgs, ExpireJob(s)
        PROVE  FreshAddresses'
    BY <2>3, <2>8 DEF ExpireJob, Requeued, TypeOK, Job
  <2> QED
    BY <2>2, <2>4, <2>5, <2>6, <2>7, <2>8
       DEF Next, vars, InitializeQueue, SetQueuePaused, RegisterWorker,
           DeactivateWorker, Tick
<1> QED
  BY <1>1, <1>2, TypeCorrect, PTL DEF Spec

\* What one address sees of a step that leaves its account alone.
LEMMA LifeFrame ==
  ASSUME NEW s \in SeqArgs, job'[s] = job[s],
         queue'.job_timeout_secs = queue.job_timeout_secs, now' = now
  PROVE  UNCHANGED Life(s)!vars
BY DEF Life!vars, Live

\* What each instruction does to the life of the job it names.
LEMMA EnqueueLife ==
  ASSUME TypeOK, FreshAddresses, NEW k \in Keys, NEW s \in SeqArgs,
         NEW p \in Priorities, NEW o \in RetryOverrides, EnqueueJob(k, s, p, o)
  PROVE  Life(s)!Enqueue
<1>1. job[s] = NoJob /\ job'[s] = NewJob(k, p, o)
  BY DEF EnqueueJob, FreshAddresses, TypeOK
<1>2. queue'.job_timeout_secs = queue.job_timeout_secs /\ now' = now
  BY DEF EnqueueJob, EnqueuedOn, TypeOK, QueueConfig
<1> QED
  BY <1>1, <1>2 DEF NoJob, NewJob, Life!Enqueue, Live

LEMMA ClaimLife ==
  ASSUME TypeOK, NEW k \in Keys, NEW s \in SeqArgs, ClaimJob(k, s)
  PROVE  Life(s)!Claim(k)
<1>1. /\ job[s].status = "Pending"
      /\ job'[s] = Claimed(job[s], k)
      /\ queue' = queue /\ now' = now
  BY DEF ClaimJob, Claimable, TypeOK
<1>2. /\ job'[s].status = "Processing"
      /\ job'[s].assigned_worker = k
      /\ job'[s].started_at = now
      /\ job'[s].seq = job[s].seq
      /\ job'[s].creator = job[s].creator
      /\ job'[s].priority = job[s].priority
      /\ job'[s].max_retries = job[s].max_retries
      /\ job'[s].enqueued_at = job[s].enqueued_at
      /\ job'[s].retry_count = job[s].retry_count
  BY <1>1 DEF Claimed, TypeOK, Job
<1> QED
  BY <1>1, <1>2 DEF Life!Claim, Live

LEMMA CompleteLife ==
  ASSUME TypeOK, NEW k \in Keys, NEW s \in SeqArgs, CompleteJob(k, s)
  PROVE  Life(s)!Complete
<1>1. /\ job[s].status = "Processing"
      /\ job'[s] = [job[s] EXCEPT !.status = "Completed", !.completed_at = now,
                                  !.result = "result"]
      /\ now' = now
  BY DEF CompleteJob, HeldBy, TypeOK
<1>2. queue'.job_timeout_secs = queue.job_timeout_secs
  BY DEF CompleteJob, TypeOK, QueueConfig
<1>3. /\ job'[s].status = "Completed"
      /\ job'[s].assigned_worker = job[s].assigned_worker
      /\ job'[s].started_at = job[s].started_at
      /\ job'[s].seq = job[s].seq
      /\ job'[s].creator = job[s].creator
      /\ job'[s].priority = job[s].priority
      /\ job'[s].max_retries = job[s].max_retries
      /\ job'[s].enqueued_at = job[s].enqueued_at
      /\ job'[s].retry_count = job[s].retry_count
  BY <1>1 DEF TypeOK, Job
<1> QED
  BY <1>1, <1>2, <1>3 DEF Life!Complete, Live

\* fail_job compares the new count with the limit, strictly; the README says
\* the same of the count before.
LEMMA FailLife ==
  ASSUME TypeOK, NEW k \in Keys, NEW s \in SeqArgs, FailJob(k, s)
  PROVE  Life(s)!Fail
<1>1. /\ job[s].status = "Processing"
      /\ job[s].retry_count \in Nat /\ job[s].max_retries \in Nat
  BY FailJobEffect, U8Assumption DEF HeldBy, TypeOK, Job
<1>2. queue'.job_timeout_secs = queue.job_timeout_secs /\ now' = now
  BY DEF FailJob, TypeOK, QueueConfig
<1>3. /\ job'[s].seq = job[s].seq
      /\ job'[s].creator = job[s].creator
      /\ job'[s].priority = job[s].priority
      /\ job'[s].max_retries = job[s].max_retries
      /\ job'[s].enqueued_at = job[s].enqueued_at
      /\ job'[s].retry_count = job[s].retry_count + 1
  BY FailJobEffect
<1>4. IF job[s].retry_count < job[s].max_retries
      THEN job'[s].status = "Pending"
      ELSE /\ job'[s].status = "Failed"
           /\ job'[s].assigned_worker = job[s].assigned_worker
           /\ job'[s].started_at = job[s].started_at
  BY <1>1, FailJobEffect
<1> QED
  BY <1>1, <1>2, <1>3, <1>4 DEF Life!Fail, Live

LEMMA ExpireLife ==
  ASSUME TypeOK, NEW s \in SeqArgs, ExpireJob(s)
  PROVE  Life(s)!TimeOut
<1>1. /\ job[s].status = "Processing"
      /\ now > job[s].started_at + queue.job_timeout_secs
      /\ job'[s] = [Requeued(job[s]) EXCEPT !.result = "expiry note"]
      /\ queue' = queue /\ now' = now
  BY DEF ExpireJob, IsExpired, TypeOK
<1>2. /\ job'[s].status = "Pending"
      /\ job'[s].seq = job[s].seq
      /\ job'[s].creator = job[s].creator
      /\ job'[s].priority = job[s].priority
      /\ job'[s].max_retries = job[s].max_retries
      /\ job'[s].enqueued_at = job[s].enqueued_at
      /\ job'[s].retry_count = job[s].retry_count
  BY <1>1 DEF Requeued, TypeOK, Job
<1> QED
  BY <1>1, <1>2 DEF Life!TimeOut, Live

LEMMA CloseLife ==
  ASSUME TypeOK, NEW k \in Keys, NEW s \in SeqArgs, CloseJob(k, s)
  PROVE  Life(s)!Remove
BY DEF CloseJob, Closable, NoJob, TypeOK, Life!Remove, Live

LEMMA InitializeLife ==
  ASSUME TypeOK, FreshAddresses, NEW k \in Keys, NEW r \in MaxRetriesArgs,
         NEW t \in Timeouts, InitializeQueue(k, r, t), NEW s \in SeqArgs
  PROVE  Life(s)!Configure
<1>1. job[s].status = "NoAccount"
  BY DEF InitializeQueue, FreshAddresses, Live
<1>2. queue'.job_timeout_secs \in Int
  BY ArgsAssumption DEF InitializeQueue, NoQueue
<1> QED
  BY <1>1, <1>2 DEF InitializeQueue, Life!Configure, Live

LEMMA NextLife ==
  ASSUME TypeOK, FreshAddresses, [Next]_vars, NEW s \in SeqArgs
  PROVE  [Life(s)!Next]_(Life(s)!vars)
<1> SUFFICES Life(s)!Next \/ UNCHANGED Life(s)!vars
  OBVIOUS
<1>1. ASSUME NEW t \in SeqArgs, t # s, job' = [job EXCEPT ![t] = job'[t]],
             queue'.job_timeout_secs = queue.job_timeout_secs, now' = now
      PROVE  UNCHANGED Life(s)!vars
  BY <1>1, LifeFrame DEF TypeOK
<1>2. CASE UNCHANGED vars
  BY <1>2, LifeFrame DEF vars
<1>3. ASSUME NEW k \in Keys, NEW r \in MaxRetriesArgs, NEW t \in Timeouts,
             InitializeQueue(k, r, t)
      PROVE  Life(s)!Next
  BY <1>3, InitializeLife DEF Life!Next
<1>4. ASSUME NEW k \in Keys,
             \/ \E p \in BOOLEAN : SetQueuePaused(k, p)
             \/ \E w \in Keys : RegisterWorker(k, w) \/ DeactivateWorker(k, w)
      PROVE  UNCHANGED Life(s)!vars
  BY <1>4, LifeFrame
     DEF SetQueuePaused, RegisterWorker, DeactivateWorker, TypeOK, QueueConfig
<1>5. ASSUME NEW k \in Keys, NEW t \in SeqArgs, NEW p \in Priorities,
             NEW o \in RetryOverrides, EnqueueJob(k, t, p, o)
      PROVE  Life(s)!Next \/ UNCHANGED Life(s)!vars
  <2>1. queue'.job_timeout_secs = queue.job_timeout_secs
    BY <1>5 DEF EnqueueJob, EnqueuedOn, TypeOK, QueueConfig
  <2> QED
    BY <1>5, <2>1, EnqueueLife, LifeFrame DEF EnqueueJob, TypeOK, Life!Next
<1>6. ASSUME NEW k \in Keys, NEW t \in SeqArgs, ClaimJob(k, t)
      PROVE  Life(s)!Next \/ UNCHANGED Life(s)!vars
  BY <1>6, ClaimLife, LifeFrame DEF ClaimJob, TypeOK, Life!Next
<1>7. ASSUME NEW k \in Keys, NEW t \in SeqArgs, CompleteJob(k, t)
      PROVE  Life(s)!Next \/ UNCHANGED Life(s)!vars
  <2>1. queue'.job_timeout_secs = queue.job_timeout_secs
    BY <1>7 DEF CompleteJob, TypeOK, QueueConfig
  <2> QED
    BY <1>7, <2>1, CompleteLife, LifeFrame DEF CompleteJob, TypeOK, Life!Next
<1>8. ASSUME NEW k \in Keys, NEW t \in SeqArgs, FailJob(k, t)
      PROVE  Life(s)!Next \/ UNCHANGED Life(s)!vars
  <2>1. queue'.job_timeout_secs = queue.job_timeout_secs /\ now' = now
    BY <1>8 DEF FailJob, TypeOK, QueueConfig
  <2> QED
    BY <1>8, <2>1, FailLife, FailJobEffect, LifeFrame DEF Life!Next
<1>9. ASSUME NEW t \in SeqArgs, ExpireJob(t)
      PROVE  Life(s)!Next \/ UNCHANGED Life(s)!vars
  BY <1>9, ExpireLife, LifeFrame DEF ExpireJob, TypeOK, Life!Next
<1>10. ASSUME NEW k \in Keys, NEW t \in SeqArgs, CloseJob(k, t)
       PROVE  Life(s)!Next \/ UNCHANGED Life(s)!vars
  BY <1>10, CloseLife, LifeFrame DEF CloseJob, TypeOK, Life!Next
<1>11. CASE Tick
  BY <1>11 DEF Tick, TypeOK, Life!Next, Life!Wait, Live
<1> QED
  BY <1>2, <1>3, <1>4, <1>5, <1>6, <1>7, <1>8, <1>9, <1>10, <1>11 DEF Next

\* Whatever the transactions of others do, and in whatever order, every
\* address is one job's life after another: its terms fixed, its worker
\* secure until the timeout is over, its failures counted and decided on as
\* the README says, and nothing left for the next job when it is closed.
THEOREM LifeRefinement == Spec => ImplementsJobLife
<1> DEFINE Started == \A s \in SeqArgs : Life(s)!Init
           Lives == \A s \in SeqArgs : [Life(s)!Next]_(Life(s)!vars)
<1>1. Init => Started
  BY DEF Init, NoQueue, NoJob, Live, Life!Init
<1>2. TypeOK /\ FreshAddresses /\ [Next]_vars => Lives
  BY NextLife
<1> HIDE DEF Started, Lives
<1>3. Spec => Started /\ [][Lives]_vars
  BY <1>1, <1>2, TypeCorrect, FreshAddressesHold, PTL DEF Spec
<1> QED
  BY <1>3 DEF Started, Lives, ImplementsJobLife

=============================================================================
