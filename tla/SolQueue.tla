------------------------------- MODULE SolQueue -------------------------------
(***************************************************************************)
(* The on-chain program: one named queue with its QueueConfig account, its *)
(* Job accounts and its WorkerRegistry accounts.                           *)
(*                                                                         *)
(* Every instruction is one action. Solana write-locks the accounts of a   *)
(* transaction and applies it entirely or not at all, so an accepted       *)
(* instruction is one atomic step and a rejected one (a failed account     *)
(* constraint, a failed require!, a checked-arithmetic panic) changes      *)
(* nothing: rejection is the action not being enabled.                     *)
(*                                                                         *)
(* Account addresses are derived from ["queue", name], ["job", name, seq]  *)
(* and ["worker", name, key]. Queues never meet and the InvalidQueue       *)
(* constraints always hold (OneQueue, AccountsProofs): one is enough, and  *)
(* a job account is named by the `seq` argument its address derives from.  *)
(* The argument is NOT the job's own seq field: enqueue_job takes the one  *)
(* from the caller and the other from the queue.                           *)
(***************************************************************************)
EXTENDS Integers, FiniteSets, Functions

CONSTANTS
  Keys,            \* public keys that sign transactions, in any role
  None,            \* the None of an Option field, and the key of no account
  SeqArgs,         \* values callers pass as the seq argument (u64 in the code)
  Priorities,      \* priorities callers pass to enqueue_job
  RetryOverrides,  \* max_retries_override arguments: None or a u8
  MaxRetriesArgs,  \* max_retries arguments of initialize_queue
  Timeouts,        \* job_timeout_secs arguments of initialize_queue (any i64)
  U8Max,           \* the largest u8; 255 in the code
  MaxSeq,          \* bound: jobs ever enqueued
  MaxClaims,       \* bound: claims by each worker
  MaxTime          \* bound: the cluster clock

ASSUME NoneAssumption == None \notin Keys /\ None \notin Nat
ASSUME KeysAssumption == IsFiniteSet(Keys)  \* a public key is 32 bytes
ASSUME ArgsAssumption ==
  /\ SeqArgs \subseteq Nat /\ IsFiniteSet(SeqArgs)
  /\ Priorities \subseteq Nat
  /\ Timeouts \subseteq Int
ASSUME U8Assumption ==
  /\ U8Max \in Nat
  /\ MaxRetriesArgs \subseteq 0..U8Max
  /\ RetryOverrides \subseteq (0..U8Max) \cup {None}

VARIABLES
  queue,     \* the QueueConfig account
  job,       \* the Job account at the address of each seq argument
  registry,  \* the WorkerRegistry account of each key
  now        \* Clock::unix_timestamp

vars == <<queue, job, registry, now>>

-----------------------------------------------------------------------------
(* Account layouts. An account that does not exist is a zeroed record.     *)

QueueConfig ==
  [exists : BOOLEAN, authority : Keys \cup {None}, next_job_seq : Nat,
   total_enqueued : Nat, total_completed : Nat, total_failed : Nat,
   is_paused : BOOLEAN, max_retries : 0..U8Max, job_timeout_secs : Int]

JobStatus == {"Pending", "Processing", "Completed", "Failed"}

\* What Job.result holds, by who wrote it: nothing since enqueue_job, the
\* worker's result, a failure reason, or expire_job's note.
ResultKinds == {"empty", "result", "reason", "expiry note"}

Job ==
  [status : JobStatus \cup {"NoAccount"}, seq : Nat, priority : Nat,
   retry_count : 0..U8Max, max_retries : 0..U8Max,
   assigned_worker : Keys \cup {None}, creator : Keys \cup {None},
   enqueued_at : Nat, started_at : Nat \cup {None},
   completed_at : Nat \cup {None}, result : ResultKinds]

WorkerRegistry ==
  [exists : BOOLEAN, is_active : BOOLEAN,
   jobs_completed : Nat, jobs_failed : Nat, jobs_claimed : Nat]

NoQueue ==
  [exists |-> FALSE, authority |-> None, next_job_seq |-> 0,
   total_enqueued |-> 0, total_completed |-> 0, total_failed |-> 0,
   is_paused |-> FALSE, max_retries |-> 0, job_timeout_secs |-> 0]

NoJob ==
  [status |-> "NoAccount", seq |-> 0, priority |-> 0, retry_count |-> 0,
   max_retries |-> 0, assigned_worker |-> None, creator |-> None,
   enqueued_at |-> 0, started_at |-> None, completed_at |-> None,
   result |-> "empty"]

NoWorker ==
  [exists |-> FALSE, is_active |-> FALSE,
   jobs_completed |-> 0, jobs_failed |-> 0, jobs_claimed |-> 0]

Init ==
  /\ queue = NoQueue
  /\ job = [s \in SeqArgs |-> NoJob]
  /\ registry = [k \in Keys |-> NoWorker]
  /\ now = 0

-----------------------------------------------------------------------------
(* Account constraints and field updates the instructions share. A name    *)
(* that starts with Mut is a faulty variant of the definition below it; it *)
(* is used only to show that a property can fail.                          *)

Live(s) == job[s].status # "NoAccount"

IsAuthority(k) == queue.exists /\ queue.authority = k

\* `init` refuses an address that already holds an account.
MutRegistrable(k) == TRUE
Registrable(k) == ~registry[k].exists

\* The worker_registry constraints of claim_job, complete_job and fail_job.
MutActiveWorker(k) == registry[k].exists
ActiveWorker(k) == registry[k].exists /\ registry[k].is_active

MutClaimable(s) == job[s].status \in {"Pending", "Processing"}
MutClaimableFailed(s) == job[s].status \in {"Pending", "Failed"}
Claimable(s) == job[s].status = "Pending"

\* The guard of complete_job and fail_job: the job is Processing and the
\* signer is its assigned worker.
MutHeldBy(s, k) == job[s].status = "Processing"
HeldBy(s, k) == job[s].status = "Processing" /\ job[s].assigned_worker = k

\* Job::is_expired. An i64 overflow of started + timeout panics, which
\* rejects the transaction exactly as a deadline never reached does.
MutIsExpired(j, at, timeout) ==
  j.status = "Processing" /\ j.started_at # None /\ at >= j.started_at + timeout
MutIsExpiredBudget(j, at, timeout) ==
  /\ j.status = "Processing" /\ j.started_at # None /\ at > j.started_at + timeout
  /\ j.retry_count < j.max_retries
IsExpired(j, at, timeout) ==
  j.status = "Processing" /\ j.started_at # None /\ at > j.started_at + timeout

MutClosable(k, s) == job[s].creator = k /\ Live(s)
Closable(k, s) == job[s].creator = k /\ job[s].status \in {"Completed", "Failed"}

\* max_retries_override.unwrap_or(queue.max_retries)
MutRetryLimit(override) == override
RetryLimit(override) == IF override = None THEN queue.max_retries ELSE override

\* fail_job counts the failure first and compares the new count.
MutExhausted(failures, limit) == failures >= limit
MutExhaustedLate(failures, limit) == failures > limit + 1
Exhausted(failures, limit) == failures > limit

\* The reset that fail_job (with retries left) and expire_job have in common.
MutRequeued(j) == [j EXCEPT !.status = "Pending", !.assigned_worker = None]
MutRequeuedStamped(j) ==
  [j EXCEPT !.status = "Pending", !.assigned_worker = None,
            !.started_at = None, !.completed_at = now]
MutRequeuedCounted(j) ==
  [j EXCEPT !.status = "Pending", !.assigned_worker = None, !.started_at = None,
            !.retry_count = @ + 1]
Requeued(j) ==
  [j EXCEPT !.status = "Pending", !.assigned_worker = None, !.started_at = None]

\* claim_job's effect on the job: the failures so far still count.
MutClaimed(j, worker) ==
  [j EXCEPT !.status = "Processing", !.assigned_worker = worker,
            !.started_at = now, !.retry_count = 0]
Claimed(j, worker) ==
  [j EXCEPT !.status = "Processing", !.assigned_worker = worker, !.started_at = now]

NewJob(creator, priority, override) ==
  [status |-> "Pending", seq |-> queue.next_job_seq, priority |-> priority,
   retry_count |-> 0, max_retries |-> RetryLimit(override),
   assigned_worker |-> None, creator |-> creator, enqueued_at |-> now,
   started_at |-> None, completed_at |-> None, result |-> "empty"]

\* enqueue_job's effect on the queue: the sequence number is spent.
MutEnqueuedOn(q) == [q EXCEPT !.total_enqueued = @ + 1]
EnqueuedOn(q) == [q EXCEPT !.next_job_seq = @ + 1, !.total_enqueued = @ + 1]

-----------------------------------------------------------------------------
(* Queue and worker management.                                            *)

\* Whoever creates the queue becomes its authority; `init` makes it once.
InitializeQueue(authority, max_retries, timeout) ==
  /\ ~queue.exists
  /\ queue' = [NoQueue EXCEPT !.exists = TRUE, !.authority = authority,
                              !.max_retries = max_retries,
                              !.job_timeout_secs = timeout]
  /\ UNCHANGED <<job, registry, now>>

SetQueuePaused(authority, pause) ==
  /\ IsAuthority(authority)
  /\ queue' = [queue EXCEPT !.is_paused = pause]
  /\ UNCHANGED <<job, registry, now>>

RegisterWorker(authority, worker) ==
  /\ IsAuthority(authority)
  /\ Registrable(worker)
  /\ registry' = [registry EXCEPT
       ![worker] = [NoWorker EXCEPT !.exists = TRUE, !.is_active = TRUE]]
  /\ UNCHANGED <<queue, job, now>>

DeactivateWorker(authority, worker) ==
  /\ IsAuthority(authority)
  /\ registry[worker].exists
  /\ registry' = [registry EXCEPT ![worker].is_active = FALSE]
  /\ UNCHANGED <<queue, job, now>>

-----------------------------------------------------------------------------
(* Job lifecycle.                                                          *)

\* Nothing compares s with queue.next_job_seq: any free address will do.
EnqueueJob(creator, s, priority, override) ==
  /\ queue.exists /\ ~queue.is_paused
  /\ ~Live(s)
  /\ queue.next_job_seq < MaxSeq
  /\ job' = [job EXCEPT ![s] = NewJob(creator, priority, override)]
  /\ queue' = EnqueuedOn(queue)
  /\ UNCHANGED <<registry, now>>

ClaimJob(worker, s) ==
  /\ queue.exists
  /\ ActiveWorker(worker)
  /\ Claimable(s)
  /\ registry[worker].jobs_claimed < MaxClaims
  /\ job' = [job EXCEPT ![s] = Claimed(@, worker)]
  /\ registry' = [registry EXCEPT ![worker].jobs_claimed = @ + 1]
  /\ UNCHANGED <<queue, now>>

\* The worker stays assigned to the job it completed.
CompleteJob(worker, s) ==
  /\ queue.exists
  /\ ActiveWorker(worker)
  /\ HeldBy(s, worker)
  /\ job' = [job EXCEPT ![s] = [@ EXCEPT !.status = "Completed",
                                         !.completed_at = now,
                                         !.result = "result"]]
  /\ queue' = [queue EXCEPT !.total_completed = @ + 1]
  /\ registry' = [registry EXCEPT ![worker].jobs_completed = @ + 1]
  /\ UNCHANGED now

\* The release profile checks u8 additions: the new retry_count, and the
\* max_retries + 1 of the line logged when the job is requeued.
FailJob(worker, s) ==
  LET failed == [job[s] EXCEPT !.retry_count = @ + 1, !.result = "reason"]
  IN
  /\ queue.exists
  /\ ActiveWorker(worker)
  /\ HeldBy(s, worker)
  /\ failed.retry_count <= U8Max
  /\ registry' = [registry EXCEPT ![worker].jobs_failed = @ + 1]
  /\ \/ /\ Exhausted(failed.retry_count, failed.max_retries)
        /\ job' = [job EXCEPT ![s] = [failed EXCEPT !.status = "Failed",
                                                    !.completed_at = now]]
        /\ queue' = [queue EXCEPT !.total_failed = @ + 1]
     \/ /\ ~Exhausted(failed.retry_count, failed.max_retries)
        /\ failed.max_retries + 1 <= U8Max
        /\ job' = [job EXCEPT ![s] = Requeued(failed)]
        /\ UNCHANGED queue
  /\ UNCHANGED now

\* Any signer may call this, and which one leaves no trace.
ExpireJob(s) ==
  /\ queue.exists
  /\ IsExpired(job[s], now, queue.job_timeout_secs)
  /\ job' = [job EXCEPT ![s] = [Requeued(@) EXCEPT !.result = "expiry note"]]
  /\ UNCHANGED <<queue, registry, now>>

\* `close = creator` deletes the account: its address is free again.
CloseJob(creator, s) ==
  /\ queue.exists
  /\ Closable(creator, s)
  /\ job' = [job EXCEPT ![s] = NoJob]
  /\ UNCHANGED <<queue, registry, now>>

\* The cluster's clock never runs backwards.
Tick ==
  /\ now < MaxTime
  /\ now' = now + 1
  /\ UNCHANGED <<queue, job, registry>>

Next ==
  \/ \E k \in Keys, r \in MaxRetriesArgs, t \in Timeouts : InitializeQueue(k, r, t)
  \/ \E k \in Keys, p \in BOOLEAN : SetQueuePaused(k, p)
  \/ \E k, w \in Keys : RegisterWorker(k, w)
  \/ \E k, w \in Keys : DeactivateWorker(k, w)
  \/ \E k \in Keys, s \in SeqArgs, p \in Priorities, o \in RetryOverrides :
       EnqueueJob(k, s, p, o)
  \/ \E k \in Keys, s \in SeqArgs : ClaimJob(k, s)
  \/ \E k \in Keys, s \in SeqArgs : CompleteJob(k, s)
  \/ \E k \in Keys, s \in SeqArgs : FailJob(k, s)
  \/ \E s \in SeqArgs : ExpireJob(s)
  \/ \E k \in Keys, s \in SeqArgs : CloseJob(k, s)
  \/ Tick

Spec == Init /\ [][Next]_vars

-----------------------------------------------------------------------------
(* Invariants.                                                             *)

TypeOK ==
  /\ queue \in QueueConfig
  /\ job \in [SeqArgs -> Job]
  /\ registry \in [Keys -> WorkerRegistry]
  /\ now \in Nat

Open(s) == job[s].status \in {"Pending", "Processing"}

Held(k) == {s \in SeqArgs : HeldBy(s, k)}

\* The optional fields of a job agree with its status after any mix of
\* claims, failures, expiries and re-creations: so the fallbacks in
\* is_expired (no started_at), complete_job (unwrap_or) and expire_job
\* (unwrap_or_default) are never taken, and a Processing job always has a
\* registered worker and a start from which its timeout counts.
StatusFields ==
  \A s \in SeqArgs :
    /\ Live(s) => queue.exists /\ job[s].creator \in Keys
    /\ job[s].status = "Pending" =>
         /\ job[s].assigned_worker = None
         /\ job[s].started_at = None
         /\ job[s].completed_at = None
    /\ job[s].status \in {"Processing", "Completed", "Failed"} =>
         /\ job[s].assigned_worker \in Keys
         /\ registry[job[s].assigned_worker].exists
         /\ job[s].started_at \in Nat
    /\ job[s].status = "Processing" => job[s].completed_at = None
    /\ job[s].status \in {"Completed", "Failed"} => job[s].completed_at \in Nat

\* fail_job gives a job exactly max_retries retries: a job that can still
\* run has failed at most max_retries times, a Failed one max_retries + 1
\* times, and expiries in between never change the count.
RetryBudget ==
  \A s \in SeqArgs :
    /\ job[s].status \in {"Pending", "Processing", "Completed"} =>
         job[s].retry_count <= job[s].max_retries
    /\ job[s].status = "Failed" => job[s].retry_count = job[s].max_retries + 1

\* A job's timestamps follow its life, whatever claims and expiries came
\* between, so the duration complete_job reports is never negative.
TimestampsOrdered ==
  \A s \in SeqArgs :
    /\ job[s].enqueued_at <= now
    /\ job[s].started_at # None =>
         job[s].enqueued_at <= job[s].started_at /\ job[s].started_at <= now
    /\ job[s].completed_at # None =>
         /\ job[s].started_at # None
         /\ job[s].started_at <= job[s].completed_at
         /\ job[s].completed_at <= now

\* No two job accounts carry the same sequence number and none carries one
\* that was not issued, even when callers choose the addresses and closed
\* addresses are used again.
SeqsUnique ==
  /\ \A s \in SeqArgs : Live(s) => job[s].seq < queue.next_job_seq
  /\ \A s, t \in SeqArgs : Live(s) /\ Live(t) /\ job[s].seq = job[t].seq => s = t

\* The lifetime counters agree with the accounts: enqueued jobs that are
\* neither completed nor failed are exactly the Pending and Processing
\* accounts, so no job is finished twice, lost, or closed unfinished. The
\* CLI dashboard computes its backlog column from this difference.
OpenJobsCounted ==
  /\ queue.next_job_seq = queue.total_enqueued
  /\ queue.total_enqueued =
       queue.total_completed + queue.total_failed
         + Cardinality({s \in SeqArgs : Open(s)})

\* A worker never gets credit for more jobs than it claimed, those it holds
\* now included: completion_rate stays at most 1 however claims expire and
\* are taken over by other workers.
ClaimsAccounted ==
  \A k \in Keys :
    registry[k].jobs_completed + registry[k].jobs_failed + Cardinality(Held(k))
      <= registry[k].jobs_claimed

Completions == [k \in Keys |-> registry[k].jobs_completed]

Failures == [k \in Keys |-> registry[k].jobs_failed]

\* The leaderboard and the queue agree: completions are credited to exactly
\* one worker each, and every permanent failure was some worker's.
CreditsMatchTotals ==
  /\ queue.total_completed = SumFunction(Completions)
  /\ queue.total_failed <= SumFunction(Failures)

\* Credit goes where it is due: every finished account names a worker, and
\* that worker's record has at least as many completions, and as many
\* failures, as there are accounts that name it. The totals alone would not
\* notice a report credited to another worker than the one who held the job.
FinishedBy(k, status) ==
  {s \in SeqArgs : job[s].status = status /\ job[s].assigned_worker = k}

CreditsWhereDue ==
  \A k \in Keys :
    /\ Cardinality(FinishedBy(k, "Completed")) <= registry[k].jobs_completed
    /\ Cardinality(FinishedBy(k, "Failed")) <= registry[k].jobs_failed

\* Every retry that a job has used up is on some worker's record: neither an
\* expiry nor a new job at an old address ever adds to the retries spent.
Retries == [s \in SeqArgs |-> job[s].retry_count]

RetriesOnRecord == SumFunction(Retries) <= SumFunction(Failures)

\* Everything complete_job and fail_job check: the guards of CompleteJob and
\* of FailJob as predicates of the state.
CompleteAccepted(k, s) == queue.exists /\ ActiveWorker(k) /\ HeldBy(s, k)

FailAccepted(k, s) ==
  /\ queue.exists /\ ActiveWorker(k) /\ HeldBy(s, k)
  /\ job[s].retry_count + 1 <= U8Max
  /\ \/ job[s].retry_count + 1 > job[s].max_retries
     \/ job[s].max_retries + 1 <= U8Max

\* A worker that holds a job can report its failure, unless the job's retry
\* limit is the largest u8: no other limit runs the u8 counters over.
FailureReportable ==
  \A s \in SeqArgs, k \in Keys :
    ActiveWorker(k) /\ HeldBy(s, k) /\ job[s].max_retries < U8Max
      => ENABLED FailJob(k, s)

-----------------------------------------------------------------------------
(* Action properties.                                                      *)

\* Anti-double-claim: a claimed job never passes to another worker, nor is
\* its start moved, without being Pending in between.
ClaimNotStolen ==
  [][\A s \in SeqArgs :
       job[s].status = "Processing" /\ job'[s].status = "Processing"
         => job'[s] = job[s]]_vars

\* A worker keeps its claim until it reports, or until more than
\* job_timeout_secs have passed; losing it to the timeout costs no retry,
\* and every retry spent is on the record of the worker that held the job.
LeaseHonoured ==
  [][\A s \in SeqArgs :
       job[s].status = "Processing" /\ job'[s].status = "Pending" =>
         LET w == job[s].assigned_worker IN
         IF registry'[w].jobs_failed = registry[w].jobs_failed + 1
         THEN job'[s].retry_count = job[s].retry_count + 1
         ELSE /\ now > job[s].started_at + queue.job_timeout_secs
              /\ job'[s].retry_count = job[s].retry_count]_vars

\* Deactivation is for good and freezes the worker's record: it is never
\* registered again, claims nothing, and can no longer finish or fail the
\* jobs it holds, which only a timeout frees.
DeactivationFinal ==
  [][\A k \in Keys :
       registry[k].exists /\ ~registry[k].is_active => registry'[k] = registry[k]]_vars

=============================================================================
