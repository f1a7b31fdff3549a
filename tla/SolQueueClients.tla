---------------------------- MODULE SolQueueClients ----------------------------
(***************************************************************************)
(* The program together with the people who use it through the command     *)
(* line. A command is a process of its own: it derives addresses (enqueue  *)
(* first reads nextJobSeq from the queue account), signs one transaction,  *)
(* sends it and waits for the confirmation. Between the read, the sending  *)
(* and the execution everybody else goes on. What it prints in the end is  *)
(* left out: a process does nothing between the fate of its transaction    *)
(* and its exit that anybody could notice.                                 *)
(*                                                                         *)
(* The wait ends with the confirmation, with an error, or after a timeout  *)
(* of the RPC library which says nothing about the transaction: that one   *)
(* may have been applied, may be applied later, or never. The CLI prints   *)
(* an error and exits; it never retries by itself, and its user may run    *)
(* any command next, the same one included.                                *)
(*                                                                         *)
(* The instructions the CLI has no command for (pause, deactivate, expire, *)
(* close) come from other tools, at any moment. Jobs come from the CLI     *)
(* only: what a producer may rely on when everybody takes seq from the     *)
(* queue as the CLI does.                                                  *)
(***************************************************************************)
EXTENDS SolQueue

CONSTANTS
  Admins,     \* keys whose owners run init and worker-register
  Producers,  \* keys whose owners run enqueue
  Workers,    \* keys whose owners run claim, complete and fail
  Steady,     \* keys whose owners never stop doing their part
  MaxLate,    \* bound: transactions under way that no process waits for
  Tracked     \* whether the history below is kept: only one property reads it

ASSUME RolesAssumption ==
  /\ Admins \subseteq Keys /\ Producers \subseteq Keys /\ Workers \subseteq Keys
  /\ Steady \subseteq Keys
\* The CLI passes null for the retry limit.
ASSUME NoOverrideAssumption == None \in RetryOverrides

VARIABLES
  cli,       \* the transaction each key's owner waits for, or NoTx
  late,      \* transactions under way whose process has given up, or NoTx
  claims,    \* how many claims have been executed at each address
  reported   \* and which of them, counted from 1, were ended by a report

\* The last two are history: nothing in the code keeps them, and no action
\* looks at them except to carry them on. They only let the properties tell
\* one claim from the next of the same worker in the same second.
history == <<claims, reported>>

cvars == <<queue, job, registry, now, cli, late, claims, reported>>

-----------------------------------------------------------------------------
(* Transactions. Arguments that nothing looks at before the transaction is *)
(* executed (limits, priority, result, reason) are chosen at that moment.  *)

Reports == {"complete", "fail"}

Commands == {"init", "worker-register", "enqueue", "claim"} \cup Reports

\* claim and since belong to the history too: which claim of the job a report
\* was sent for, and when that claim began.
Transaction ==
  [cmd : Commands, signer : Keys, seq : SeqArgs \cup {None},
   worker : Keys \cup {None}, claim : Nat \cup {None}, since : Nat \cup {None}]

NoTx ==
  [cmd |-> "none", signer |-> None, seq |-> None, worker |-> None,
   claim |-> None, since |-> None]

LateSlots == 1..MaxLate

InFlight ==
  ({cli[k] : k \in Keys} \cup {late[i] : i \in LateSlots}) \ {NoTx}

Tx(k, cmd, s, w) ==
  LET timely == Tracked /\ cmd \in Reports /\ HeldBy(s, k) IN
  [cmd |-> cmd, signer |-> k, seq |-> s, worker |-> w,
   claim |-> IF timely THEN claims[s] ELSE None,
   since |-> IF timely THEN job[s].started_at ELSE None]

CInit ==
  /\ Init
  /\ cli = [k \in Keys |-> NoTx]
  /\ late = [i \in LateSlots |-> NoTx]
  /\ claims = [s \in SeqArgs |-> 0]
  /\ reported = [s \in SeqArgs |-> {}]

-----------------------------------------------------------------------------
(* Running a command, up to the sending of its transaction.                *)

Start(k, tx) ==
  /\ cli[k] = NoTx
  /\ cli' = [cli EXCEPT ![k] = tx]
  /\ UNCHANGED <<vars, late, history>>

RunInit(k) == Start(k, Tx(k, "init", None, None))

\* The worker's key is an argument of the command or the wallet's own.
RunWorkerRegister(k, w) == Start(k, Tx(k, "worker-register", None, w))

\* The number of the next job is the address of the new one.
MutFetchedSeq == queue.next_job_seq + 1
FetchedSeq == queue.next_job_seq

\* Without a queue account the fetch throws and the process dies.
RunEnqueue(k) ==
  /\ queue.exists
  /\ FetchedSeq \in SeqArgs
  /\ Start(k, Tx(k, "enqueue", FetchedSeq, None))

RunClaim(k, s) == Start(k, Tx(k, "claim", s, None))

RunComplete(k, s) == Start(k, Tx(k, "complete", s, None))

RunFail(k, s) == Start(k, Tx(k, "fail", s, None))

-----------------------------------------------------------------------------
(* What becomes of a transaction and of the process that waits for it.     *)

\* The CLI never overrides the retry limit.
Apply(tx) ==
  \/ /\ tx.cmd = "init"
     /\ \E r \in MaxRetriesArgs, t \in Timeouts : InitializeQueue(tx.signer, r, t)
  \/ tx.cmd = "worker-register" /\ RegisterWorker(tx.signer, tx.worker)
  \/ /\ tx.cmd = "enqueue"
     /\ \E p \in Priorities : EnqueueJob(tx.signer, tx.seq, p, None)
  \/ tx.cmd = "claim" /\ ClaimJob(tx.signer, tx.seq)
  \/ tx.cmd = "complete" /\ CompleteJob(tx.signer, tx.seq)
  \/ tx.cmd = "fail" /\ FailJob(tx.signer, tx.seq)

\* The history of a transaction that is executed.
Recorded(tx) ==
  /\ claims' = IF Tracked /\ tx.cmd = "claim"
                THEN [claims EXCEPT ![tx.seq] = @ + 1] ELSE claims
  /\ reported' = IF Tracked /\ tx.cmd \in Reports
                  THEN [reported EXCEPT ![tx.seq] = @ \cup {claims[tx.seq]}] ELSE reported

\* Executed and confirmed: the command is over.
Land(k) ==
  /\ cli[k] # NoTx
  /\ Apply(cli[k]) /\ Recorded(cli[k])
  /\ cli' = [cli EXCEPT ![k] = NoTx]
  /\ UNCHANGED late

\* Refused by the program, or lost on the way: nothing changes either way.
Reject(k) ==
  /\ cli[k] # NoTx
  /\ cli' = [cli EXCEPT ![k] = NoTx]
  /\ UNCHANGED <<vars, late, history>>

\* The confirmation did not come in time: an error is printed and the command
\* is over, but not its transaction. (When that one has been executed and only
\* its confirmation is lost, the same error is printed after Land.)
GiveUp(k) ==
  /\ cli[k] # NoTx
  /\ \E i \in LateSlots :
       late[i] = NoTx /\ late' = [late EXCEPT ![i] = cli[k]]
  /\ cli' = [cli EXCEPT ![k] = NoTx]
  /\ UNCHANGED <<vars, history>>

LandLate(i) ==
  /\ late[i] # NoTx
  /\ Apply(late[i]) /\ Recorded(late[i])
  /\ late' = [late EXCEPT ![i] = NoTx]
  /\ UNCHANGED cli

RejectLate(i) ==
  /\ late[i] # NoTx
  /\ late' = [late EXCEPT ![i] = NoTx]
  /\ UNCHANGED <<vars, cli, history>>

\* Instructions sent by other tools than the CLI, and time.
OtherTools ==
  /\ \/ \E k \in Keys, p \in BOOLEAN : SetQueuePaused(k, p)
     \/ \E k, w \in Keys : DeactivateWorker(k, w)
     \/ \E s \in SeqArgs : ExpireJob(s)
     \/ \E k \in Keys, s \in SeqArgs : CloseJob(k, s)
     \/ Tick
  /\ UNCHANGED <<cli, late, history>>

CNext ==
  \/ \E k \in Admins : RunInit(k) \/ \E w \in Keys : RunWorkerRegister(k, w)
  \/ \E k \in Producers : RunEnqueue(k)
  \/ \E k \in Workers, s \in SeqArgs : RunClaim(k, s) \/ RunComplete(k, s) \/ RunFail(k, s)
  \/ \E k \in Keys : Land(k) \/ Reject(k) \/ GiveUp(k)
  \/ \E i \in LateSlots : LandLate(i) \/ RejectLate(i)
  \/ OtherTools

CSpec == CInit /\ [][CNext]_cvars

-----------------------------------------------------------------------------
(* Invariants.                                                             *)

ClientsTypeOK ==
  /\ TypeOK
  /\ cli \in [Keys -> Transaction \cup {NoTx}]
  /\ late \in [LateSlots -> Transaction \cup {NoTx}]
  /\ claims \in [SeqArgs -> Nat]
  /\ reported \in [SeqArgs -> SUBSET Nat]

LiveJobs == {s \in SeqArgs : Live(s)}

\* Every job account lies below next_job_seq, although producers read that
\* number and use it at different times: the addresses from 0 to
\* nextJobSeq - 1, from which both dashboards choose what they fetch (the
\* first 50, the last --limit), leave out no account, and the address the CLI
\* derives from a fresh read is never taken, so no producer is locked out.
JobsWithinScan == \A s \in LiveJobs : s < queue.next_job_seq

\* The "#seq" the CLI prints and asks for is an address. A job's own number is
\* never below it, and they are the same until the first account is closed
\* (as long as there are as many accounts as jobs were ever enqueued),
\* whatever transactions were raced, given up, repeated or applied late.
PrintedNumberTrue ==
  /\ \A s \in LiveJobs : s <= job[s].seq
  /\ Cardinality(LiveJobs) = queue.total_enqueued =>
       \A s \in LiveJobs : job[s].seq = s

MeetsItsClaim(tx) ==
  /\ HeldBy(tx.seq, tx.signer)
  /\ claims[tx.seq] = tx.claim /\ job[tx.seq].started_at = tx.since

Accepted(tx) ==
  IF tx.cmd = "fail" THEN FailAccepted(tx.signer, tx.seq)
                     ELSE CompleteAccepted(tx.signer, tx.seq)

Deactivated(k) == registry[k].exists /\ ~registry[k].is_active

\* A report sent by a worker that holds the job finds the very claim it was
\* sent for still running and is accepted, for as long as job_timeout_secs
\* have not passed since that claim, whatever is delayed, repeated, expired
\* or claimed again elsewhere. There are three exceptions: another report of
\* the worker already ended that claim; the worker has been deactivated since
\* (then every report is refused); it is a failure, and the retry limit the
\* largest u8 (then every failure is).
TimelyReportLands ==
  \A tx \in InFlight :
    tx.cmd \in Reports /\ tx.claim # None =>
      \/ /\ MeetsItsClaim(tx)
         /\ \/ Accepted(tx)
            \/ Deactivated(tx.signer)
            \/ tx.cmd = "fail" /\ job[tx.seq].max_retries = U8Max
      \/ tx.claim \in reported[tx.seq]
      \/ now > tx.since + queue.job_timeout_secs

-----------------------------------------------------------------------------
(* Progress. The program obliges nobody to do anything, and neither does   *)
(* the repository: what follows assumes users that do their part.          *)

\* The wait for a confirmation is bounded and a sent transaction expires; one
\* that is acceptable and sent again and again is not lost every time.
ProcessFairness ==
  \A k \in Steady :
    WF_cvars(Reject(k) \/ GiveUp(k)) /\ SF_cvars(Land(k))

\* A steady worker claims what is waiting and reports what it holds.
WorkerFairness ==
  \A k \in Steady \cap Workers :
    /\ SF_cvars(\E s \in SeqArgs : Claimable(s) /\ RunClaim(k, s))
    /\ SF_cvars(\E s \in SeqArgs : HeldBy(s, k) /\ (RunComplete(k, s) \/ RunFail(k, s)))

\* Somebody calls expire_job on expired jobs; the clock advances.
KeeperFairness ==
  /\ \A s \in SeqArgs : WF_cvars(ExpireJob(s) /\ UNCHANGED <<cli, late, history>>)
  /\ WF_cvars(Tick /\ UNCHANGED <<cli, late, history>>)

LiveSpec == CSpec /\ ProcessFairness /\ WorkerFairness /\ KeeperFairness

\* Only a timeout can free this job, and the clock stops (MaxTime) before it.
OutOfTime(s) ==
  /\ job[s].status = "Processing"
  /\ ~(job[s].assigned_worker \in Steady \cap Workers /\ ActiveWorker(job[s].assigned_worker))
  /\ job[s].started_at + queue.job_timeout_secs >= MaxTime

\* As long as one steady worker is registered and not deactivated, every job
\* is completed or fails for good, although other workers stop in the middle
\* of a claim, commands are answered with errors when they had an effect, and
\* transactions arrive late: expire_job frees what a stopped worker holds.
\* (Workers overrun the timeout finitely often here: the clock is bounded.)
EveryJobFinishes ==
  \A s \in SeqArgs :
    []<>(\/ ~Open(s) \/ OutOfTime(s)
         \/ \A k \in Steady \cap Workers : ~ActiveWorker(k))
=============================================================================
