------------------------------ MODULE SolQueueDocs ------------------------------
(***************************************************************************)
(* Sentences of the comments and of the README that the program does not   *)
(* keep, each stated as it is written. TLC refutes every one of them; the  *)
(* findings of the project quote the lines.                                *)
(***************************************************************************)
EXTENDS SolQueue

\* enqueue_job.rs: "pass 0 to use queue default". The code takes Some(0) for
\* a limit of no retries.
ZeroOverrideMeansDefault ==
  [][\A k \in Keys, s \in SeqArgs, p \in Priorities :
       EnqueueJob(k, s, p, 0) => job'[s].max_retries = queue.max_retries]_vars

\* lib.rs and enqueue_job.rs: the seq argument "must equal" next_job_seq, so a
\* job lives at the address of its own number. Nothing compares the two.
JobAtItsOwnAddress == \A s \in SeqArgs : Live(s) => job[s].seq = s

\* job.rs: seq "determines FIFO order" and a higher priority is "processed
\* first among Pending jobs". claim_job takes any Pending job it is given.
ClaimsInQueueOrder ==
  [][\A s \in SeqArgs :
       job[s].status = "Pending" /\ job'[s].status = "Processing" =>
         \A t \in SeqArgs \ {s} : job[t].status = "Pending" =>
           \/ job[t].priority < job[s].priority
           \/ job[t].priority = job[s].priority /\ job[t].seq > job[s].seq]_vars

\* lib.rs: an assigned worker may report a job as failed, and the job returns
\* to Pending or is permanently Failed. With a limit of 255 retries the
\* max_retries + 1 of the log line overflows and the report always aborts.
FailureAlwaysReportable ==
  \A s \in SeqArgs, k \in Keys :
    ActiveWorker(k) /\ HeldBy(s, k) => ENABLED FailJob(k, s)
=============================================================================
