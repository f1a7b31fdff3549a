--------------------------- MODULE SolQueueRefinement ---------------------------
(***************************************************************************)
(* The program implements the abstract job queue and, at every address,    *)
(* the life of a job. A job's number in the abstract queue is its seq      *)
(* field, not the address it lives at; a job that is finished, or whose    *)
(* account its creator has closed, is neither waiting nor running any more.*)
(***************************************************************************)
EXTENDS SolQueue

Waiting == {job[s].seq : s \in {t \in SeqArgs : job[t].status = "Pending"}}

Running ==
  {<<job[s].seq, job[s].assigned_worker>> :
     s \in {t \in SeqArgs : job[t].status = "Processing"}}

JQ == INSTANCE JobQueue WITH
  Workers <- Keys, issued <- queue.next_job_seq, waiting <- Waiting, running <- Running

\* Every step of the program is a step of the abstract queue or invisible to
\* it: exclusive claims and jobs that finish once, for claims, retries,
\* expiries, closes and reused addresses in any order.
ImplementsJobQueue == JQ!Spec

\* Each address is the life of one job after another.
Life(s) == INSTANCE JobLife WITH
  Workers <- Keys,
  Nothing <- None,
  phase <- job[s].status,
  terms <- IF Live(s)
           THEN [seq |-> job[s].seq, creator |-> job[s].creator,
                 priority |-> job[s].priority, max_retries |-> job[s].max_retries,
                 enqueued_at |-> job[s].enqueued_at]
           ELSE None,
  failures <- job[s].retry_count,
  run <- IF job[s].status \in {"Processing", "Completed", "Failed"}
         THEN [worker |-> job[s].assigned_worker, since |-> job[s].started_at]
         ELSE None,
  timeout <- queue.job_timeout_secs,
  clock <- now

\* Whatever the transactions of others do, and in whatever order, a job keeps
\* the terms it was enqueued with, the worker that has it keeps it until it
\* reports or the timeout is over, its failures are counted through claims and
\* expiries and decide as the README says, and a new job at an old address
\* starts with nothing of the one before. (Life(s)!Spec for every address,
\* its quantifier moved into the box, where TLC can evaluate it.)
ImplementsJobLife ==
  /\ \A s \in SeqArgs : Life(s)!Init
  /\ [][\A s \in SeqArgs : [Life(s)!Next]_(Life(s)!vars)]_vars
=============================================================================
