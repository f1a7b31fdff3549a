------------------------------ MODULE JobLayout ------------------------------
(***************************************************************************)
(* Accounts as bytes. The program writes an account field by field in      *)
(* Borsh: a number or an array takes its width, an Option one byte for     *)
(* None and one more than its content for Some. The web dashboard reads    *)
(* the same bytes at offsets that were counted by hand. Contents do not    *)
(* matter here, only where a field starts and how wide it is: a layout is  *)
(* a sequence of <<field, width>>. The layouts depend on which optional    *)
(* fields a job has, so they are compared on the jobs the program can      *)
(* produce.                                                                *)
(***************************************************************************)
EXTENDS SolQueue, Sequences

Widths(layout) == [i \in DOMAIN layout |-> layout[i][2]]

\* The bytes of the first n fields.
Size(layout, n) == SumFunctionOnSet(Widths(layout), 1..n)

Index(layout, field) == CHOOSE i \in DOMAIN layout : layout[i][1] = field

\* The bytes of a field: its first offset and its width.
Bytes(layout, field) ==
  LET i == Index(layout, field)
  IN <<Size(layout, i - 1), layout[i][2]>>

-----------------------------------------------------------------------------
(* What the program writes.                                                *)

\* The width of an Option field's content, after its tag byte.
Content(option, width) == IF option = None THEN 0 ELSE width

\* What the optional fields of a job take.
OptionWidths(j) ==
  << Content(j.assigned_worker, 32), Content(j.started_at, 8), Content(j.completed_at, 8) >>

\* The layout of a job whose optional fields have these widths.
JobBytes(optional) ==
  << <<"discriminator", 8>>, <<"queue", 32>>, <<"seq", 8>>, <<"job_type", 32>>,
     <<"payload", 512>>, <<"status", 1>>, <<"priority", 1>>,
     <<"retry_count", 1>>, <<"max_retries", 1>>,
     <<"has_worker", 1>>, <<"assigned_worker", optional[1]>>,
     <<"creator", 32>>, <<"enqueued_at", 8>>,
     <<"has_started", 1>>, <<"started_at", optional[2]>>,
     <<"has_completed", 1>>, <<"completed_at", optional[3]>>,
     <<"result", 128>>, <<"result_len", 1>>, <<"bump", 1>> >>

\* Job::LEN, the size of the account, which never changes.
MutJobLEN == 8 + 32 + 8 + 32 + 512 + 1 + 1 + 1 + 1 + 33 + 32 + 8 + 8 + 8 + 128 + 1 + 1
JobLEN == 8 + 32 + 8 + 32 + 512 + 1 + 1 + 1 + 1 + 33 + 32 + 8 + 9 + 9 + 128 + 1 + 1

QueueBytes ==
  << <<"discriminator", 8>>, <<"authority", 32>>, <<"queue_name", 32>>,
     <<"next_job_seq", 8>>, <<"total_enqueued", 8>>, <<"total_completed", 8>>,
     <<"total_failed", 8>>, <<"is_paused", 1>>, <<"max_retries", 1>>,
     <<"job_timeout_secs", 8>>, <<"bump", 1>> >>

-----------------------------------------------------------------------------
(* What the web dashboard reads, in the order in which it advances.        *)

ReadQueue ==
  << <<"discriminator", 8>>, <<"authority", 32>>, <<"queue_name", 32>>,
     <<"next_job_seq", 8>>, <<"total_enqueued", 8>>, <<"total_completed", 8>>,
     <<"total_failed", 8>>, <<"is_paused", 1>>, <<"max_retries", 1>>,
     <<"job_timeout_secs", 8>> >>

\* It passes over 32 bytes for the worker whether there is one or not, and
\* over no start time.
MutReadJob ==
  << <<"discriminator", 8>>, <<"queue", 32>>, <<"seq", 8>>, <<"job_type", 32>>,
     <<"payload", 512>>, <<"status", 1>>, <<"priority", 1>>,
     <<"retry_count", 1>>, <<"max_retries", 1>>,
     <<"assigned_worker", 32>>, <<"has_worker", 1>>,
     <<"creator", 32>>, <<"enqueued_at", 8>>, <<"completed_at", 8>>, <<"result", 128>> >>
ReadJob ==
  << <<"discriminator", 8>>, <<"queue", 32>>, <<"seq", 8>>, <<"job_type", 32>>,
     <<"payload", 512>>, <<"status", 1>>, <<"priority", 1>>,
     <<"retry_count", 1>>, <<"max_retries", 1>>,
     <<"has_worker", 1>>, <<"assigned_worker", 32>>,
     <<"creator", 32>>, <<"enqueued_at", 8>>, <<"completed_at", 8>>, <<"result", 128>> >>

\* Which fields are read where they were written, and how much was written,
\* by the widths of the optional fields (tables: TLC computes them once).
Optionals == {<<w, s, c>> : w \in {0, 32}, s \in {0, 8}, c \in {0, 8}}

ReadTrueIn ==
  [o \in Optionals |->
     {f \in {ReadJob[i][1] : i \in DOMAIN ReadJob} :
        Bytes(ReadJob, f) = Bytes(JobBytes(o), f)}]

WrittenIn == [o \in Optionals |-> Size(JobBytes(o), Len(JobBytes(o)))]

ReadTrue(j) == ReadTrueIn[OptionWidths(j)]

Written(j) == WrittenIn[OptionWidths(j)]

QueueReadTrue ==
  \A i \in DOMAIN ReadQueue :
    Bytes(ReadQueue, ReadQueue[i][1]) = Bytes(QueueBytes, ReadQueue[i][1])

\* The columns of the jobs table, but for the worker and the enqueue time.
PlainColumns ==
  {"seq", "job_type", "status", "priority", "retry_count", "max_retries", "has_worker"}

-----------------------------------------------------------------------------
\* Whatever has happened to a job, it fits into the account created for it
\* with Job::LEN bytes: no instruction can fail for want of space, and a
\* completed job fills the account to its last byte.
JobFitsAccount ==
  \A s \in SeqArgs :
    /\ Live(s) => Written(job[s]) <= JobLEN
    /\ job[s].status = "Completed" => Written(job[s]) = JobLEN

\* The web dashboard's offsets are right for the statistics, for the plain
\* columns of every job, and for the worker and the enqueue time of every job
\* that was claimed: with its hand-counted 32 bytes it relies on the worker
\* staying assigned to finished jobs.
ColumnsReadTrue ==
  /\ QueueReadTrue
  /\ \A s \in SeqArgs :
       /\ Live(s) => PlainColumns \subseteq ReadTrue(job[s])
       /\ job[s].status \in {"Processing", "Completed", "Failed"} =>
            {"assigned_worker", "enqueued_at"} \subseteq ReadTrue(job[s])

\* App.tsx gives the layout it reads as the one of the program's IDL. For a
\* Pending job, whose worker is None and takes no bytes, every later column
\* is read from the wrong place: the Enqueued column shows part of the result.
EnqueueTimeReadTrue == \A s \in SeqArgs : Live(s) => "enqueued_at" \in ReadTrue(job[s])
=============================================================================
