--------------------------- MODULE CliDashboardProofs ---------------------------
(***************************************************************************)
(* Proofs about the CLI's dashboard command beside the running program:    *)
(* what its table may show, and may leave out, for any queue and limit.    *)
(***************************************************************************)
EXTENDS CliDashboard, SolQueueProofs

-----------------------------------------------------------------------------
(* The command reads and nothing more.                                     *)

\* A behaviour of the program with the dashboard command beside it is one of the
\* program: index.ts only fetches accounts there.
THEOREM DashboardOnlyReads == DSpec => Spec
<1>1. DInit => Init
  BY DEF DInit
<1>2. [DNext]_dvars => [Next]_vars
  BY DEF DNext, dvars, vars, RunDashboard, FetchRow, RowLost, PrintTable
<1> QED
  BY <1>1, <1>2, PTL DEF DSpec, Spec

LEMMA MaxNat ==
  ASSUME NEW x \in Int
  PROVE  Max({0, x}) \in Nat
<1>1. CASE x >= 0
  <2>1. \A y \in {0, x} : x >= y
    BY <1>1
  <2>2. \E m \in {0, x} : \A y \in {0, x} : m >= y
    BY <2>1
  <2>3. Max({0, x}) \in {0, x} /\ \A y \in {0, x} : Max({0, x}) >= y
    BY <2>2 DEF Max
  <2> QED
    BY <1>1, <2>3
<1>2. CASE ~(x >= 0)
  <2>1. \A y \in {0, x} : 0 >= y
    BY <1>2
  <2>2. Max({0, x}) \in {0, x} /\ \A y \in {0, x} : Max({0, x}) >= y
    BY <2>1 DEF Max
  <2> QED
    BY <1>2, <2>2
<1> QED
  BY <1>1, <1>2

LEMMA MinInt ==
  ASSUME NEW x \in Int, NEW y \in Int
  PROVE  Min({x, y}) \in Int
<1>1. \E m \in {x, y} : \A z \in {x, y} : m <= z
  <2>1. CASE x <= y
    BY <2>1
  <2>2. CASE ~(x <= y)
    BY <2>2
  <2> QED
    BY <2>1, <2>2
<1>2. Min({x, y}) \in {x, y}
  BY <1>1 DEF Min
<1> QED
  BY <1>2

LEMMA FirstRowType ==
  ASSUME TypeOK, NEW limit \in RowLimits
  PROVE  FirstRow(limit) \in Nat
<1>1. limit \in Int /\ queue.next_job_seq \in Nat
  BY RowLimitsAssumption DEF TypeOK, QueueConfig
<1>2. Min({limit, queue.next_job_seq}) \in Int
  BY <1>1, MinInt
<1>3. queue.next_job_seq - Min({limit, queue.next_job_seq}) \in Int
  BY <1>1, <1>2
<1> QED
  BY <1>3, MaxNat DEF FirstRow

\* A fetched row is a row of a job account that is there now.
LEMMA RowsAtType ==
  ASSUME TypeOK, NEW a
  PROVE  /\ RowsAt(a) \in SUBSET Row
         /\ \A r \in RowsAt(a) :
              /\ r.address = a /\ a \in SeqArgs /\ Live(a)
              /\ r.seq = job[a].seq /\ r.status = job[a].status
BY DEF RowsAt, Row, Live, TypeOK, Job

LEMMA NextDashboardTypeOK ==
  TypeOK /\ DashboardTypeOK /\ [DNext]_dvars => DashboardTypeOK'
<1> SUFFICES ASSUME TypeOK, DashboardTypeOK, [DNext]_dvars PROVE DashboardTypeOK'
  OBVIOUS
<1> DEFINE Screens == [on : BOOLEAN, next : Nat, backlog : Int, from : Nat, at : Nat,
                       rows : SUBSET Row, lost : SUBSET Nat]
<1>1. screen \in Screens
  BY DEF DashboardTypeOK
<1>2. ASSUME screen' \in Screens PROVE DashboardTypeOK'
  BY <1>2 DEF DashboardTypeOK, Row
<1>3. ASSUME NEW limit \in RowLimits, RunDashboard(limit)
      PROVE  screen' \in Screens
  <2>1. queue.next_job_seq \in Nat /\ Backlog(queue) \in Int
    BY DEF TypeOK, QueueConfig, Backlog
  <2> QED
    BY <1>3, <2>1, FirstRowType DEF RunDashboard
<1>4. CASE FetchRow
  <2>1. screen.at + 1 \in Nat /\ screen.rows \cup RowsAt(screen.at) \in SUBSET Row
    BY <1>1, RowsAtType
  <2> QED
    BY <1>1, <1>2, <1>4, <2>1 DEF FetchRow
<1>5. CASE RowLost
  <2>1. screen.at + 1 \in Nat /\ screen.lost \cup {screen.at} \in SUBSET Nat
    BY <1>1
  <2> QED
    BY <1>1, <1>2, <1>5, <2>1 DEF RowLost
<1>6. CASE PrintTable
  BY <1>2, <1>6 DEF PrintTable, Blank
<1>7. CASE UNCHANGED screen
  BY <1>1, <1>2, <1>7
<1> QED
  BY <1>2, <1>3, <1>4, <1>5, <1>6, <1>7 DEF DNext, dvars

\* The command keeps rows and totals of their types at every point of its loop.
THEOREM DashboardTypeCorrect == DSpec => []DashboardTypeOK
<1>1. DInit => DashboardTypeOK
  BY DEF DInit, Blank, DashboardTypeOK
<1>2. TypeOK /\ DashboardTypeOK /\ [DNext]_dvars => DashboardTypeOK'
  BY NextDashboardTypeOK
<1> QED
  BY <1>1, <1>2, DashboardOnlyReads, TypeCorrect, PTL DEF DSpec

-----------------------------------------------------------------------------
(* What a step of the program can do to a job that may be on the screen.   *)

\* A live job is the job that was there before, or its number is new; an open
\* one was open before. Numbers are never taken back.
LEMMA JobsAge ==
  ASSUME TypeOK, NothingIssued, [Next]_vars
  PROVE  /\ queue'.next_job_seq >= queue.next_job_seq
         /\ \A s \in SeqArgs : Live(s)' =>
              \/ job'[s].seq = queue.next_job_seq
              \/ Live(s) /\ job'[s].seq = job[s].seq /\ (Open(s)' => Open(s))
<1> DEFINE Aged ==
      /\ queue'.next_job_seq >= queue.next_job_seq
      /\ \A s \in SeqArgs : Live(s)' =>
           \/ job'[s].seq = queue.next_job_seq
           \/ Live(s) /\ job'[s].seq = job[s].seq /\ (Open(s)' => Open(s))
<1>1. queue.next_job_seq \in Nat
  BY DEF TypeOK, QueueConfig
<1>2. ASSUME UNCHANGED job, queue'.next_job_seq = queue.next_job_seq PROVE Aged
  BY <1>1, <1>2 DEF Live, Open
<1>3. ASSUME NEW k \in Keys, NEW r \in MaxRetriesArgs, NEW t \in Timeouts,
             InitializeQueue(k, r, t)
      PROVE  Aged
  BY <1>2, <1>3 DEF InitializeQueue, NoQueue, NothingIssued
<1>4. ASSUME NEW k \in Keys, NEW p \in BOOLEAN, SetQueuePaused(k, p) PROVE Aged
  BY <1>2, <1>4 DEF SetQueuePaused, TypeOK, QueueConfig
<1>5. ASSUME NEW k \in Keys, NEW s \in SeqArgs, NEW p \in Priorities,
             NEW o \in RetryOverrides, EnqueueJob(k, s, p, o)
      PROVE  Aged
  <2>1. queue'.next_job_seq = queue.next_job_seq + 1
    BY <1>5 DEF EnqueueJob, EnqueuedOn, TypeOK, QueueConfig
  <2>2. job'[s].seq = queue.next_job_seq /\ \A t \in SeqArgs \ {s} : job'[t] = job[t]
    BY <1>5 DEF EnqueueJob, NewJob, TypeOK
  <2> QED
    BY <1>1, <2>1, <2>2 DEF Live, Open
<1>6. ASSUME NEW k \in Keys, NEW s \in SeqArgs, ClaimJob(k, s) PROVE Aged
  BY <1>1, <1>6 DEF ClaimJob, Claimed, Claimable, Live, Open, TypeOK, Job
<1>7. ASSUME NEW k \in Keys, NEW s \in SeqArgs, CompleteJob(k, s) PROVE Aged
  <2>1. queue'.next_job_seq = queue.next_job_seq
    BY <1>7 DEF CompleteJob, TypeOK, QueueConfig
  <2> QED
    BY <1>1, <1>7, <2>1 DEF CompleteJob, HeldBy, Live, Open, TypeOK, Job
<1>8. ASSUME NEW k \in Keys, NEW s \in SeqArgs, FailJob(k, s) PROVE Aged
  <2>1. queue'.next_job_seq = queue.next_job_seq
    BY <1>8, FailJobEffect DEF TypeOK, QueueConfig
  <2> QED
    BY <1>1, <1>8, <2>1, FailJobEffect DEF HeldBy, Live, Open
<1>9. ASSUME NEW s \in SeqArgs, ExpireJob(s) PROVE Aged
  BY <1>1, <1>9 DEF ExpireJob, IsExpired, Requeued, Live, Open, TypeOK, Job
<1>10. ASSUME NEW k \in Keys, NEW s \in SeqArgs, CloseJob(k, s) PROVE Aged
  BY <1>1, <1>10 DEF CloseJob, NoJob, Live, Open, TypeOK
<1> QED
  BY <1>2, <1>3, <1>4, <1>5, <1>6, <1>7, <1>8, <1>9, <1>10
     DEF Next, vars, RegisterWorker, DeactivateWorker, Tick

-----------------------------------------------------------------------------
(* Nothing unfinished is left out.                                         *)

\* The totals on the screen are of the past.
TotalsOfThePast == screen.next <= queue.next_job_seq

LEMMA NextNoUnfinishedJobMissing ==
  ASSUME TypeOK, NothingIssued, DashboardTypeOK, TotalsOfThePast,
         NoUnfinishedJobMissing, [DNext]_dvars
  PROVE  TotalsOfThePast' /\ NoUnfinishedJobMissing'
<1>1. /\ screen.next \in Nat /\ screen.from \in Nat /\ screen.at \in Nat
      /\ queue.next_job_seq \in Nat /\ SeqArgs \subseteq Nat
  BY ArgsAssumption DEF DashboardTypeOK, TypeOK, QueueConfig
<1>2. CASE [Next]_vars /\ UNCHANGED screen
  <2>1. /\ queue'.next_job_seq >= queue.next_job_seq
        /\ \A s \in SeqArgs : Open(s)' /\ job'[s].seq < screen.next =>
             Open(s) /\ job'[s].seq = job[s].seq
    BY <1>1, <1>2, JobsAge DEF TotalsOfThePast, Open, Live
  <2>2. queue'.next_job_seq \in Nat
    BY <1>2, NextTypeOK DEF TypeOK, QueueConfig
  <2> QED
    BY <1>1, <1>2, <2>1, <2>2 DEF TotalsOfThePast, NoUnfinishedJobMissing
<1>3. ASSUME NEW limit \in RowLimits, RunDashboard(limit)
      PROVE  TotalsOfThePast' /\ NoUnfinishedJobMissing'
  <2>1. /\ screen'.next = queue'.next_job_seq
        /\ screen'.from = FirstRow(limit) /\ screen'.at = FirstRow(limit)
    BY <1>3 DEF RunDashboard, vars
  <2>2. FirstRow(limit) \in Nat /\ queue'.next_job_seq \in Nat
    BY <1>1, <1>3, FirstRowType DEF RunDashboard, vars
  <2> QED
    BY <1>1, <2>1, <2>2 DEF TotalsOfThePast, NoUnfinishedJobMissing
<1>4. CASE FetchRow
  <2>1. /\ screen'.at = screen.at + 1 /\ screen'.from = screen.from
        /\ screen'.next = screen.next /\ screen'.lost = screen.lost
        /\ screen'.rows = screen.rows \cup RowsAt(screen.at)
        /\ job' = job /\ queue' = queue
    BY <1>4 DEF FetchRow, DashboardTypeOK, vars
  <2>2. ASSUME NEW s \in SeqArgs, s = screen.at, Open(s)
        PROVE  \E r \in RowsAt(screen.at) : r.address = s /\ r.seq = job[s].seq
    BY <2>2 DEF RowsAt, Open, Live
  <2>3. ASSUME NEW s \in SeqArgs, screen.from <= s, s < screen.at + 1,
               s \notin screen.lost, Open(s), job[s].seq < screen.next
        PROVE  \E r \in screen'.rows : r.address = s /\ r.seq = job[s].seq
    <3>1. CASE s = screen.at
      BY <2>1, <2>2, <2>3, <3>1
    <3>2. CASE s # screen.at
      <4>1. s < screen.at
        BY <1>1, <2>3, <3>2
      <4> QED
        BY <2>1, <2>3, <4>1 DEF NoUnfinishedJobMissing
    <3> QED
      BY <3>1, <3>2
  <2> QED
    BY <2>1, <2>3 DEF TotalsOfThePast, NoUnfinishedJobMissing, Open
<1>5. CASE RowLost
  <2>1. /\ screen'.at = screen.at + 1 /\ screen'.from = screen.from
        /\ screen'.next = screen.next /\ screen'.lost = screen.lost \cup {screen.at}
        /\ screen'.rows = screen.rows /\ job' = job /\ queue' = queue
    BY <1>5 DEF RowLost, DashboardTypeOK, vars
  <2>2. \A s \in SeqArgs : s < screen.at + 1 /\ s \notin screen'.lost => s < screen.at
    BY <1>1, <2>1
  <2> QED
    BY <2>1, <2>2 DEF TotalsOfThePast, NoUnfinishedJobMissing, Open
<1>6. CASE PrintTable
  <2>1. screen'.next = 0 /\ screen'.at = 0 /\ queue' = queue
    BY <1>6 DEF PrintTable, Blank, vars
  <2> QED
    BY <1>1, <2>1 DEF TotalsOfThePast, NoUnfinishedJobMissing
<1> QED
  BY <1>2, <1>3, <1>4, <1>5, <1>6 DEF DNext, dvars, vars

\* The table leaves out no job that was enqueued before the totals were read
\* and is still unfinished, but for requests that failed.
THEOREM NoUnfinishedJobMissingHolds == DSpec => []NoUnfinishedJobMissing
<1>1. DInit => TotalsOfThePast /\ NoUnfinishedJobMissing
  BY ArgsAssumption
     DEF DInit, Init, NoQueue, Blank, TotalsOfThePast, NoUnfinishedJobMissing
<1>2. TypeOK /\ NothingIssued /\ DashboardTypeOK /\ TotalsOfThePast
        /\ NoUnfinishedJobMissing /\ [DNext]_dvars
        => TotalsOfThePast' /\ NoUnfinishedJobMissing'
  BY NextNoUnfinishedJobMissing
<1> QED
  BY <1>1, <1>2, DashboardOnlyReads, TypeCorrect, NothingIssuedHolds,
     DashboardTypeCorrect, PTL DEF DSpec


-----------------------------------------------------------------------------
(* The table stays within the totals.                                      *)

Unfinished == {"Pending", "Processing"}

\* The rows TableWithinTotals counts.
Counted == {r \in screen.rows : r.seq < screen.next /\ r.status \in Unfinished}

\* The numbers that were unfinished when the totals were read are some set U,
\* no larger than the backlog printed then. What has been unfinished since
\* and is old enough to be counted is in it, on the cluster and on the screen.
WithinBacklog(U) ==
  /\ U \subseteq Nat /\ IsFiniteSet(U) /\ Cardinality(U) <= screen.backlog
  /\ \A s \in SeqArgs : Open(s) /\ job[s].seq < screen.next => job[s].seq \in U
  /\ \A r \in Counted : r.seq \in U

\* A number has one row at most: one address is read once, and a job stays at
\* its address as long as it has an account.
RowsDistinct ==
  /\ \A r \in screen.rows : r.address < screen.at /\ r.seq < queue.next_job_seq
  /\ \A r \in screen.rows, s \in SeqArgs :
       Live(s) /\ job[s].seq = r.seq => s = r.address
  /\ \A r, t \in screen.rows : r.seq = t.seq => r = t

TableInv == RowsDistinct /\ TotalsOfThePast /\ (screen.on => \E U : WithinBacklog(U))

LEMMA NextRowsDistinct ==
  ASSUME TypeOK, NothingIssued, SeqsUnique, DashboardTypeOK, RowsDistinct, [DNext]_dvars
  PROVE  RowsDistinct'
<1>1. /\ screen.at \in Nat /\ queue.next_job_seq \in Nat
      /\ \A r \in screen.rows : r.address \in Nat /\ r.seq \in Nat
  BY ArgsAssumption DEF DashboardTypeOK, Row, TypeOK, QueueConfig
<1>2. CASE [Next]_vars /\ UNCHANGED screen
  <2>1. /\ queue'.next_job_seq >= queue.next_job_seq
        /\ \A s \in SeqArgs : Live(s)' =>
             job'[s].seq = queue.next_job_seq \/ (Live(s) /\ job'[s].seq = job[s].seq)
    BY <1>2, JobsAge
  <2>2. queue'.next_job_seq \in Nat
    BY <1>2, NextTypeOK DEF TypeOK, QueueConfig
  <2>3. \A r \in screen'.rows, s \in SeqArgs :
          Live(s)' /\ job'[s].seq = r.seq => s = r.address
    BY <1>1, <1>2, <2>1 DEF RowsDistinct
  <2>4. \A r \in screen'.rows : r.address < screen'.at /\ r.seq < queue'.next_job_seq
    BY <1>1, <1>2, <2>1, <2>2 DEF RowsDistinct
  <2> QED
    BY <1>2, <2>3, <2>4 DEF RowsDistinct
<1>3. ASSUME screen'.rows = {} PROVE RowsDistinct'
  BY <1>3 DEF RowsDistinct
<1>4. ASSUME NEW limit \in RowLimits, RunDashboard(limit) PROVE RowsDistinct'
  BY <1>3, <1>4 DEF RunDashboard
<1>5. CASE FetchRow
  <2>1. /\ screen'.at = screen.at + 1 /\ screen'.rows = screen.rows \cup RowsAt(screen.at)
        /\ job' = job /\ queue' = queue
    BY <1>5 DEF FetchRow, DashboardTypeOK, vars
  <2>2. \A r \in RowsAt(screen.at) :
          /\ r.address = screen.at /\ screen.at \in SeqArgs /\ Live(screen.at)
          /\ r.seq = job[screen.at].seq
    BY RowsAtType
  <2>3. \A r \in RowsAt(screen.at) : r.seq < queue.next_job_seq
    BY <2>2 DEF SeqsUnique
  <2>4. \A r \in RowsAt(screen.at), s \in SeqArgs :
          Live(s) /\ job[s].seq = r.seq => s = r.address
    BY <2>2 DEF SeqsUnique
  <2>5. \A r \in RowsAt(screen.at), t \in screen.rows : r.seq # t.seq
    BY <1>1, <2>2 DEF RowsDistinct
  <2>6. \A r, t \in RowsAt(screen.at) : r = t
    BY DEF RowsAt
  <2>7. \A r \in screen'.rows : r.address < screen'.at /\ r.seq < queue'.next_job_seq
    BY <1>1, <2>1, <2>2, <2>3 DEF RowsDistinct
  <2>8. \A r \in screen'.rows, s \in SeqArgs :
          Live(s)' /\ job'[s].seq = r.seq => s = r.address
    BY <2>1, <2>4 DEF RowsDistinct, Live
  <2>9. \A r, t \in screen'.rows : r.seq = t.seq => r = t
    BY <2>1, <2>5, <2>6 DEF RowsDistinct
  <2> QED
    BY <2>7, <2>8, <2>9 DEF RowsDistinct
<1>6. CASE RowLost
  <2>1. /\ screen'.at = screen.at + 1 /\ screen'.rows = screen.rows
        /\ job' = job /\ queue' = queue
    BY <1>6 DEF RowLost, DashboardTypeOK, vars
  <2>2. \A r \in screen.rows : r.address < screen.at + 1
    BY <1>1 DEF RowsDistinct
  <2> QED
    BY <2>1, <2>2 DEF RowsDistinct, Live
<1>7. CASE PrintTable
  BY <1>3, <1>7 DEF PrintTable, Blank
<1> QED
  BY <1>2, <1>4, <1>5, <1>6, <1>7 DEF DNext, dvars, vars

\* The numbers of the open jobs are no more than the open jobs.
LEMMA OpenNumbers ==
  ASSUME TypeOK, OpenJobsCounted
  PROVE  LET U == {job[s].seq : s \in OpenJobs} IN
         U \subseteq Nat /\ IsFiniteSet(U) /\ Cardinality(U) <= Backlog(queue)
<1> DEFINE U == {job[s].seq : s \in OpenJobs}
           f == [s \in OpenJobs |-> job[s].seq]
<1>1. f \in Surjection(OpenJobs, U)
  BY DEF Surjection
<1>2. IsFiniteSet(U) /\ Cardinality(U) <= Cardinality(OpenJobs)
  <2> HIDE DEF U, f
  <2> QED
    BY <1>1, OpenJobsFinite, FS_Surjection
<1>3. U \subseteq Nat
  BY DEF TypeOK, Job, OpenJobs
<1>4. Cardinality(OpenJobs) = Backlog(queue)
  <2>1. /\ queue.total_enqueued =
             queue.total_completed + queue.total_failed + Cardinality(OpenJobs)
        /\ queue.total_enqueued \in Nat /\ queue.total_completed \in Nat
        /\ queue.total_failed \in Nat
    BY DEF OpenJobsCounted, OpenJobs, TypeOK, QueueConfig
  <2> QED
    BY <2>1, OpenJobsFinite DEF Backlog
<1> QED
  BY <1>2, <1>3, <1>4

LEMMA NextTableInv ==
  ASSUME TypeOK, NothingIssued, SeqsUnique, OpenJobsCounted, DashboardTypeOK,
         TableInv, [DNext]_dvars
  PROVE  TableInv'
<1>1. RowsDistinct' /\ RowsDistinct
  BY NextRowsDistinct DEF TableInv
<1>2. /\ screen.next \in Nat /\ queue.next_job_seq \in Nat
      /\ screen.next <= queue.next_job_seq
  BY DEF TableInv, TotalsOfThePast, DashboardTypeOK, TypeOK, QueueConfig
<1>3. CASE [Next]_vars /\ UNCHANGED screen
  <2>1. /\ queue'.next_job_seq >= queue.next_job_seq
        /\ \A s \in SeqArgs : Open(s)' /\ job'[s].seq < screen.next =>
             Open(s) /\ job'[s].seq = job[s].seq
    BY <1>2, <1>3, JobsAge DEF Open, Live
  <2>2. queue'.next_job_seq \in Nat
    BY <1>3, NextTypeOK DEF TypeOK, QueueConfig
  <2>3. TotalsOfThePast'
    BY <1>2, <1>3, <2>1, <2>2 DEF TotalsOfThePast
  <2>4. Counted' = Counted
    BY <1>3 DEF Counted
  <2>5. \A U : WithinBacklog(U) => WithinBacklog(U)'
    BY <1>3, <2>1, <2>4 DEF WithinBacklog
  <2> QED
    BY <1>1, <1>3, <2>3, <2>5 DEF TableInv
<1>4. ASSUME NEW limit \in RowLimits, RunDashboard(limit)
      PROVE  TableInv'
  <2> DEFINE U == {job[s].seq : s \in OpenJobs}
  <2>1. /\ screen'.next = queue.next_job_seq /\ screen'.backlog = Backlog(queue)
        /\ screen'.rows = {} /\ queue' = queue /\ job' = job
    BY <1>4 DEF RunDashboard, vars
  <2>2. U \subseteq Nat /\ IsFiniteSet(U) /\ Cardinality(U) <= Backlog(queue)
    BY OpenNumbers
  <2>3. \A s \in SeqArgs : Open(s)' => job'[s].seq \in U
    BY <2>1 DEF OpenJobs, Open
  <2>4. Counted' = {}
    BY <2>1 DEF Counted
  <2>5. PICK V : V = U
    OBVIOUS
  <2> HIDE DEF U
  <2>6. WithinBacklog(V)'
    BY <2>1, <2>2, <2>3, <2>4, <2>5 DEF WithinBacklog
  <2>7. TotalsOfThePast'
    BY <1>2, <2>1 DEF TotalsOfThePast
  <2> QED
    BY <1>1, <2>6, <2>7 DEF TableInv
<1>5. CASE FetchRow
  <2>1. /\ screen.on /\ screen'.next = screen.next /\ screen'.backlog = screen.backlog
        /\ screen'.rows = screen.rows \cup RowsAt(screen.at)
        /\ job' = job /\ queue' = queue
    BY <1>5 DEF FetchRow, DashboardTypeOK, vars
  <2>2. PICK U : WithinBacklog(U)
    BY <2>1 DEF TableInv
  <2>3. \A r \in Counted' : r.seq \in U
    <3> SUFFICES ASSUME NEW r \in Counted' PROVE r.seq \in U
      OBVIOUS
    <3>1. r \in screen'.rows /\ r.seq < screen.next /\ r.status \in Unfinished
      BY <2>1 DEF Counted
    <3>2. CASE r \in screen.rows
      BY <2>2, <3>1, <3>2 DEF Counted, WithinBacklog
    <3>3. CASE r \in RowsAt(screen.at)
      <4>1. screen.at \in SeqArgs /\ r.seq = job[screen.at].seq /\ Open(screen.at)
        BY <3>1, <3>3, RowsAtType DEF Open, Unfinished
      <4> QED
        BY <2>2, <3>1, <4>1 DEF WithinBacklog
    <3> QED
      BY <2>1, <3>1, <3>2, <3>3
  <2>4. WithinBacklog(U)'
    BY <2>1, <2>2, <2>3 DEF WithinBacklog, Open
  <2>5. TotalsOfThePast'
    BY <1>2, <2>1 DEF TotalsOfThePast
  <2> QED
    BY <1>1, <2>4, <2>5 DEF TableInv
<1>6. CASE RowLost
  <2>1. /\ screen.on /\ screen'.next = screen.next /\ screen'.backlog = screen.backlog
        /\ screen'.rows = screen.rows /\ job' = job /\ queue' = queue
    BY <1>6 DEF RowLost, DashboardTypeOK, vars
  <2>2. PICK U : WithinBacklog(U)
    BY <2>1 DEF TableInv
  <2>3. Counted' = Counted
    BY <2>1 DEF Counted
  <2>4. WithinBacklog(U)'
    BY <2>1, <2>2, <2>3 DEF WithinBacklog, Open
  <2>5. TotalsOfThePast'
    BY <1>2, <2>1 DEF TotalsOfThePast
  <2> QED
    BY <1>1, <2>4, <2>5 DEF TableInv
<1>7. CASE PrintTable
  <2>1. screen'.next = 0 /\ screen'.on = FALSE /\ queue' = queue
    BY <1>7 DEF PrintTable, Blank, vars
  <2> QED
    BY <1>1, <1>2, <2>1 DEF TableInv, TotalsOfThePast
<1> QED
  BY <1>3, <1>4, <1>5, <1>6, <1>7 DEF DNext, dvars, vars

\* The rows that count have different numbers, all among those the backlog
\* was made of.
LEMMA TableInvSuffices ==
  ASSUME TableInv, DashboardTypeOK, screen.on
  PROVE  TableWithinTotals
<1>1. PICK U : WithinBacklog(U)
  BY DEF TableInv
<1> DEFINE f == [r \in Counted |-> r.seq]
<1>2. f \in [Counted -> U]
  BY <1>1 DEF WithinBacklog
<1>3. \A r, t \in Counted : f[r] = f[t] => r = t
  BY DEF Counted, TableInv, RowsDistinct
<1>4. f \in Injection(Counted, U)
  BY <1>2, <1>3 DEF Injection, IsInjective
<1>5. IsFiniteSet(U) /\ Cardinality(U) <= screen.backlog /\ screen.backlog \in Int
  BY <1>1 DEF WithinBacklog, DashboardTypeOK
<1> HIDE DEF f
<1>6. IsFiniteSet(Counted) /\ Cardinality(Counted) <= Cardinality(U)
  BY <1>4, <1>5, FS_Injection
<1>7. Cardinality(Counted) \in Nat /\ Cardinality(U) \in Nat
  BY <1>5, <1>6, FS_CardinalityType
<1>8. Cardinality(Counted) <= screen.backlog
  BY <1>5, <1>6, <1>7
<1> QED
  BY <1>8 DEF TableWithinTotals, Counted, Unfinished

LEMMA BlankTableWithinTotals ==
  ASSUME screen = Blank
  PROVE  TableWithinTotals
<1>1. {r \in screen.rows : r.seq < screen.next /\ r.status \in {"Pending", "Processing"}} = {}
  BY DEF Blank
<1>2. screen.backlog = 0
  BY DEF Blank
<1> QED
  BY <1>1, <1>2, FS_EmptySet DEF TableWithinTotals

\* The screen is blank whenever the command is not running.
OffIsBlank == ~screen.on => screen = Blank

LEMMA OffIsBlankHolds == DSpec => []OffIsBlank
<1>1. DInit => OffIsBlank
  BY DEF DInit, OffIsBlank
<1>2. DashboardTypeOK /\ OffIsBlank /\ [DNext]_dvars => OffIsBlank'
  <2> SUFFICES ASSUME DashboardTypeOK, OffIsBlank, [DNext]_dvars PROVE OffIsBlank'
    OBVIOUS
  <2>1. ASSUME NEW limit \in RowLimits, RunDashboard(limit) PROVE OffIsBlank'
    BY <2>1 DEF RunDashboard, OffIsBlank
  <2>2. ASSUME FetchRow \/ RowLost PROVE OffIsBlank'
    BY <2>2 DEF FetchRow, RowLost, OffIsBlank, DashboardTypeOK
  <2>3. ASSUME PrintTable PROVE OffIsBlank'
    BY <2>3 DEF PrintTable, OffIsBlank, Blank
  <2>4. ASSUME UNCHANGED screen PROVE OffIsBlank'
    BY <2>4 DEF OffIsBlank, Blank
  <2> QED
    BY <2>1, <2>2, <2>3, <2>4 DEF DNext, dvars
<1> QED
  BY <1>1, <1>2, DashboardTypeCorrect, PTL DEF DSpec

\* The table never shows more unfinished jobs than the totals account for.
THEOREM TableWithinTotalsHolds == DSpec => []TableWithinTotals
<1>1. DInit => TableInv
  BY DEF DInit, Init, NoQueue, Blank, TableInv, RowsDistinct, TotalsOfThePast
<1>2. TypeOK /\ NothingIssued /\ SeqsUnique /\ OpenJobsCounted /\ DashboardTypeOK
        /\ TableInv /\ [DNext]_dvars => TableInv'
  BY NextTableInv
<1>3. TableInv /\ DashboardTypeOK /\ OffIsBlank => TableWithinTotals
  BY TableInvSuffices, BlankTableWithinTotals DEF OffIsBlank
<1> QED
  BY <1>1, <1>2, <1>3, DashboardOnlyReads, TypeCorrect, NothingIssuedHolds,
     SeqsUniqueHolds, OpenJobsCountedHolds, DashboardTypeCorrect, OffIsBlankHolds, PTL
     DEF DSpec

=============================================================================
