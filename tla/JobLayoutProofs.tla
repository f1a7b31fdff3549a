---------------------------- MODULE JobLayoutProofs ----------------------------
(***************************************************************************)
(* Proofs that every job the program can produce fits its account, and     *)
(* that the web dashboard reads the columns it shows from the right place, *)
(* except the one that it does not.                                        *)
(***************************************************************************)
EXTENDS JobLayout, SolQueueProofs

-----------------------------------------------------------------------------
(* Layouts in general.                                                     *)

\* No two fields of a layout have the same name.
NamesDistinct(layout) ==
  \A i, j \in DOMAIN layout : layout[i][1] = layout[j][1] => i = j

\* A field starts where the one before it ends.
LEMMA SizeNext ==
  ASSUME NEW l, NEW n \in Nat, 1..(n + 1) \subseteq DOMAIN l,
         \A i \in 1..(n + 1) : l[i][2] \in Nat
  PROVE  Size(l, n + 1) = Size(l, n) + l[n + 1][2]
<1>1. \A i \in 1..(n + 1) : Widths(l)[i] = l[i][2]
  BY DEF Widths
<1>2. n + 1 \in 1..(n + 1)
  OBVIOUS
<1>3. SumFunctionOnSet(Widths(l), 1..(n + 1))
        = SumFunctionOnSet(Widths(l), 1..n) + Widths(l)[n + 1]
  BY <1>1, SumNext
<1> QED
  BY <1>1, <1>2, <1>3 DEF Size

LEMMA SizeZero ==
  ASSUME NEW l
  PROVE  Size(l, 0) = 0
<1>1. 1..0 = {}
  OBVIOUS
<1> QED
  BY <1>1, SumEmpty DEF Size

LEMMA SizeType ==
  ASSUME NEW l, NEW n \in Nat, 1..n \subseteq DOMAIN l, \A i \in 1..n : l[i][2] \in Nat
  PROVE  Size(l, n) \in Nat
<1>1. IsFiniteSet(1..n)
  BY FS_Interval
<1>2. \A i \in 1..n : Widths(l)[i] \in Nat
  BY DEF Widths
<1> QED
  BY <1>1, <1>2, SumType DEF Size

\* Layouts that begin alike have the same offsets as long as they do.
LEMMA SamePrefix ==
  ASSUME NEW l, NEW m, NEW n \in Nat,
         1..n \subseteq DOMAIN l, 1..n \subseteq DOMAIN m,
         \A i \in 1..n : l[i] = m[i]
  PROVE  Size(l, n) = Size(m, n)
<1>1. IsFiniteSet(1..n)
  BY FS_Interval
<1>2. \A i \in 1..n : Widths(l)[i] = Widths(m)[i]
  BY DEF Widths
<1> QED
  BY <1>1, <1>2, SumAgree DEF Size

LEMMA IndexOf ==
  ASSUME NEW l, NamesDistinct(l), NEW i \in DOMAIN l
  PROVE  Index(l, l[i][1]) = i
BY DEF Index, NamesDistinct

\* A field in the common beginning of two layouts is at the same bytes of both.
LEMMA SameBytes ==
  ASSUME NEW l, NEW m, NEW n \in Nat, NamesDistinct(l), NamesDistinct(m),
         1..n \subseteq DOMAIN l, 1..n \subseteq DOMAIN m,
         \A i \in 1..n : l[i] = m[i], NEW i \in 1..n
  PROVE  Bytes(l, l[i][1]) = Bytes(m, l[i][1])
<1>1. Index(l, l[i][1]) = i /\ Index(m, l[i][1]) = i
  BY IndexOf
<1>2. Size(l, i - 1) = Size(m, i - 1)
  <2>1. i - 1 \in Nat /\ 1..(i - 1) \subseteq 1..n
    OBVIOUS
  <2> QED
    BY <2>1, SamePrefix
<1> QED
  BY <1>1, <1>2 DEF Bytes

-----------------------------------------------------------------------------
(* The layouts of this program.                                            *)

LEMMA JobNames ==
  ASSUME NEW o
  PROVE  DOMAIN JobBytes(o) = 1..20 /\ NamesDistinct(JobBytes(o))
BY DEF JobBytes, NamesDistinct

LEMMA ReadJobNames == DOMAIN ReadJob = 1..15 /\ NamesDistinct(ReadJob)
BY DEF ReadJob, NamesDistinct

\* Up to the tag of the worker the parser has the layout of every job, up to
\* the enqueue time that of a job whose worker takes its 32 bytes.
LEMMA CommonFields ==
  ASSUME NEW o
  PROVE  /\ \A i \in 1..10 : ReadJob[i] = JobBytes(o)[i]
         /\ o[1] = 32 => \A i \in 1..13 : ReadJob[i] = JobBytes(o)[i]
<1> DEFINE l == JobBytes(o)
           r == ReadJob
<1>1. /\ r[1] = l[1] /\ r[2] = l[2] /\ r[3] = l[3] /\ r[4] = l[4] /\ r[5] = l[5]
      /\ r[6] = l[6] /\ r[7] = l[7] /\ r[8] = l[8] /\ r[9] = l[9] /\ r[10] = l[10]
  BY DEF JobBytes, ReadJob
<1>2. o[1] = 32 => r[11] = l[11] /\ r[12] = l[12] /\ r[13] = l[13]
  BY DEF JobBytes, ReadJob
<1> HIDE DEF l, r
<1>3. \A i \in 1..10 : r[i] = l[i]
  BY <1>1
<1>4. o[1] = 32 => \A i \in 11..13 : r[i] = l[i]
  BY <1>2
<1>5. o[1] = 32 => \A i \in 1..13 : r[i] = l[i]
  BY <1>3, <1>4
<1> QED
  BY <1>3, <1>5 DEF l, r

LEMMA QueueNames ==
  /\ DOMAIN QueueBytes = 1..11 /\ NamesDistinct(QueueBytes)
  /\ DOMAIN ReadQueue = 1..10 /\ NamesDistinct(ReadQueue)
BY DEF QueueBytes, ReadQueue, NamesDistinct

\* The account of a job, whatever its optional fields take.
LEMMA JobSize ==
  ASSUME NEW o, o[1] \in Nat, o[2] \in Nat, o[3] \in Nat
  PROVE  Size(JobBytes(o), 20) = 769 + o[1] + o[2] + o[3]
<1> DEFINE l == JobBytes(o)
<1>1. /\ DOMAIN l = 1..20
      /\ l[1][2] = 8 /\ l[2][2] = 32 /\ l[3][2] = 8 /\ l[4][2] = 32 /\ l[5][2] = 512
      /\ l[6][2] = 1 /\ l[7][2] = 1 /\ l[8][2] = 1 /\ l[9][2] = 1 /\ l[10][2] = 1
      /\ l[11][2] = o[1] /\ l[12][2] = 32 /\ l[13][2] = 8 /\ l[14][2] = 1 /\ l[15][2] = o[2]
      /\ l[16][2] = 1 /\ l[17][2] = o[3] /\ l[18][2] = 128 /\ l[19][2] = 1 /\ l[20][2] = 1
  BY DEF JobBytes
<1> HIDE DEF l
<1>2. \A i \in 1..20 : l[i][2] \in Nat
  BY <1>1
<1>3. ASSUME NEW n \in 0..19
      PROVE  Size(l, n + 1) = Size(l, n) + l[n + 1][2]
  BY <1>1, <1>2, SizeNext
<1>4. /\ Size(l, 0) = 0
      /\ Size(l, 1) = Size(l, 0) + 8 /\ Size(l, 2) = Size(l, 1) + 32
      /\ Size(l, 3) = Size(l, 2) + 8 /\ Size(l, 4) = Size(l, 3) + 32
      /\ Size(l, 5) = Size(l, 4) + 512
  BY <1>1, <1>3, SizeZero
<1>5. /\ Size(l, 6) = Size(l, 5) + 1 /\ Size(l, 7) = Size(l, 6) + 1
      /\ Size(l, 8) = Size(l, 7) + 1 /\ Size(l, 9) = Size(l, 8) + 1
      /\ Size(l, 10) = Size(l, 9) + 1
  BY <1>1, <1>3
<1>6. /\ Size(l, 11) = Size(l, 10) + o[1] /\ Size(l, 12) = Size(l, 11) + 32
      /\ Size(l, 13) = Size(l, 12) + 8 /\ Size(l, 14) = Size(l, 13) + 1
      /\ Size(l, 15) = Size(l, 14) + o[2]
  BY <1>1, <1>3
<1>7. /\ Size(l, 16) = Size(l, 15) + 1 /\ Size(l, 17) = Size(l, 16) + o[3]
      /\ Size(l, 18) = Size(l, 17) + 128 /\ Size(l, 19) = Size(l, 18) + 1
      /\ Size(l, 20) = Size(l, 19) + 1
  BY <1>1, <1>3
<1> QED
  BY <1>4, <1>5, <1>6, <1>7 DEF l

LEMMA OptionWidthsType ==
  ASSUME NEW j
  PROVE  /\ OptionWidths(j) \in Optionals
         /\ OptionWidths(j)[1] \in {0, 32}
         /\ OptionWidths(j)[2] \in {0, 8}
         /\ OptionWidths(j)[3] \in {0, 8}
BY DEF OptionWidths, Content, Optionals

-----------------------------------------------------------------------------
(* Every job fits.                                                         *)

LEMMA WrittenSize ==
  ASSUME NEW j
  PROVE  Written(j) = 769 + OptionWidths(j)[1] + OptionWidths(j)[2] + OptionWidths(j)[3]
<1> DEFINE o == OptionWidths(j)
<1>1. o \in Optionals /\ o[1] \in {0, 32} /\ o[2] \in {0, 8} /\ o[3] \in {0, 8}
  BY OptionWidthsType
<1>2. Written(j) = WrittenIn[o]
  BY DEF Written
<1> HIDE DEF o
<1>3. Written(j) = Size(JobBytes(o), Len(JobBytes(o)))
  BY <1>1, <1>2 DEF WrittenIn
<1>4. Len(JobBytes(o)) = 20
  BY DEF JobBytes
<1>5. Written(j) = 769 + o[1] + o[2] + o[3]
  BY <1>1, <1>3, <1>4, JobSize
<1> QED
  BY <1>5 DEF o

LEMMA StatusFieldsFit == StatusFields => JobFitsAccount
<1> SUFFICES ASSUME StatusFields, NEW s \in SeqArgs
             PROVE  /\ Written(job[s]) <= JobLEN
                    /\ job[s].status = "Completed" => Written(job[s]) = JobLEN
  BY DEF JobFitsAccount
<1>1. JobLEN = 817
  BY DEF JobLEN
<1>2. Written(job[s]) <= JobLEN
  BY <1>1, OptionWidthsType, WrittenSize
<1>3. ASSUME job[s].status = "Completed"
      PROVE  Written(job[s]) = JobLEN
  <2>1. /\ job[s].assigned_worker # None /\ job[s].started_at # None
        /\ job[s].completed_at # None
    BY <1>3, NoneAssumption DEF StatusFields
  <2>2. OptionWidths(job[s]) = <<32, 8, 8>>
    BY <2>1 DEF OptionWidths, Content
  <2> QED
    BY <1>1, <2>2, WrittenSize
<1> QED
  BY <1>2, <1>3

\* No instruction ever writes more bytes than enqueue_job gave the account,
\* and complete_job fills it.
THEOREM JobFitsAccountHolds == Spec => []JobFitsAccount
BY StatusFieldsFit, StatusFieldsHold, PTL

-----------------------------------------------------------------------------
(* What the web dashboard reads.                                           *)

\* The statistics are read where the program wrote them.
LEMMA QueueReads == QueueReadTrue
<1> SUFFICES ASSUME NEW i \in 1..10
             PROVE  Bytes(ReadQueue, ReadQueue[i][1]) = Bytes(QueueBytes, ReadQueue[i][1])
  BY QueueNames DEF QueueReadTrue
<1>1. \A k \in 1..10 : ReadQueue[k] = QueueBytes[k]
  BY DEF ReadQueue, QueueBytes
<1> QED
  BY <1>1, QueueNames, SameBytes

\* The fields before the worker are read right for every job, those up to the
\* enqueue time for a job that has one.
LEMMA PrefixRead ==
  ASSUME NEW o \in Optionals, NEW i \in 1..13, i <= 10 \/ o[1] = 32
  PROVE  ReadJob[i][1] \in ReadTrueIn[o]
<1> DEFINE l == JobBytes(o)
           n == IF o[1] = 32 THEN 13 ELSE 10
<1>1. \A k \in 1..n : ReadJob[k] = l[k]
  BY CommonFields
<1>2. /\ NamesDistinct(ReadJob) /\ NamesDistinct(l)
      /\ 1..n \subseteq DOMAIN ReadJob /\ 1..n \subseteq DOMAIN l
      /\ n \in Nat /\ i \in 1..n /\ i \in DOMAIN ReadJob
  BY ReadJobNames, JobNames
<1> HIDE DEF l, n
<1>3. Bytes(ReadJob, ReadJob[i][1]) = Bytes(l, ReadJob[i][1])
  BY <1>1, <1>2, SameBytes
<1> QED
  BY <1>2, <1>3 DEF ReadTrueIn, l

LEMMA StatusFieldsRead == StatusFields => ColumnsReadTrue
<1> SUFFICES ASSUME StatusFields, NEW s \in SeqArgs
             PROVE  /\ PlainColumns \subseteq ReadTrue(job[s])
                    /\ job[s].status \in {"Processing", "Completed", "Failed"} =>
                         {"assigned_worker", "enqueued_at"} \subseteq ReadTrue(job[s])
  BY QueueReads DEF ColumnsReadTrue
<1> DEFINE o == OptionWidths(job[s])
<1>1. o \in Optionals /\ ReadTrue(job[s]) = ReadTrueIn[o]
  BY OptionWidthsType DEF ReadTrue
<1>2. job[s].status \in {"Processing", "Completed", "Failed"} => o[1] = 32
  BY NoneAssumption DEF StatusFields, OptionWidths, Content
<1> HIDE DEF o
<1>3. PlainColumns \subseteq ReadTrueIn[o]
  <2>1. \A i \in 1..10 : ReadJob[i][1] \in ReadTrueIn[o]
    BY <1>1, PrefixRead
  <2>2. PlainColumns \subseteq {ReadJob[i][1] : i \in 1..10}
    BY DEF PlainColumns, ReadJob
  <2> QED
    BY <2>1, <2>2
<1>4. ASSUME o[1] = 32
      PROVE  {"assigned_worker", "enqueued_at"} \subseteq ReadTrueIn[o]
  <2>1. ReadJob[11][1] \in ReadTrueIn[o] /\ ReadJob[13][1] \in ReadTrueIn[o]
    BY <1>1, <1>4, PrefixRead
  <2> QED
    BY <2>1 DEF ReadJob
<1> QED
  BY <1>1, <1>2, <1>3, <1>4

\* The columns the dashboard shows of a claimed or finished job, and most of
\* those of any job, are read from the bytes that hold them.
THEOREM ColumnsReadTrueHolds == Spec => []ColumnsReadTrue
BY StatusFieldsRead, StatusFieldsHold, PTL

\* The enqueue time of a job that waits is never read from where it is: the
\* divergence is not a matter of rare states but of every Pending job.
EnqueueTimeMisread ==
  \A s \in SeqArgs : job[s].status = "Pending" => "enqueued_at" \notin ReadTrue(job[s])

LEMMA StatusFieldsMisread == StatusFields => EnqueueTimeMisread
<1> SUFFICES ASSUME StatusFields, NEW s \in SeqArgs, job[s].status = "Pending"
             PROVE  "enqueued_at" \notin ReadTrue(job[s])
  BY DEF EnqueueTimeMisread
<1> DEFINE o == OptionWidths(job[s])
           l == JobBytes(o)
<1>1. /\ o \in Optionals /\ ReadTrue(job[s]) = ReadTrueIn[o]
      /\ o[1] = 0 /\ o[2] \in Nat /\ o[3] \in Nat
  <2>1. o[1] = 0
    BY DEF StatusFields, OptionWidths, Content
  <2> QED
    BY <2>1, OptionWidthsType DEF ReadTrue
<1> HIDE DEF o
<1>2. /\ DOMAIN l = 1..20 /\ NamesDistinct(l)
      /\ l[11][2] = 0 /\ l[12][2] = 32 /\ l[13][1] = "enqueued_at"
      /\ \A i \in 1..20 : l[i][2] \in Nat
  <2>1. DOMAIN l = 1..20 /\ NamesDistinct(l)
    BY JobNames
  <2>2. l[11][2] = 0 /\ l[12][2] = 32 /\ l[13][1] = "enqueued_at"
    BY <1>1 DEF JobBytes
  <2>3. \A i \in 1..20 : l[i][2] \in Nat
    BY <1>1 DEF JobBytes
  <2> QED
    BY <2>1, <2>2, <2>3
<1>3. /\ DOMAIN ReadJob = 1..15 /\ NamesDistinct(ReadJob)
      /\ ReadJob[11][2] = 32 /\ ReadJob[12][2] = 32 /\ ReadJob[13][1] = "enqueued_at"
      /\ \A i \in 1..15 : ReadJob[i][2] \in Nat
  BY ReadJobNames DEF ReadJob
<1>4. \A i \in 1..10 : ReadJob[i] = l[i]
  BY CommonFields
<1>5. ReadTrueIn[o] = {f \in {ReadJob[i][1] : i \in DOMAIN ReadJob} :
                         Bytes(ReadJob, f) = Bytes(l, f)}
  BY <1>1 DEF ReadTrueIn
<1> HIDE DEF l
<1>6. Size(ReadJob, 10) = Size(l, 10)
  BY <1>2, <1>3, <1>4, SamePrefix
<1>7. Size(l, 10) \in Nat
  BY <1>2, SizeType
<1>8. /\ Size(l, 11) = Size(l, 10) + 0 /\ Size(l, 12) = Size(l, 11) + 32
      /\ Size(ReadJob, 11) = Size(ReadJob, 10) + 32
      /\ Size(ReadJob, 12) = Size(ReadJob, 11) + 32
  <2>1. \A n \in 0..19 : Size(l, n + 1) = Size(l, n) + l[n + 1][2]
    BY <1>2, SizeNext
  <2>2. \A n \in 0..14 : Size(ReadJob, n + 1) = Size(ReadJob, n) + ReadJob[n + 1][2]
    BY <1>3, SizeNext
  <2> QED
    BY <1>2, <1>3, <2>1, <2>2
<1>9. Index(l, "enqueued_at") = 13 /\ Index(ReadJob, "enqueued_at") = 13
  BY <1>2, <1>3, IndexOf
<1>10. Bytes(ReadJob, "enqueued_at") # Bytes(l, "enqueued_at")
  BY <1>6, <1>7, <1>8, <1>9 DEF Bytes
<1> QED
  BY <1>1, <1>5, <1>10

\* App.tsx misreads the enqueue time of every job that was not claimed yet.
THEOREM EnqueueTimeAlwaysMisread == Spec => []EnqueueTimeMisread
BY StatusFieldsMisread, StatusFieldsHold, PTL

=============================================================================
