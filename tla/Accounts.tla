------------------------------ MODULE Accounts ------------------------------
(***************************************************************************)
(* The accounts of all queues, and where they live. An address is derived  *)
(* from a sequence of seeds that are joined without a separator: two       *)
(* queues, two jobs, or a job and a worker, have the same address exactly  *)
(* when the joined bytes are the same. (find_program_address hashes them;  *)
(* that two inputs have one SHA-256 digest is left out.) Each instruction  *)
(* finds its accounts by deriving their addresses again, and checks the    *)
(* kind of account and the queue field it finds there. What it then does   *)
(* to the contents, and which contents it refuses, is SolQueue's matter.   *)
(***************************************************************************)
EXTENDS Integers, Sequences

CONSTANTS
  Names,     \* queue names: the bytes of a string, of any length, zeros included
  Seqs,      \* seq arguments (u64)
  Pubkeys,   \* the workers' keys: 32 bytes each in the code
  KeyLen,    \* 32 in the code
  Contents   \* what an instruction can write besides kinds, queues and keys

Bytes == 0..255
ByteStrings == Seq(Bytes)

\* The bytes of `seq` from the i-th on, and u64::to_le_bytes.
Above(seq, i) ==
  LET b1 == seq \div 256  b2 == b1 \div 256  b3 == b2 \div 256  b4 == b3 \div 256
      b5 == b4 \div 256   b6 == b5 \div 256  b7 == b6 \div 256  b8 == b7 \div 256
  IN <<seq, b1, b2, b3, b4, b5, b6, b7, b8>>[i]

\* Leading zeros left out, as when a number is written in digits.
MutLeBytes(seq) == SelectSeq([i \in 1..8 |-> Above(seq, i) % 256], LAMBDA b : b # 0)
LeBytes(seq) == [i \in 1..8 |-> Above(seq, i) % 256]

ASSUME NamesAssumption == Names \subseteq ByteStrings
ASSUME SeqsAssumption == \A s \in Seqs : s \in Nat /\ Above(s, 9) = 0
ASSUME PubkeysAssumption ==
  KeyLen \in Nat /\ \A k \in Pubkeys : k \in ByteStrings /\ Len(k) = KeyLen

\* b"queue", b"job" and b"worker".
QueueTag == <<113, 117, 101, 117, 101>>
JobTag == <<106, 111, 98>>
WorkerTag == <<119, 111, 114, 107, 101, 114>>

\* find_program_address, with three seeds or two: nothing is put between.
Derived(tag, name, last) == tag \o name \o last

QueueAddress(name) == Derived(QueueTag, name, <<>>)
JobAddress(name, seq) == Derived(JobTag, name, LeBytes(seq))
MutWorkerAddress(name, key) == Derived(JobTag, name, key)
WorkerAddress(name, key) == Derived(WorkerTag, name, key)

\* The addresses that belong to one queue.
Addresses(name) ==
  {QueueAddress(name)} \cup {JobAddress(name, s) : s \in Seqs}
    \cup {WorkerAddress(name, k) : k \in Pubkeys}

VARIABLE account  \* what is stored at each address that the program derives

vars == <<account>>

Kinds == {"QueueConfig", "Job", "WorkerRegistry"}

\* `queue` and `worker` are the fields of those names, where a kind has them;
\* a QueueConfig is its own queue.
New(kind, name, key, c) ==
  [kind |-> kind, queue |-> QueueAddress(name), worker |-> key, contents |-> c]

Absent == [kind |-> "none", queue |-> <<>>, worker |-> <<>>, contents |-> "none"]

Init == account = [a \in UNION {Addresses(n) : n \in Names} |-> Absent]

-----------------------------------------------------------------------------
(* What the instructions check of the accounts they are given.             *)

\* Account<QueueConfig> at the derived address.
IsQueue(n) == account[QueueAddress(n)].kind = "QueueConfig"

\* Account<Job>, and the InvalidQueue constraint.
IsJob(n, s) ==
  /\ account[JobAddress(n, s)].kind = "Job"
  /\ account[JobAddress(n, s)].queue = QueueAddress(n)

IsWorker(n, k) ==
  /\ account[WorkerAddress(n, k)].kind = "WorkerRegistry"
  /\ account[WorkerAddress(n, k)].queue = QueueAddress(n)

Free(a) == account[a] = Absent

\* Accounts that an instruction borrows as mutable get new contents.
Written(addresses, c) ==
  [a \in DOMAIN account |->
     IF a \in addresses THEN [account[a] EXCEPT !.contents = c] ELSE account[a]]

-----------------------------------------------------------------------------
(* The instructions, by the accounts they create, write and delete.        *)

InitializeQueue(n, c) ==
  /\ Free(QueueAddress(n))
  /\ account' = [account EXCEPT ![QueueAddress(n)] = New("QueueConfig", n, <<>>, c)]

SetQueuePaused(n, c) ==
  /\ IsQueue(n)
  /\ account' = Written({QueueAddress(n)}, c)

RegisterWorker(n, k, c) ==
  /\ IsQueue(n) /\ Free(WorkerAddress(n, k))
  /\ account' = [account EXCEPT
                   ![WorkerAddress(n, k)] = New("WorkerRegistry", n, k, c)]

DeactivateWorker(n, k, c) ==
  /\ IsQueue(n) /\ IsWorker(n, k)
  /\ account' = Written({WorkerAddress(n, k)}, c)

EnqueueJob(n, s, c) ==
  /\ IsQueue(n) /\ Free(JobAddress(n, s))
  /\ account' = [Written({QueueAddress(n)}, c) EXCEPT
                   ![JobAddress(n, s)] = New("Job", n, <<>>, c)]

\* claim_job leaves the queue as it is; complete_job and fail_job write it.
ClaimJob(n, s, k, c) ==
  /\ IsQueue(n) /\ IsWorker(n, k) /\ IsJob(n, s)
  /\ account' = Written({WorkerAddress(n, k), JobAddress(n, s)}, c)

ReportJob(n, s, k, c) ==
  /\ IsQueue(n) /\ IsWorker(n, k) /\ IsJob(n, s)
  /\ account' = Written({QueueAddress(n), WorkerAddress(n, k), JobAddress(n, s)}, c)

ExpireJob(n, s, c) ==
  /\ IsQueue(n) /\ IsJob(n, s)
  /\ account' = Written({JobAddress(n, s)}, c)

CloseJob(n, s) ==
  /\ IsQueue(n) /\ IsJob(n, s)
  /\ account' = [account EXCEPT ![JobAddress(n, s)] = Absent]

Next ==
  \/ \E n \in Names, c \in Contents : InitializeQueue(n, c) \/ SetQueuePaused(n, c)
  \/ \E n \in Names, k \in Pubkeys, c \in Contents :
       RegisterWorker(n, k, c) \/ DeactivateWorker(n, k, c)
  \/ \E n \in Names, s \in Seqs, c \in Contents : EnqueueJob(n, s, c) \/ ExpireJob(n, s, c)
  \/ \E n \in Names, s \in Seqs, k \in Pubkeys, c \in Contents :
       ClaimJob(n, s, k, c) \/ ReportJob(n, s, k, c)
  \/ \E n \in Names, s \in Seqs : CloseJob(n, s)

Spec == Init /\ [][Next]_vars

-----------------------------------------------------------------------------
\* Deriving an address finds the right account or none. The seeds alone
\* validate the worker key that register_worker and deactivate_worker take
\* unchecked, and the InvalidQueue constraints never reject anything: no job
\* or worker of another queue can be where this queue's would be, and none
\* outlives its queue.
FoundWhereDerived ==
  \A n \in Names :
    /\ IsQueue(n) \/ Free(QueueAddress(n))
    /\ \A s \in Seqs : (IsQueue(n) /\ IsJob(n, s)) \/ Free(JobAddress(n, s))
    /\ \A k \in Pubkeys :
         \/ IsQueue(n) /\ IsWorker(n, k) /\ account[WorkerAddress(n, k)].worker = k
         \/ Free(WorkerAddress(n, k))
=============================================================================
