---------------------------- MODULE AccountsProofs ----------------------------
(***************************************************************************)
(* Proofs, for every set of names, numbers and keys, that addresses tell   *)
(* accounts apart and that queues do not meet.                             *)
(***************************************************************************)
EXTENDS OneQueue, TLAPS, SequenceTheorems

-----------------------------------------------------------------------------
(* The seeds.                                                              *)

LEMMA AboveStep ==
  ASSUME NEW s \in Nat
  PROVE  /\ Above(s, 1) = s
         /\ \A i \in 1..8, j \in 2..9 : j = i + 1 =>
              Above(s, i) \in Nat /\ Above(s, j) = Above(s, i) \div 256
<1> DEFINE b1 == s \div 256  b2 == b1 \div 256  b3 == b2 \div 256  b4 == b3 \div 256
           b5 == b4 \div 256 b6 == b5 \div 256  b7 == b6 \div 256  b8 == b7 \div 256
<1>1. /\ Above(s, 1) = s  /\ Above(s, 2) = b1 /\ Above(s, 3) = b2
      /\ Above(s, 4) = b3 /\ Above(s, 5) = b4 /\ Above(s, 6) = b5
      /\ Above(s, 7) = b6 /\ Above(s, 8) = b7 /\ Above(s, 9) = b8
  BY DEF Above
<1>2. \A x \in Nat : x \div 256 \in Nat
  OBVIOUS
<1>3. /\ b1 \in Nat /\ b2 \in Nat /\ b3 \in Nat /\ b4 \in Nat
      /\ b5 \in Nat /\ b6 \in Nat /\ b7 \in Nat
  <2>1. b1 \in Nat /\ b2 \in Nat
    BY <1>2
  <2>2. b3 \in Nat /\ b4 \in Nat
    BY <1>2, <2>1
  <2>3. b5 \in Nat /\ b6 \in Nat
    BY <1>2, <2>2
  <2>4. b7 \in Nat
    BY <1>2, <2>3
  <2> QED
    BY <2>1, <2>2, <2>3, <2>4
<1>4. /\ b1 = s \div 256  /\ b2 = b1 \div 256 /\ b3 = b2 \div 256
      /\ b4 = b3 \div 256 /\ b5 = b4 \div 256 /\ b6 = b5 \div 256
      /\ b7 = b6 \div 256 /\ b8 = b7 \div 256
  OBVIOUS
<1> HIDE DEF b1, b2, b3, b4, b5, b6, b7, b8
<1>5. ASSUME NEW i \in 1..8, NEW j \in 2..9, j = i + 1
      PROVE  Above(s, i) \in Nat /\ Above(s, j) = Above(s, i) \div 256
  <2>1. CASE i = 1 /\ j = 2
    BY <1>1, <1>3, <1>4, <2>1
  <2>2. CASE i = 2 /\ j = 3
    BY <1>1, <1>3, <1>4, <2>2
  <2>3. CASE i = 3 /\ j = 4
    BY <1>1, <1>3, <1>4, <2>3
  <2>4. CASE i = 4 /\ j = 5
    BY <1>1, <1>3, <1>4, <2>4
  <2>5. CASE i = 5 /\ j = 6
    BY <1>1, <1>3, <1>4, <2>5
  <2>6. CASE i = 6 /\ j = 7
    BY <1>1, <1>3, <1>4, <2>6
  <2>7. CASE i = 7 /\ j = 8
    BY <1>1, <1>3, <1>4, <2>7
  <2>8. CASE i = 8 /\ j = 9
    BY <1>1, <1>3, <1>4, <2>8
  <2> QED
    BY <1>5, <2>1, <2>2, <2>3, <2>4, <2>5, <2>6, <2>7, <2>8
<1> QED
  BY <1>1, <1>5

\* Eight bytes hold a u64 and no other number has the same.
LEMMA LeBytesInjective ==
  ASSUME NEW s \in Seqs, NEW t \in Seqs, LeBytes(s) = LeBytes(t)
  PROVE  s = t
<1>1. s \in Nat /\ t \in Nat /\ Above(s, 9) = Above(t, 9)
  BY SeqsAssumption
<1>2. ASSUME NEW i \in 1..8, NEW j \in 2..9, j = i + 1, Above(s, j) = Above(t, j)
      PROVE  Above(s, i) = Above(t, i)
  <2>1. LeBytes(s)[i] = LeBytes(t)[i]
    OBVIOUS
  <2>2. Above(s, i) % 256 = Above(t, i) % 256
    BY <2>1 DEF LeBytes
  <2>3. /\ Above(s, i) \in Nat /\ Above(t, i) \in Nat
        /\ Above(s, i) \div 256 = Above(t, i) \div 256
    BY <1>1, <1>2, AboveStep
  <2> QED
    BY <2>2, <2>3
<1>3. Above(s, 1) = Above(t, 1)
  <2>9. 8 \in 1..8 /\ 9 \in 2..9 /\ 9 = 8 + 1
    OBVIOUS
  <2>8. Above(s, 8) = Above(t, 8)
    BY <2>9, <1>1, <1>2
  <2>7. Above(s, 7) = Above(t, 7)
    BY <2>8, <1>2
  <2>6. Above(s, 6) = Above(t, 6)
    BY <2>7, <1>2
  <2>5. Above(s, 5) = Above(t, 5)
    BY <2>6, <1>2
  <2>4. Above(s, 4) = Above(t, 4)
    BY <2>5, <1>2
  <2>3. Above(s, 3) = Above(t, 3)
    BY <2>4, <1>2
  <2>2. Above(s, 2) = Above(t, 2)
    BY <2>3, <1>2
  <2> QED
    BY <2>2, <1>2
<1> QED
  BY <1>1, <1>3, AboveStep

LEMMA LeBytesType ==
  ASSUME NEW s \in Seqs
  PROVE  LeBytes(s) \in ByteStrings /\ Len(LeBytes(s)) = 8
<1>1. ASSUME NEW i \in 1..8
      PROVE  Above(s, i) % 256 \in Bytes
  <2>1. i + 1 \in 2..9
    OBVIOUS
  <2>2. Above(s, i) \in Nat
    BY <2>1, SeqsAssumption, AboveStep
  <2> QED
    BY <2>2 DEF Bytes
<1> QED
  BY <1>1 DEF LeBytes, ByteStrings

\* A fixed beginning and an end of known length leave one way to read what
\* was joined.
LEMMA DerivedInjective ==
  ASSUME NEW p \in ByteStrings, NEW n \in ByteStrings, NEW m \in ByteStrings,
         NEW x \in ByteStrings, NEW y \in ByteStrings, Len(x) = Len(y),
         Derived(p, n, x) = Derived(p, m, y)
  PROVE  n = m /\ x = y
<1> USE DEF ByteStrings
<1>1. /\ Len(n) \in Nat /\ Len(m) \in Nat /\ Len(p) \in Nat /\ Len(x) \in Nat
      /\ p \o n \in Seq(Bytes) /\ Len(p \o n) = Len(p) + Len(n)
      /\ p \o m \in Seq(Bytes) /\ Len(p \o m) = Len(p) + Len(m)
  BY ConcatProperties, LenProperties
<1>2. /\ Len(Derived(p, n, x)) = Len(p) + Len(n) + Len(x)
      /\ Len(Derived(p, m, y)) = Len(p) + Len(m) + Len(x)
  BY <1>1, ConcatProperties DEF Derived
<1>3. Len(n) = Len(m)
  BY <1>1, <1>2
<1>4. \A i \in 1..Len(n) : /\ Derived(p, n, x)[Len(p) + i] = n[i]
                           /\ Derived(p, m, y)[Len(p) + i] = m[i]
  <2> TAKE i \in 1..Len(n)
  <2>1. (p \o n)[Len(p) + i] = n[i] /\ (p \o m)[Len(p) + i] = m[i]
    BY <1>1, <1>3, ConcatProperties
  <2>2. /\ Len(p) + i \in 1..Len(p \o n) + Len(x) /\ Len(p) + i <= Len(p \o n)
        /\ Len(p) + i \in 1..Len(p \o m) + Len(x) /\ Len(p) + i <= Len(p \o m)
    BY <1>1, <1>3
  <2>3. Derived(p, n, x)[Len(p) + i] = (p \o n)[Len(p) + i]
    BY <1>1, <2>2, ConcatProperties DEF Derived
  <2>4. Derived(p, m, y)[Len(p) + i] = (p \o m)[Len(p) + i]
    BY <1>1, <2>2, ConcatProperties DEF Derived
  <2> QED
    BY <2>1, <2>3, <2>4
<1>5. \A i \in 1..Len(x) : /\ Derived(p, n, x)[Len(p) + Len(n) + i] = x[i]
                           /\ Derived(p, m, y)[Len(p) + Len(n) + i] = y[i]
  <2> TAKE i \in 1..Len(x)
  <2>1. Len(p) + Len(n) + i \in 1..Len(p \o n) + Len(x)
    BY <1>1
  <2>2. Derived(p, n, x)[Len(p) + Len(n) + i] = x[Len(p) + Len(n) + i - Len(p \o n)]
    BY <1>1, <2>1, ConcatProperties DEF Derived
  <2>3. Derived(p, m, y)[Len(p) + Len(n) + i] = y[Len(p) + Len(n) + i - Len(p \o m)]
    BY <1>1, <1>3, <2>1, ConcatProperties DEF Derived
  <2>4. /\ Len(p) + Len(n) + i - Len(p \o n) = i
        /\ Len(p) + Len(n) + i - Len(p \o m) = i
    BY <1>1, <1>3
  <2> QED
    BY <2>2, <2>3, <2>4
<1>6. n = m
  BY <1>3, <1>4, SeqEqual
<1>7. x = y
  BY <1>5, SeqEqual
<1> QED
  BY <1>6, <1>7

LEMMA TagsType ==
  /\ QueueTag \in ByteStrings /\ Len(QueueTag) > 0 /\ QueueTag[1] = 113
  /\ JobTag \in ByteStrings /\ Len(JobTag) > 0 /\ JobTag[1] = 106
  /\ WorkerTag \in ByteStrings /\ Len(WorkerTag) > 0 /\ WorkerTag[1] = 119
BY DEF QueueTag, JobTag, WorkerTag, Bytes, ByteStrings

\* An address begins as its tag does.
LEMMA DerivedFirst ==
  ASSUME NEW p \in ByteStrings, NEW n \in ByteStrings, NEW x \in ByteStrings, Len(p) > 0
  PROVE  Derived(p, n, x)[1] = p[1]
<1> USE DEF ByteStrings
<1>1. /\ Len(n) \in Nat /\ Len(p) \in Nat /\ Len(x) \in Nat
      /\ p \o n \in Seq(Bytes) /\ Len(p \o n) = Len(p) + Len(n)
  BY ConcatProperties, LenProperties
<1>2. (p \o n)[1] = p[1]
  BY <1>1, ConcatProperties
<1>3. Derived(p, n, x)[1] = (p \o n)[1]
  BY <1>1, ConcatProperties DEF Derived
<1> QED
  BY <1>2, <1>3

\* The seeds tell accounts apart although nothing separates them, for names
\* of any bytes and any length: a job is the job of one queue and one seq, a
\* worker record that of one queue and one key, and no account of one kind
\* is where one of another kind could be.
THEOREM AddressesApart ==
  \A n \in Names, m \in Names :
    /\ QueueAddress(n) = QueueAddress(m) => n = m
    /\ \A s \in Seqs, t \in Seqs :
         JobAddress(n, s) = JobAddress(m, t) => n = m /\ s = t
    /\ \A k \in Pubkeys, l \in Pubkeys :
         WorkerAddress(n, k) = WorkerAddress(m, l) => n = m /\ k = l
    /\ \A s \in Seqs : QueueAddress(n) # JobAddress(m, s)
    /\ \A k \in Pubkeys : QueueAddress(n) # WorkerAddress(m, k)
    /\ \A s \in Seqs, k \in Pubkeys : JobAddress(n, s) # WorkerAddress(m, k)
<1> TAKE n \in Names, m \in Names
<1>0. n \in ByteStrings /\ m \in ByteStrings /\ <<>> \in ByteStrings
  BY NamesAssumption DEF ByteStrings
<1>1. ASSUME QueueAddress(n) = QueueAddress(m) PROVE n = m
  BY <1>0, <1>1, TagsType, DerivedInjective DEF QueueAddress
<1>2. ASSUME NEW s \in Seqs, NEW t \in Seqs, JobAddress(n, s) = JobAddress(m, t)
      PROVE  n = m /\ s = t
  <2>1. /\ LeBytes(s) \in ByteStrings /\ LeBytes(t) \in ByteStrings
        /\ Len(LeBytes(s)) = Len(LeBytes(t))
    BY LeBytesType
  <2>2. n = m /\ LeBytes(s) = LeBytes(t)
    BY <1>0, <1>2, <2>1, TagsType, DerivedInjective DEF JobAddress
  <2> QED
    BY <2>2, LeBytesInjective
<1>3. ASSUME NEW k \in Pubkeys, NEW l \in Pubkeys, WorkerAddress(n, k) = WorkerAddress(m, l)
      PROVE  n = m /\ k = l
  BY <1>0, <1>3, TagsType, DerivedInjective, PubkeysAssumption DEF WorkerAddress
<1>4. QueueAddress(n)[1] = 113
  BY <1>0, TagsType, DerivedFirst DEF QueueAddress
<1>5. \A s \in Seqs : JobAddress(n, s)[1] = 106 /\ JobAddress(m, s)[1] = 106
  BY <1>0, LeBytesType, TagsType, DerivedFirst DEF JobAddress
<1>6. \A k \in Pubkeys : WorkerAddress(m, k)[1] = 119
  BY <1>0, PubkeysAssumption, TagsType, DerivedFirst DEF WorkerAddress
<1>7. \A s \in Seqs : QueueAddress(n) # JobAddress(m, s)
  BY <1>4, <1>5
<1>8. \A k \in Pubkeys : QueueAddress(n) # WorkerAddress(m, k)
  BY <1>4, <1>6
<1>9. \A s \in Seqs, k \in Pubkeys : JobAddress(n, s) # WorkerAddress(m, k)
  BY <1>5, <1>6
<1> QED
  BY <1>1, <1>2, <1>3, <1>7, <1>8, <1>9

-----------------------------------------------------------------------------
(* Deriving an address finds the right account.                            *)

AllAddresses == UNION {Addresses(n) : n \in Names}

Account ==
  [kind : Kinds \cup {"none"}, queue : ByteStrings, worker : ByteStrings,
   contents : Contents \cup {"none"}]

WellTyped == account \in [AllAddresses -> Account]

LEMMA AddressesType ==
  ASSUME NEW n \in Names
  PROVE  /\ QueueAddress(n) \in AllAddresses
         /\ \A s \in Seqs : JobAddress(n, s) \in AllAddresses
         /\ \A k \in Pubkeys : WorkerAddress(n, k) \in AllAddresses
BY DEF AllAddresses, Addresses

LEMMA NewType ==
  ASSUME NEW kind \in Kinds, NEW n \in Names, NEW key \in ByteStrings, NEW c \in Contents
  PROVE  /\ New(kind, n, key, c) \in Account
         /\ New(kind, n, key, c) # Absent
<1>1. QueueAddress(n) \in ByteStrings
  <2>1. n \in ByteStrings /\ <<>> \in ByteStrings /\ QueueTag \in ByteStrings
    BY NamesAssumption, TagsType DEF ByteStrings
  <2> QED
    BY <2>1, ConcatProperties DEF QueueAddress, Derived, ByteStrings
<1> QED
  BY <1>1 DEF New, Account, Absent, Kinds

LEMMA AbsentType == Absent \in Account
BY DEF Absent, Account, ByteStrings

\* What an instruction writes keeps its kind, its queue and its worker.
LEMMA WrittenKeeps ==
  ASSUME WellTyped, NEW A, NEW c \in Contents
  PROVE  /\ Written(A, c) \in [AllAddresses -> Account]
         /\ \A a \in AllAddresses :
              /\ Written(A, c)[a].kind = account[a].kind
              /\ Written(A, c)[a].queue = account[a].queue
              /\ Written(A, c)[a].worker = account[a].worker
              /\ a \notin A => Written(A, c)[a] = account[a]
BY DEF WellTyped, Written, Account

LEMMA WrittenPreserves ==
  ASSUME WellTyped, FoundWhereDerived, NEW A, NEW c \in Contents,
         account' = Written(A, c), \A a \in A : account[a].kind # "none"
  PROVE  WellTyped' /\ FoundWhereDerived'
<1>1. WellTyped'
  BY WrittenKeeps DEF WellTyped
<1>2. \A a \in AllAddresses :
        /\ account'[a].kind = account[a].kind
        /\ account'[a].queue = account[a].queue
        /\ account'[a].worker = account[a].worker
        /\ account[a] = Absent => account'[a] = Absent
  BY WrittenKeeps DEF Absent
<1> QED
  BY <1>1, <1>2, AddressesType DEF FoundWhereDerived, IsQueue, IsJob, IsWorker, Free

\* An instruction that creates or deletes one account, and may write the
\* queue, disturbs no other.
LEMMA OneChanged ==
  ASSUME WellTyped, NEW a \in AllAddresses, NEW x \in Account,
         account' = [account EXCEPT ![a] = x]
  PROVE  /\ WellTyped'
         /\ account'[a] = x
         /\ \A b \in AllAddresses : b # a => account'[b] = account[b]
BY DEF WellTyped

LEMMA NextFound == WellTyped /\ FoundWhereDerived /\ [Next]_vars => WellTyped' /\ FoundWhereDerived'
<1> SUFFICES ASSUME WellTyped, FoundWhereDerived, [Next]_vars
             PROVE  WellTyped' /\ FoundWhereDerived'
  OBVIOUS
<1> USE AddressesType
<1>0. <<>> \in ByteStrings /\ Kinds = {"QueueConfig", "Job", "WorkerRegistry"}
  BY DEF ByteStrings, Kinds
<1>1. ASSUME NEW n \in Names, NEW c \in Contents, InitializeQueue(n, c)
      PROVE  WellTyped' /\ FoundWhereDerived'
  <2> DEFINE x == New("QueueConfig", n, <<>>, c)
  <2>1. x \in Account /\ x.kind = "QueueConfig"
    BY <1>0, NewType DEF New
  <2> HIDE DEF x
  <2>2. /\ WellTyped'
        /\ account'[QueueAddress(n)] = x
        /\ \A b \in AllAddresses : b # QueueAddress(n) => account'[b] = account[b]
    BY <1>1, <2>1, OneChanged DEF InitializeQueue, x
  <2>3. ~IsQueue(n)
    BY <1>1 DEF InitializeQueue, IsQueue, Free, Absent
  <2>4. ASSUME NEW m \in Names
        PROVE  /\ IsQueue(m)' \/ Free(QueueAddress(m))'
               /\ IsQueue(m) => IsQueue(m)'
    BY <2>1, <2>2, <2>3 DEF FoundWhereDerived, IsQueue, Free
  <2>5. /\ \A m \in Names, s \in Seqs : account'[JobAddress(m, s)] = account[JobAddress(m, s)]
        /\ \A m \in Names, k \in Pubkeys :
             account'[WorkerAddress(m, k)] = account[WorkerAddress(m, k)]
    BY <2>2, AddressesApart
  <2> QED
    BY <2>2, <2>4, <2>5 DEF FoundWhereDerived, IsJob, IsWorker, Free
<1>2. ASSUME NEW n \in Names, NEW k \in Pubkeys, NEW c \in Contents,
             RegisterWorker(n, k, c)
      PROVE  WellTyped' /\ FoundWhereDerived'
  <2> DEFINE x == New("WorkerRegistry", n, k, c)
  <2>1. /\ x \in Account /\ x.kind = "WorkerRegistry"
        /\ x.queue = QueueAddress(n) /\ x.worker = k
    BY <1>0, NewType, PubkeysAssumption DEF New
  <2> HIDE DEF x
  <2>2. /\ WellTyped'
        /\ account'[WorkerAddress(n, k)] = x
        /\ \A b \in AllAddresses : b # WorkerAddress(n, k) => account'[b] = account[b]
    BY <1>2, <2>1, OneChanged DEF RegisterWorker, x
  <2>3. \A m \in Names :
          /\ account'[QueueAddress(m)] = account[QueueAddress(m)]
          /\ \A s \in Seqs : account'[JobAddress(m, s)] = account[JobAddress(m, s)]
          /\ \A l \in Pubkeys : ~(m = n /\ l = k) =>
               account'[WorkerAddress(m, l)] = account[WorkerAddress(m, l)]
    BY <2>2, AddressesApart
  <2>4. ASSUME NEW m \in Names, NEW l \in Pubkeys
        PROVE  \/ /\ IsQueue(m)' /\ IsWorker(m, l)'
                  /\ (account[WorkerAddress(m, l)].worker = l)'
               \/ Free(WorkerAddress(m, l))'
    <3>1. CASE m = n /\ l = k
      BY <1>2, <2>1, <2>2, <2>3, <3>1 DEF RegisterWorker, IsQueue, IsWorker
    <3>2. CASE ~(m = n /\ l = k)
      BY <2>3, <3>2 DEF FoundWhereDerived, IsQueue, IsWorker, Free
    <3> QED
      BY <3>1, <3>2
  <2> QED
    BY <2>2, <2>3, <2>4 DEF FoundWhereDerived, IsQueue, IsJob, Free
<1>3. ASSUME NEW n \in Names, NEW s \in Seqs, NEW c \in Contents, EnqueueJob(n, s, c)
      PROVE  WellTyped' /\ FoundWhereDerived'
  <2> DEFINE x == New("Job", n, <<>>, c)
             W == Written({QueueAddress(n)}, c)
  <2>1. x \in Account /\ x.kind = "Job" /\ x.queue = QueueAddress(n)
    BY <1>0, NewType DEF New
  <2>2. /\ W \in [AllAddresses -> Account]
        /\ \A a \in AllAddresses :
             /\ W[a].kind = account[a].kind
             /\ a # QueueAddress(n) => W[a] = account[a]
    BY WrittenKeeps
  <2>3. account' = [W EXCEPT ![JobAddress(n, s)] = x]
    BY <1>3 DEF EnqueueJob
  <2> HIDE DEF x, W
  <2>4. /\ WellTyped'
        /\ account'[JobAddress(n, s)] = x
        /\ \A a \in AllAddresses : a # JobAddress(n, s) =>
             /\ account'[a].kind = account[a].kind
             /\ a # QueueAddress(n) => account'[a] = account[a]
    BY <2>1, <2>2, <2>3 DEF WellTyped
  <2>5. \A m \in Names :
          /\ account'[QueueAddress(m)].kind = account[QueueAddress(m)].kind
          /\ m # n => account'[QueueAddress(m)] = account[QueueAddress(m)]
          /\ \A k \in Pubkeys :
               account'[WorkerAddress(m, k)] = account[WorkerAddress(m, k)]
          /\ \A t \in Seqs : ~(m = n /\ t = s) =>
               account'[JobAddress(m, t)] = account[JobAddress(m, t)]
    BY <2>4, AddressesApart
  <2>6. ASSUME NEW m \in Names
        PROVE  IsQueue(m)' \/ Free(QueueAddress(m))'
    <3>1. CASE m = n
      BY <1>3, <2>5, <3>1 DEF EnqueueJob, IsQueue
    <3>2. CASE m # n
      BY <2>5, <3>2 DEF FoundWhereDerived, IsQueue, Free
    <3> QED
      BY <3>1, <3>2
  <2>7. ASSUME NEW m \in Names, NEW t \in Seqs
        PROVE  (IsQueue(m) /\ IsJob(m, t))' \/ Free(JobAddress(m, t))'
    <3>1. CASE m = n /\ t = s
      BY <1>3, <2>1, <2>4, <2>5, <3>1 DEF EnqueueJob, IsQueue, IsJob
    <3>2. CASE ~(m = n /\ t = s)
      BY <2>5, <3>2 DEF FoundWhereDerived, IsQueue, IsJob, Free
    <3> QED
      BY <3>1, <3>2
  <2> QED
    BY <2>4, <2>5, <2>6, <2>7 DEF FoundWhereDerived, IsQueue, IsWorker, Free
<1>4. ASSUME NEW n \in Names, NEW s \in Seqs, CloseJob(n, s)
      PROVE  WellTyped' /\ FoundWhereDerived'
  <2>1. /\ WellTyped'
        /\ account'[JobAddress(n, s)] = Absent
        /\ \A b \in AllAddresses : b # JobAddress(n, s) => account'[b] = account[b]
    BY <1>4, AbsentType, OneChanged DEF CloseJob
  <2> QED
    BY <2>1, AddressesApart DEF FoundWhereDerived, IsQueue, IsJob, IsWorker, Free
<1>5. ASSUME NEW n \in Names, NEW s \in Seqs, NEW k \in Pubkeys, NEW c \in Contents,
             ClaimJob(n, s, k, c) \/ ReportJob(n, s, k, c)
      PROVE  WellTyped' /\ FoundWhereDerived'
  BY <1>5, WrittenPreserves DEF ClaimJob, ReportJob, IsQueue, IsJob, IsWorker
<1>6. ASSUME NEW n \in Names, NEW c \in Contents, SetQueuePaused(n, c)
      PROVE  WellTyped' /\ FoundWhereDerived'
  BY <1>6, WrittenPreserves DEF SetQueuePaused, IsQueue
<1>7. ASSUME NEW n \in Names, NEW k \in Pubkeys, NEW c \in Contents,
             DeactivateWorker(n, k, c)
      PROVE  WellTyped' /\ FoundWhereDerived'
  BY <1>7, WrittenPreserves DEF DeactivateWorker, IsWorker
<1>8. ASSUME NEW n \in Names, NEW s \in Seqs, NEW c \in Contents, ExpireJob(n, s, c)
      PROVE  WellTyped' /\ FoundWhereDerived'
  BY <1>8, WrittenPreserves DEF ExpireJob, IsJob
<1>9. CASE UNCHANGED vars
  BY <1>9 DEF vars, WellTyped, FoundWhereDerived, IsQueue, IsJob, IsWorker, Free
<1> QED
  BY <1>1, <1>2, <1>3, <1>4, <1>5, <1>6, <1>7, <1>8, <1>9 DEF Next

\* Deriving an address finds the account that is meant or none at all, for
\* any number of queues with any names: neither the InvalidQueue constraints
\* nor a check of the worker's key could ever reject what was derived.
THEOREM FoundWhereDerivedHolds == Spec => []FoundWhereDerived
<1>1. Init => WellTyped /\ FoundWhereDerived
  BY AddressesType, AbsentType
     DEF Init, WellTyped, AllAddresses, FoundWhereDerived, Free
<1> QED
  BY <1>1, NextFound, PTL DEF Spec

-----------------------------------------------------------------------------
(* Queues that share the program do not meet.                              *)

\* The accounts of one queue: what Alone(n) puts for `account`.
Part(n) == [a \in Addresses(n) |-> account[a]]

\* The derivations that Alone(n) declares are these.
LEMMA AloneAddresses ==
  ASSUME NEW n
  PROVE  /\ Alone(n)!QueueAddress(n) = QueueAddress(n)
         /\ \A s : Alone(n)!JobAddress(n, s) = JobAddress(n, s)
         /\ \A k : Alone(n)!WorkerAddress(n, k) = WorkerAddress(n, k)
         /\ Alone(n)!Addresses(n) = Addresses(n)
         /\ Alone(n)!Absent = Absent
         /\ \A kind, key, c : Alone(n)!New(kind, n, key, c) = New(kind, n, key, c)
<1>1. \A t, k : Alone(n)!Derived(t, n, k) = Derived(t, n, k)
  BY DEF Alone!Derived, Derived
<1>2. \A s : Alone(n)!LeBytes(s) = LeBytes(s)
  BY DEF Alone!LeBytes, LeBytes, Alone!Above, Above
<1>3. /\ Alone(n)!QueueTag = QueueTag /\ Alone(n)!JobTag = JobTag
      /\ Alone(n)!WorkerTag = WorkerTag /\ Alone(n)!Absent = Absent
  BY DEF Alone!QueueTag, QueueTag, Alone!JobTag, JobTag, Alone!WorkerTag, WorkerTag,
         Alone!Absent, Absent
<1>4. /\ Alone(n)!QueueAddress(n) = QueueAddress(n)
      /\ \A s : Alone(n)!JobAddress(n, s) = JobAddress(n, s)
      /\ \A k : Alone(n)!WorkerAddress(n, k) = WorkerAddress(n, k)
  BY <1>1, <1>2, <1>3
     DEF Alone!QueueAddress, QueueAddress, Alone!JobAddress, JobAddress,
         Alone!WorkerAddress, WorkerAddress
<1>5. Alone(n)!Addresses(n) = Addresses(n)
  BY <1>4 DEF Alone!Addresses, Addresses
<1>6. \A kind, key, c : Alone(n)!New(kind, n, key, c) = New(kind, n, key, c)
  BY <1>4 DEF Alone!New, New
<1> QED
  BY <1>3, <1>4, <1>5, <1>6

LEMMA AddressesDisjoint ==
  ASSUME NEW n \in Names, NEW m \in Names, n # m, NEW a \in Addresses(n)
  PROVE  a \notin Addresses(m)
<1>1. CASE a = QueueAddress(n)
  BY <1>1, AddressesApart DEF Addresses
<1>2. ASSUME NEW s \in Seqs, a = JobAddress(n, s)
      PROVE  a \notin Addresses(m)
  BY <1>2, AddressesApart DEF Addresses
<1>3. ASSUME NEW k \in Pubkeys, a = WorkerAddress(n, k)
      PROVE  a \notin Addresses(m)
  BY <1>3, AddressesApart DEF Addresses
<1> QED
  BY <1>1, <1>2, <1>3 DEF Addresses

LEMMA PartFacts ==
  ASSUME NEW n \in Names
  PROVE  /\ Addresses(n) \subseteq AllAddresses
         /\ QueueAddress(n) \in Addresses(n)
         /\ \A s \in Seqs : JobAddress(n, s) \in Addresses(n)
         /\ \A k \in Pubkeys : WorkerAddress(n, k) \in Addresses(n)
         /\ DOMAIN Part(n) = Addresses(n)
         /\ \A a \in Addresses(n) : Part(n)[a] = account[a]
BY DEF AllAddresses, Addresses, Part

\* The checks of the instructions see the same.
LEMMA AloneChecks ==
  ASSUME NEW n \in Names
  PROVE  /\ Alone(n)!IsQueue(n) <=> IsQueue(n)
         /\ \A s \in Seqs : Alone(n)!IsJob(n, s) <=> IsJob(n, s)
         /\ \A k \in Pubkeys : Alone(n)!IsWorker(n, k) <=> IsWorker(n, k)
         /\ \A a \in Addresses(n) : Alone(n)!Free(a) <=> Free(a)
BY AloneAddresses, PartFacts
   DEF Alone!IsQueue, IsQueue, Alone!IsJob, IsJob, Alone!IsWorker, IsWorker,
       Alone!Free, Free, Part

LEMMA AloneWritten ==
  ASSUME WellTyped, NEW n \in Names, NEW A, NEW c
  PROVE  Alone(n)!Written(A, c) = [a \in Addresses(n) |-> Written(A, c)[a]]
BY PartFacts DEF Alone!Written, Written, WellTyped, Part

\* A step of one queue's instructions is the same step of that queue alone.
LEMMA PartChanged ==
  ASSUME WellTyped, NEW n \in Names, NEW b \in Addresses(n), NEW x,
         account' = [account EXCEPT ![b] = x]
  PROVE  Part(n)' = [Part(n) EXCEPT ![b] = x]
BY PartFacts DEF WellTyped, Part

LEMMA AloneInitializeQueue ==
  ASSUME WellTyped, NEW n \in Names, NEW c \in Contents, InitializeQueue(n, c)
  PROVE  Alone(n)!InitializeQueue(n, c)
<1>1. Alone(n)!Free(Alone(n)!QueueAddress(n))
  BY AloneAddresses, AloneChecks, PartFacts DEF InitializeQueue
<1>2. Part(n)' = [Part(n) EXCEPT ![QueueAddress(n)] = New("QueueConfig", n, <<>>, c)]
  BY PartChanged, PartFacts DEF InitializeQueue
<1>3. Part(n)' = [Part(n) EXCEPT ![Alone(n)!QueueAddress(n)] = Alone(n)!New("QueueConfig", n, <<>>, c)]
  <2>1. /\ Alone(n)!QueueAddress(n) = QueueAddress(n)
        /\ Alone(n)!New("QueueConfig", n, <<>>, c) = New("QueueConfig", n, <<>>, c)
    BY AloneAddresses
  <2> QED
    BY <1>2, <2>1
<1> QED
  BY <1>1, <1>3 DEF Alone!InitializeQueue, Part

LEMMA AloneRegisterWorker ==
  ASSUME WellTyped, NEW n \in Names, NEW k \in Pubkeys, NEW c \in Contents,
         RegisterWorker(n, k, c)
  PROVE  Alone(n)!RegisterWorker(n, k, c)
<1>1. Alone(n)!IsQueue(n) /\ Alone(n)!Free(Alone(n)!WorkerAddress(n, k))
  BY AloneAddresses, AloneChecks, PartFacts DEF RegisterWorker
<1>2. Part(n)' = [Part(n) EXCEPT ![WorkerAddress(n, k)] = New("WorkerRegistry", n, k, c)]
  BY PartChanged, PartFacts DEF RegisterWorker
<1>3. Part(n)' = [Part(n) EXCEPT ![Alone(n)!WorkerAddress(n, k)] = Alone(n)!New("WorkerRegistry", n, k, c)]
  <2>1. /\ Alone(n)!WorkerAddress(n, k) = WorkerAddress(n, k)
        /\ Alone(n)!New("WorkerRegistry", n, k, c) = New("WorkerRegistry", n, k, c)
    BY AloneAddresses
  <2> QED
    BY <1>2, <2>1
<1> QED
  BY <1>1, <1>3 DEF Alone!RegisterWorker, Part

LEMMA AloneCloseJob ==
  ASSUME WellTyped, NEW n \in Names, NEW s \in Seqs, CloseJob(n, s)
  PROVE  Alone(n)!CloseJob(n, s)
<1>1. Alone(n)!IsQueue(n) /\ Alone(n)!IsJob(n, s)
  BY AloneAddresses, AloneChecks, PartFacts DEF CloseJob
<1>2. Part(n)' = [Part(n) EXCEPT ![JobAddress(n, s)] = Absent]
  BY PartChanged, PartFacts DEF CloseJob
<1>3. Part(n)' = [Part(n) EXCEPT ![Alone(n)!JobAddress(n, s)] = Alone(n)!Absent]
  BY <1>2, AloneAddresses
<1> QED
  BY <1>1, <1>3 DEF Alone!CloseJob, Part

LEMMA AloneEnqueueJob ==
  ASSUME WellTyped, NEW n \in Names, NEW s \in Seqs, NEW c \in Contents,
         EnqueueJob(n, s, c)
  PROVE  Alone(n)!EnqueueJob(n, s, c)
<1> DEFINE x == New("Job", n, <<>>, c)
           W == Written({QueueAddress(n)}, c)
<1>1. IsQueue(n) /\ Free(JobAddress(n, s))
  BY DEF EnqueueJob
<1>2. account' = [W EXCEPT ![JobAddress(n, s)] = x]
  BY DEF EnqueueJob
<1>3. W \in [AllAddresses -> Account]
  BY WrittenKeeps
<1> HIDE DEF W, x
<1>4. Part(n)' = [[a \in Addresses(n) |-> W[a]] EXCEPT ![JobAddress(n, s)] = x]
  BY <1>2, <1>3, PartFacts DEF Part
<1>5. [a \in Addresses(n) |-> W[a]] = Alone(n)!Written({QueueAddress(n)}, c)
  BY AloneWritten DEF W
<1>6. Part(n)' = [Alone(n)!Written({QueueAddress(n)}, c) EXCEPT ![JobAddress(n, s)] = x]
  BY <1>4, <1>5
<1>7. /\ Alone(n)!QueueAddress(n) = QueueAddress(n)
      /\ Alone(n)!JobAddress(n, s) = JobAddress(n, s)
      /\ Alone(n)!New("Job", n, <<>>, c) = x
  BY AloneAddresses DEF x
<1>8. Part(n)' = [Alone(n)!Written({Alone(n)!QueueAddress(n)}, c) EXCEPT
                    ![Alone(n)!JobAddress(n, s)] = Alone(n)!New("Job", n, <<>>, c)]
  BY <1>6, <1>7
<1>9. Alone(n)!IsQueue(n) /\ Alone(n)!Free(Alone(n)!JobAddress(n, s))
  BY <1>1, <1>7, AloneChecks, PartFacts
<1> QED
  BY <1>8, <1>9 DEF Alone!EnqueueJob, Part

LEMMA AloneOthers ==
  ASSUME WellTyped, NEW n \in Names, NEW c \in Contents
  PROVE  /\ SetQueuePaused(n, c) => Alone(n)!SetQueuePaused(n, c)
         /\ \A k \in Pubkeys : DeactivateWorker(n, k, c) => Alone(n)!DeactivateWorker(n, k, c)
         /\ \A s \in Seqs : ExpireJob(n, s, c) => Alone(n)!ExpireJob(n, s, c)
         /\ \A s \in Seqs, k \in Pubkeys :
              /\ ClaimJob(n, s, k, c) => Alone(n)!ClaimJob(n, s, k, c)
              /\ ReportJob(n, s, k, c) => Alone(n)!ReportJob(n, s, k, c)
<1>1. ASSUME NEW A, account' = Written(A, c)
      PROVE  Part(n)' = Alone(n)!Written(A, c)
  BY <1>1, AloneWritten DEF Part
<1>2. SetQueuePaused(n, c) => Alone(n)!SetQueuePaused(n, c)
  BY <1>1, AloneAddresses, AloneChecks DEF SetQueuePaused, Alone!SetQueuePaused, Part
<1>3. \A k \in Pubkeys : DeactivateWorker(n, k, c) => Alone(n)!DeactivateWorker(n, k, c)
  BY <1>1, AloneAddresses, AloneChecks DEF DeactivateWorker, Alone!DeactivateWorker, Part
<1>4. \A s \in Seqs : ExpireJob(n, s, c) => Alone(n)!ExpireJob(n, s, c)
  BY <1>1, AloneAddresses, AloneChecks DEF ExpireJob, Alone!ExpireJob, Part
<1>5. \A s \in Seqs, k \in Pubkeys : ClaimJob(n, s, k, c) => Alone(n)!ClaimJob(n, s, k, c)
  BY <1>1, AloneAddresses, AloneChecks DEF ClaimJob, Alone!ClaimJob, Part
<1>6. \A s \in Seqs, k \in Pubkeys : ReportJob(n, s, k, c) => Alone(n)!ReportJob(n, s, k, c)
  BY <1>1, AloneAddresses, AloneChecks DEF ReportJob, Alone!ReportJob, Part
<1> QED
  BY <1>2, <1>3, <1>4, <1>5, <1>6

\* The instructions of one queue: Next takes a step of one of them.
StepOf(n) ==
  \/ \E c \in Contents : InitializeQueue(n, c) \/ SetQueuePaused(n, c)
  \/ \E k \in Pubkeys, c \in Contents : RegisterWorker(n, k, c) \/ DeactivateWorker(n, k, c)
  \/ \E s \in Seqs, c \in Contents : EnqueueJob(n, s, c) \/ ExpireJob(n, s, c)
  \/ \E s \in Seqs, k \in Pubkeys, c \in Contents :
       ClaimJob(n, s, k, c) \/ ReportJob(n, s, k, c)
  \/ \E s \in Seqs : CloseJob(n, s)

LEMMA NextStepOf == Next <=> \E n \in Names : StepOf(n)
BY DEF Next, StepOf

LEMMA AloneStep ==
  ASSUME WellTyped, NEW n \in Names, StepOf(n)
  PROVE  Alone(n)!Next
<1>1. ASSUME NEW c \in Contents, InitializeQueue(n, c) \/ SetQueuePaused(n, c)
      PROVE  Alone(n)!Next
  BY <1>1, AloneInitializeQueue, AloneOthers DEF Alone!Next
<1>2. ASSUME NEW k \in Pubkeys, NEW c \in Contents,
             RegisterWorker(n, k, c) \/ DeactivateWorker(n, k, c)
      PROVE  Alone(n)!Next
  BY <1>2, AloneRegisterWorker, AloneOthers DEF Alone!Next
<1>3. ASSUME NEW s \in Seqs, NEW c \in Contents, EnqueueJob(n, s, c) \/ ExpireJob(n, s, c)
      PROVE  Alone(n)!Next
  BY <1>3, AloneEnqueueJob, AloneOthers DEF Alone!Next
<1>4. ASSUME NEW s \in Seqs, NEW k \in Pubkeys, NEW c \in Contents,
             ClaimJob(n, s, k, c) \/ ReportJob(n, s, k, c)
      PROVE  Alone(n)!Next
  BY <1>4, AloneOthers DEF Alone!Next
<1>5. ASSUME NEW s \in Seqs, CloseJob(n, s)
      PROVE  Alone(n)!Next
  BY <1>5, AloneCloseJob DEF Alone!Next
<1> QED
  BY <1>1, <1>2, <1>3, <1>4, <1>5 DEF StepOf

\* No instruction of a queue changes an account that is not at its addresses.
LEMMA StepStaysHome ==
  ASSUME WellTyped, NEW n \in Names, StepOf(n), NEW a \in AllAddresses, a \notin Addresses(n)
  PROVE  account'[a] = account[a]
<1>1. ASSUME NEW b \in Addresses(n), NEW x, account' = [account EXCEPT ![b] = x]
      PROVE  account'[a] = account[a]
  BY <1>1, PartFacts DEF WellTyped
<1>2. ASSUME NEW A \in SUBSET Addresses(n), NEW c \in Contents, account' = Written(A, c)
      PROVE  account'[a] = account[a]
  BY <1>2, WrittenKeeps
<1>3. ASSUME NEW c \in Contents, InitializeQueue(n, c) \/ SetQueuePaused(n, c)
      PROVE  account'[a] = account[a]
  BY <1>1, <1>2, <1>3, PartFacts DEF InitializeQueue, SetQueuePaused
<1>4. ASSUME NEW k \in Pubkeys, NEW c \in Contents,
             RegisterWorker(n, k, c) \/ DeactivateWorker(n, k, c)
      PROVE  account'[a] = account[a]
  BY <1>1, <1>2, <1>4, PartFacts DEF RegisterWorker, DeactivateWorker
<1>5. ASSUME NEW s \in Seqs, NEW c \in Contents, EnqueueJob(n, s, c)
      PROVE  account'[a] = account[a]
  <2>1. Written({QueueAddress(n)}, c)[a] = account[a]
    BY WrittenKeeps, PartFacts
  <2> QED
    BY <1>5, <2>1, PartFacts, WrittenKeeps DEF EnqueueJob
<1>6. ASSUME NEW s \in Seqs, NEW c \in Contents, ExpireJob(n, s, c)
      PROVE  account'[a] = account[a]
  BY <1>2, <1>6, PartFacts DEF ExpireJob
<1>7. ASSUME NEW s \in Seqs, NEW k \in Pubkeys, NEW c \in Contents,
             ClaimJob(n, s, k, c) \/ ReportJob(n, s, k, c)
      PROVE  account'[a] = account[a]
  BY <1>2, <1>7, PartFacts DEF ClaimJob, ReportJob
<1>8. ASSUME NEW s \in Seqs, CloseJob(n, s)
      PROVE  account'[a] = account[a]
  BY <1>1, <1>8, PartFacts DEF CloseJob
<1> QED
  BY <1>3, <1>4, <1>5, <1>6, <1>7, <1>8 DEF StepOf

LEMMA NextAlone ==
  WellTyped /\ [Next]_vars => \A n \in Names : [Alone(n)!Next]_(Alone(n)!vars)
<1> SUFFICES ASSUME WellTyped, [Next]_vars, NEW n \in Names
             PROVE  Alone(n)!Next \/ UNCHANGED Part(n)
  BY DEF Alone!vars, Part
<1>1. ASSUME NEW m \in Names, StepOf(m), m # n
      PROVE  UNCHANGED Part(n)
  <2>1. \A a \in Addresses(n) : account'[a] = account[a]
    BY <1>1, StepStaysHome, AddressesDisjoint, PartFacts
  <2> QED
    BY <2>1 DEF Part
<1>2. CASE StepOf(n)
  BY <1>2, AloneStep
<1>3. CASE UNCHANGED vars
  BY <1>3 DEF vars, Part
<1> QED
  BY <1>1, <1>2, <1>3, NextStepOf

\* Each queue behaves as if there were no other, whatever their names: every
\* step of the program is, for every queue, a step of that queue's own
\* instructions or none that it could notice.
THEOREM QueuesAloneHold == Spec => QueuesAlone
<1>1. Init => \A n \in Names : Alone(n)!Init
  <2> SUFFICES ASSUME Init, NEW n \in Names
               PROVE  Alone(n)!Init
    OBVIOUS
  <2>1. \A a \in Addresses(n) : account[a] = Absent
    BY PartFacts DEF Init, AllAddresses
  <2>2. UNION {Alone(n)!Addresses(m) : m \in {n}} = Addresses(n)
    BY AloneAddresses
  <2>3. [a \in Addresses(n) |-> account[a]]
          = [a \in UNION {Alone(n)!Addresses(m) : m \in {n}} |-> Alone(n)!Absent]
    BY <2>1, <2>2, AloneAddresses
  <2> QED
    BY <2>3 DEF Alone!Init
<1>2. Init => WellTyped /\ FoundWhereDerived
  BY AddressesType, AbsentType
     DEF Init, WellTyped, AllAddresses, FoundWhereDerived, Free
<1> QED
  BY <1>1, <1>2, NextFound, NextAlone, PTL DEF Spec, QueuesAlone

=============================================================================
