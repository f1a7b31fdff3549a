--------------------------- MODULE DashboardProofs ---------------------------
(***************************************************************************)
(* Proofs about the web dashboard, for any number of queues, of jobs and   *)
(* of overlapping fetches. Liveness (Settles, RefreshAgain) is left to TLC.   *)
(***************************************************************************)
EXTENDS Dashboard, TLAPS

USE NamesAssumption, LimitsAssumption

\* The actions that a fetchQueue slot takes, and those of a fetchJobs slot.
FetchStep(f) ==
  \/ Serve(f) \/ ArriveFound(f) \/ ArriveMissing(f) \/ FetchFails(f)
  \/ RunEffect(f) \/ Refresh(f)
ListStep(l) == TimerFires(l) \/ ReadRow(l) \/ SkipRow(l) \/ ShowRows(l)
QueueStep(q) ==
  Create(q) \/ \E a \in Addresses : Enqueue(q, a) \/ Finish(q, a) \/ Close(q, a)

-----------------------------------------------------------------------------
(* Types.                                                                  *)

LEMMA StartFetchType ==
  ASSUME TypeOK, NEW f \in Slots, NEW q \in Names, StartFetch(f, q)
  PROVE  fetches' \in [Slots -> Fetch] /\ loading' \in BOOLEAN /\ error' \in BOOLEAN
<1>1. CASE q \notin {NoName, LongName}
  <2>1. Awaiting(q) \in Fetch
    BY <1>1 DEF Names, Awaiting, Fetch
  <2> QED
    BY <1>1, <2>1 DEF TypeOK, StartFetch
<1>2. CASE q \in {NoName, LongName}
  BY <1>2 DEF TypeOK, StartFetch
<1> QED
  BY <1>1, <1>2

LEMMA EffectType ==
  ASSUME TypeOK, NEW f \in Slots, NEW q \in Names, NEW st \in {None} \cup Stats,
         Effect(f, q, st)
  PROVE  /\ fetches' \in [Slots -> Fetch] /\ loading' \in BOOLEAN /\ error' \in BOOLEAN
         /\ timers' \in Seq(Closure)
<1>1. timers' \in Seq(Closure)
  <2>1. CASE UNCHANGED timers
    BY <2>1 DEF TypeOK
  <2>2. CASE ~UNCHANGED timers
    <3>1. st \in Stats
      BY <2>2 DEF Effect
    <3>2. [queue |-> q, next |-> st.next] \in Closure
      BY <3>1 DEF Stats, Closure
    <3> QED
      BY <2>2, <3>2 DEF Effect, TypeOK
  <2> QED
    BY <2>1, <2>2
<1> QED
  BY <1>1, StartFetchType DEF Effect

LEMMA ListedRange ==
  ASSUME NEW n \in Nat
  PROVE  Listed(n) \in Nat /\ Listed(n) <= FetchLimit /\ Listed(n) <= n
BY DEF Listed

LEMMA StartListType ==
  ASSUME TypeOK, NEW l \in ListSlots, NEW c \in Closure, StartList(l, c)
  PROVE  lists' \in [ListSlots -> List] /\ jobs' \subseteq Row
<1>1. c.queue \in Names /\ Listed(c.next) \in Nat
  BY ListedRange DEF Closure
<1>2. [queue |-> c.queue, end |-> Listed(c.next), at |-> 0, rows |-> {}] \in List
  BY <1>1 DEF List
<1> QED
  BY <1>2 DEF StartList, TypeOK

\* A live account is a job.
LEMMA AccountType ==
  ASSUME TypeOK, NEW q \in Queues, NEW a \in Addresses
  PROVE  /\ chain[q].account[a] \in {NoJob} \cup Job
         /\ chain[q].account[a] # NoJob <=> chain[q].account[a] \in Job
         /\ chain[q].account[a] # NoJob <=> chain[q].account[a].status # "none"
<1>1. chain[q].account[a] \in {NoJob} \cup Job
  BY DEF TypeOK, ChainQueue
<1>2. NoJob.status = "none" /\ \A j \in Job : j.status # "none"
  BY DEF NoJob, Job
<1> QED
  BY <1>1, <1>2

LEMMA RowAtType ==
  ASSUME TypeOK, NEW q \in Names, NEW a \in Nat
  PROVE  /\ RowAt(q, a) \subseteq Row
         /\ \A r \in RowAt(q, a) :
              /\ r.queue = q /\ r.pubkey = a /\ q \in Queues /\ a \in Addresses
              /\ chain[q].account[a] # NoJob
              /\ r.seq = chain[q].account[a].seq
              /\ r.status = chain[q].account[a].status
         /\ \A r, t \in RowAt(q, a) : r = t
<1>1. CASE q \in Queues /\ a \in Addresses /\ chain[q].account[a] # NoJob
  <2>1. chain[q].account[a] \in Job
    BY <1>1, AccountType
  <2> DEFINE r == [queue |-> q, pubkey |-> a,
                   seq |-> chain[q].account[a].seq, status |-> chain[q].account[a].status]
  <2>2. r \in Row
    BY <1>1, <2>1 DEF Job, Row
  <2>3. RowAt(q, a) = {r}
    BY <1>1 DEF RowAt
  <2> QED
    BY <1>1, <2>2, <2>3
<1>2. CASE ~(q \in Queues /\ a \in Addresses /\ chain[q].account[a] # NoJob)
  BY <1>2 DEF RowAt
<1> QED
  BY <1>1, <1>2

\* What one step on the cluster does to a queue: numbers are not taken back, and
\* an account is empty, goes on with its job and its number (a finished job is
\* not open again), or is the only one that changes and has the next number.
AccountGrows(q, a) ==
  \/ chain'[q].account[a] = NoJob
  \/ /\ chain[q].account[a] # NoJob
     /\ chain'[q].account[a].seq = chain[q].account[a].seq
     /\ chain'[q].account[a].status = "open" => chain[q].account[a].status = "open"
  \/ /\ chain'[q].account[a].seq = chain[q].next
     /\ chain'[q].next = chain[q].next + 1
     /\ \A b \in Addresses \ {a} : chain'[q].account[b] = chain[q].account[b]

ClusterGrows ==
  /\ chain' \in [Queues -> ChainQueue]
  /\ \A q \in Queues :
       /\ chain[q].exists => chain'[q].exists
       /\ chain'[q].next >= chain[q].next
       /\ \A a \in Addresses : AccountGrows(q, a)
  /\ UNCHANGED <<queueName, stats, jobs, loading, error, page, fetches, timers, lists, disturbed>>

\* Putting a queue that grew in the place of one.
LEMMA OneGrows ==
  ASSUME TypeOK, NEW p \in Queues, NEW c \in ChainQueue, ClusterStep(p, c),
         chain[p].exists => c.exists, c.next >= chain[p].next,
         \A a \in Addresses :
           \/ c.account[a] = NoJob
           \/ /\ chain[p].account[a] # NoJob
              /\ c.account[a].seq = chain[p].account[a].seq
              /\ c.account[a].status = "open" => chain[p].account[a].status = "open"
           \/ /\ c.account[a].seq = chain[p].next /\ c.next = chain[p].next + 1
              /\ \A b \in Addresses \ {a} : c.account[b] = chain[p].account[b]
  PROVE  ClusterGrows
<1>1. /\ chain \in [Queues -> ChainQueue] /\ chain' = [chain EXCEPT ![p] = c]
      /\ UNCHANGED <<queueName, stats, jobs, loading, error, page, fetches, timers, lists, disturbed>>
  BY DEF TypeOK, ClusterStep
<1>2. chain' \in [Queues -> ChainQueue] /\ chain'[p] = c
      /\ \A q \in Queues \ {p} : chain'[q] = chain[q]
  BY <1>1
<1>3. \A q \in Queues : chain[q].next \in Nat
  BY <1>1 DEF ChainQueue
<1>4. \A q \in Queues :
        /\ chain[q].exists => chain'[q].exists
        /\ chain'[q].next >= chain[q].next
  BY <1>2, <1>3
<1>5. ASSUME NEW q \in Queues, NEW a \in Addresses PROVE AccountGrows(q, a)
  <2>1. CASE q = p
    BY <1>2, <2>1 DEF AccountGrows
  <2>2. CASE q # p
    BY <1>2, <2>2 DEF AccountGrows
  <2> QED
    BY <2>1, <2>2
<1> QED
  BY <1>1, <1>2, <1>4, <1>5 DEF ClusterGrows

LEMMA ClusterEffect ==
  ASSUME TypeOK, NEW p \in Queues, QueueStep(p)
  PROVE  ClusterGrows
<1> DEFINE n == chain[p].next
<1>0. chain[p] \in ChainQueue /\ n \in Nat /\ n + 1 \in Nat /\ n + 1 >= n /\ n >= n
  BY DEF TypeOK, ChainQueue
<1>1. CASE Create(p)
  <2> DEFINE c == [chain[p] EXCEPT !.exists = TRUE]
  <2>1. ClusterStep(p, c)
    BY <1>1 DEF Create
  <2>2. c \in ChainQueue /\ c.next = n /\ c.account = chain[p].account /\ c.exists
    BY <1>0 DEF ChainQueue
  <2> HIDE DEF c
  <2> QED
    BY <1>0, <2>1, <2>2, OneGrows
<1>2. ASSUME NEW a \in Addresses, Enqueue(p, a) PROVE ClusterGrows
  <2> DEFINE j == [seq |-> n, status |-> "open"]
             c == [chain[p] EXCEPT !.next = n + 1, !.account[a] = j]
  <2>1. ClusterStep(p, c)
    BY <1>2 DEF Enqueue
  <2>2. j \in Job /\ j.seq = n
    BY <1>0 DEF Job
  <2> HIDE DEF j
  <2>3. /\ c \in ChainQueue /\ c.next = n + 1 /\ c.exists = chain[p].exists
        /\ c.account[a] = j
        /\ \A b \in Addresses \ {a} : c.account[b] = chain[p].account[b]
    <3> HIDE DEF n
    <3> QED
      BY <1>0, <2>2 DEF ChainQueue
  <2> HIDE DEF c
  <2>4. \A b \in Addresses \ {a} :
          \/ c.account[b] = NoJob
          \/ /\ chain[p].account[b] # NoJob
             /\ c.account[b].seq = chain[p].account[b].seq
             /\ c.account[b].status = "open" => chain[p].account[b].status = "open"
    BY <2>3
  <2> QED
    BY <1>0, <2>1, <2>2, <2>3, <2>4, OneGrows
<1>3. ASSUME NEW a \in Addresses, Finish(p, a) PROVE ClusterGrows
  <2> DEFINE j == [chain[p].account[a] EXCEPT !.status = "finished"]
             c == [chain[p] EXCEPT !.account[a] = j]
  <2>1. ClusterStep(p, c)
    BY <1>0, <1>3 DEF Finish, ChainQueue
  <2>2. chain[p].account[a] # NoJob /\ chain[p].account[a] \in Job
    BY <1>3, AccountType DEF Finish
  <2>3. j \in Job /\ j.seq = chain[p].account[a].seq /\ j.status # "open"
    BY <2>2 DEF Job
  <2> HIDE DEF j
  <2>4. /\ c \in ChainQueue /\ c.next = n /\ c.exists = chain[p].exists
        /\ c.account[a] = j
        /\ \A b \in Addresses \ {a} : c.account[b] = chain[p].account[b]
    BY <1>0, <2>3 DEF ChainQueue
  <2> HIDE DEF c
  <2> QED
    BY <1>0, <2>1, <2>2, <2>3, <2>4, OneGrows
<1>4. ASSUME NEW a \in Addresses, Close(p, a) PROVE ClusterGrows
  <2> DEFINE c == [chain[p] EXCEPT !.account[a] = NoJob]
  <2>1. ClusterStep(p, c)
    BY <1>4 DEF Close
  <2>2. /\ c \in ChainQueue /\ c.next = n /\ c.exists = chain[p].exists
        /\ c.account[a] = NoJob
        /\ \A b \in Addresses \ {a} : c.account[b] = chain[p].account[b]
    BY <1>0 DEF ChainQueue
  <2> HIDE DEF c
  <2> QED
    BY <1>0, <2>1, <2>2, OneGrows
<1> QED
  BY <1>1, <1>2, <1>3, <1>4 DEF QueueStep

LEMMA OldQueueType == OldQueue \in ChainQueue /\ NoQueue \in ChainQueue
<1> DEFINE old(a) == IF a < OldJobs
                     THEN [seq |-> a, status |-> IF a = 0 THEN "finished" ELSE "open"] ELSE NoJob
<1>1. \A a \in Addresses : old(a) \in {NoJob} \cup Job
  BY DEF Job
<1>2. OldQueue = [exists |-> TRUE, next |-> OldJobs, account |-> [a \in Addresses |-> old(a)]]
  BY DEF OldQueue
<1> HIDE DEF old
<1>3. OldQueue \in ChainQueue
  BY <1>1, <1>2 DEF ChainQueue
<1>4. NoQueue \in ChainQueue
  BY DEF NoQueue, ChainQueue
<1> QED
  BY <1>3, <1>4

LEMMA TypeInit == Init => TypeOK
<1> SUFFICES ASSUME Init PROVE TypeOK
  OBVIOUS
<1>1. \A q \in Queues : chain[q] \in ChainQueue
  BY OldQueueType DEF Init
<1>2. fetches \in [Slots -> Fetch]
  <2>1. NoFetch \in Fetch /\ Awaiting(FirstName) \in Fetch
    BY DEF Awaiting, Fetch
  <2> QED
    BY <2>1 DEF Init
<1>3. lists \in [ListSlots -> List]
  BY DEF Init, NoList, List
<1>4. chain \in [Queues -> ChainQueue] /\ jobs \subseteq Row /\ timers \in Seq(Closure)
  BY <1>1 DEF Init
<1>5. /\ queueName \in Names /\ stats \in {None} \cup Stats
      /\ loading \in BOOLEAN /\ error \in BOOLEAN
      /\ rendered \in {None} \cup Stats /\ due \in BOOLEAN
  BY DEF Init, Names
<1> QED
  BY <1>2, <1>3, <1>4, <1>5 DEF TypeOK

\* The part of the screen and of the calls that a fetchQueue slot may change.
LEMMA FetchStepType ==
  ASSUME TypeOK, NEW f \in Slots, FetchStep(f)
  PROVE  TypeOK'
<1> USE DEF TypeOK, page
<1>1. CASE Serve(f)
  <2>1. fetches[f].queue \in Queues
    BY <1>1 DEF Serve, FreeSlot, Fetch
  <2>2. QueueInfo(fetches[f].queue) \in {None} \cup Stats
    BY <2>1 DEF QueueInfo, Stats, ChainQueue
  <2>3. [fetches[f] EXCEPT !.served = TRUE, !.answer = QueueInfo(fetches[f].queue)] \in Fetch
    BY <1>1, <2>1, <2>2 DEF Serve, FreeSlot, Fetch
  <2> QED
    BY <1>1, <2>3 DEF Serve
<1>2. CASE ArriveFound(f)
  <2>1. stats' \in Stats
    BY <1>2 DEF ArriveFound, Answered, Fetch, NoFetch
  <2> QED
    BY <1>2, <2>1 DEF ArriveFound, Fetch
<1>3. CASE ArriveMissing(f)
  BY <1>3 DEF ArriveMissing, Fetch
<1>4. CASE FetchFails(f)
  BY <1>4 DEF FetchFails, Fetch
<1>5. CASE Refresh(f)
  BY <1>5, StartFetchType DEF Refresh
<1>6. CASE RunEffect(f)
  <2>1. Effect(f, queueName, stats) /\ queueName \in Names /\ stats \in {None} \cup Stats
    BY <1>6 DEF RunEffect
  <2>2. /\ fetches' \in [Slots -> Fetch] /\ loading' \in BOOLEAN /\ error' \in BOOLEAN
        /\ timers' \in Seq(Closure)
    BY <2>1, EffectType
  <2> QED
    BY <1>6, <2>2 DEF RunEffect
<1> QED
  BY <1>1, <1>2, <1>3, <1>4, <1>5, <1>6 DEF FetchStep

LEMMA ListStepType ==
  ASSUME TypeOK, NEW l \in ListSlots, ListStep(l)
  PROVE  TypeOK'
<1> USE DEF TypeOK, page
<1>1. CASE TimerFires(l)
  <2>1. Head(timers) \in Closure /\ Tail(timers) \in Seq(Closure)
    BY <1>1 DEF TimerFires
  <2> QED
    BY <1>1, <2>1, StartListType DEF TimerFires
<1>2. CASE ReadRow(l)
  <2>1. lists[l].queue \in Names /\ lists[l].at \in Nat /\ lists[l].rows \subseteq Row
    BY <1>2 DEF ReadRow, FreeList, List
  <2>2. RowAt(lists[l].queue, lists[l].at) \subseteq Row
    BY <2>1, RowAtType
  <2>3. /\ lists[l] \in [queue : Names, end : Nat, at : Nat, rows : SUBSET Row]
        /\ lists[l].at + 1 \in Nat
        /\ lists[l].rows \cup RowAt(lists[l].queue, lists[l].at) \in SUBSET Row
    BY <1>2, <2>1, <2>2 DEF ReadRow, FreeList, List
  <2>4. [lists[l] EXCEPT !.at = @ + 1,
           !.rows = @ \cup RowAt(lists[l].queue, lists[l].at)] \in List
    BY <2>3 DEF List
  <2>5. /\ lists' = [lists EXCEPT
                        ![l].at = @ + 1, ![l].rows = @ \cup RowAt(ListQueue(l), lists[l].at)]
        /\ UNCHANGED <<chain, queueName, stats, jobs, loading, error, page, fetches, timers>>
    BY <1>2 DEF ReadRow
  <2> QED
    BY <2>4, <2>5 DEF ListQueue
<1>3. CASE SkipRow(l)
  <2>1. [lists[l] EXCEPT !.at = @ + 1] \in List
    BY <1>3 DEF SkipRow, FreeList, List
  <2> QED
    BY <1>3, <2>1 DEF SkipRow
<1>4. CASE ShowRows(l)
  <2>1. NoList \in List /\ lists[l].rows \subseteq Row
    BY <1>4 DEF ShowRows, FreeList, List
  <2> QED
    BY <1>4, <2>1 DEF ShowRows
<1> QED
  BY <1>1, <1>2, <1>3, <1>4 DEF ListStep

\* Both slots at once.
LEMMA IntervalType ==
  ASSUME TypeOK, NEW f \in Slots, NEW l \in ListSlots, Interval(f, l)
  PROVE  TypeOK'
<1>1. fetches' \in [Slots -> Fetch] /\ loading' \in BOOLEAN /\ error' \in BOOLEAN
  BY StartFetchType DEF Interval, TypeOK
<1>2. lists' \in [ListSlots -> List] /\ jobs' \subseteq Row
  <2>1. CASE rendered = None
    BY <2>1 DEF Interval, TypeOK
  <2>2. CASE rendered # None
    <3>1. [queue |-> queueName, next |-> rendered.next] \in Closure
      BY <2>2 DEF TypeOK, Stats, Closure
    <3> QED
      BY <2>2, <3>1, StartListType DEF Interval
  <2> QED
    BY <2>1, <2>2
<1> QED
  BY <1>1, <1>2 DEF Interval, TypeOK, page

LEMMA TypeStep == TypeOK /\ [Next]_vars => TypeOK'
<1> SUFFICES ASSUME TypeOK, [Next]_vars PROVE TypeOK'
  OBVIOUS
<1>1. CASE UNCHANGED vars
  BY <1>1 DEF TypeOK, vars, page
<1>2. ASSUME NEW f \in Slots, FetchStep(f) PROVE TypeOK'
  BY <1>2, FetchStepType
<1>3. ASSUME NEW f \in Slots, NEW q \in Names, LoadQueue(f, q) PROVE TypeOK'
  <2>1. Effect(f, q, rendered) /\ queueName' = q /\ UNCHANGED <<chain, stats, jobs, page, lists>>
    BY <1>3 DEF LoadQueue
  <2>2. /\ fetches' \in [Slots -> Fetch] /\ loading' \in BOOLEAN /\ error' \in BOOLEAN
        /\ timers' \in Seq(Closure)
    <3>1. rendered \in {None} \cup Stats
      BY DEF TypeOK
    <3> QED
      BY <2>1, <3>1, EffectType
  <2> QED
    BY <2>1, <2>2 DEF TypeOK, page
<1>4. ASSUME NEW f \in Slots, NEW l \in ListSlots, Interval(f, l) PROVE TypeOK'
  BY <1>4, IntervalType
<1>5. ASSUME NEW l \in ListSlots, ListStep(l) PROVE TypeOK'
  BY <1>5, ListStepType
<1>6. ASSUME NEW q \in Queues, QueueStep(q) PROVE TypeOK'
  BY <1>6, ClusterEffect DEF ClusterGrows, TypeOK, page
<1> QED
  BY <1>1, <1>2, <1>3, <1>4, <1>5, <1>6 DEF Next, FetchStep, ListStep, QueueStep

\* The state of the dashboard keeps its types: in particular no row is ever
\* made of an address that has no account.
THEOREM WebTypeCorrect == Spec => []TypeOK
<1> QED
  BY TypeInit, TypeStep, PTL DEF Spec

-----------------------------------------------------------------------------
(* The spinner.                                                            *)

\* A call that starts, in a free slot, turns the spinner on and takes the slot;
\* for a name without an address, it is off.
LEMMA SpinnerContinue ==
  ASSUME TypeOK, SpinnerStops, NEW f \in Slots, NEW q \in Names,
         StartFetch(f, q), FreeSlot(f)
  PROVE  SpinnerStops'
<1>1. CASE q \notin {NoName, LongName}
  <2>1. fetches'[f] = Awaiting(q) /\ Awaiting(q) # NoFetch
    BY <1>1 DEF StartFetch, TypeOK, Awaiting, NoFetch
  <2> QED
    BY <2>1 DEF SpinnerStops, FreeSlot
<1>2. CASE q \in {NoName, LongName}
  <2>1. fetches' = fetches /\ (loading' = loading \/ loading' = FALSE)
    BY <1>2 DEF StartFetch
  <2>2. CASE loading' = FALSE
    BY <2>2 DEF SpinnerStops
  <2>3. CASE loading' = loading
    BY <2>1, <2>3 DEF SpinnerStops, FreeSlot
  <2> QED
    BY <2>1, <2>2, <2>3
<1> QED
  BY <1>1, <1>2

LEMMA SpinnerFetchStep ==
  ASSUME TypeOK, SpinnerStops, NEW f \in Slots, FetchStep(f)
  PROVE  SpinnerStops'
<1>1. CASE Serve(f)
  <2>1. fetches'[f] # NoFetch /\ loading' = loading
    BY <1>1 DEF Serve, TypeOK, NoFetch
  <2> QED
    BY <2>1 DEF SpinnerStops, FreeSlot
<1>2. CASE ArriveFound(f) \/ ArriveMissing(f) \/ FetchFails(f)
  BY <1>2 DEF ArriveFound, ArriveMissing, FetchFails, SpinnerStops
<1>3. CASE RunEffect(f) \/ Refresh(f)
  <2>1. StartFetch(f, queueName) /\ FreeSlot(f) /\ queueName \in Names
    BY <1>3 DEF RunEffect, Effect, Refresh, FirstFree, TypeOK
  <2> QED
    BY <2>1, SpinnerContinue
<1> QED
  BY <1>1, <1>2, <1>3 DEF FetchStep

\* The spinner turns only while a request is under way, however many fetches
\* overlap and in whatever way they end.
THEOREM SpinnerStopsHolds == Spec => []SpinnerStops
<1>1. Init => SpinnerStops
  <2> SUFFICES ASSUME Init PROVE SpinnerStops
    OBVIOUS
  <2>1. PICK n \in FirstEffects :
          fetches = [f \in Slots |-> IF f <= n THEN Awaiting(queueName) ELSE NoFetch]
    BY DEF Init
  <2>2. 1 \in Slots /\ 1 <= n
    BY DEF Slots, FirstEffects
  <2>3. fetches[1] = Awaiting(FirstName) /\ FirstName # None
    BY <2>1, <2>2 DEF Init, Names
  <2> QED
    BY <2>2, <2>3 DEF SpinnerStops, FreeSlot, Awaiting, NoFetch
<1>2. TypeOK /\ SpinnerStops /\ [Next]_vars => SpinnerStops'
  <2> SUFFICES ASSUME TypeOK, SpinnerStops, [Next]_vars PROVE SpinnerStops'
    OBVIOUS
  <2>1. CASE UNCHANGED <<loading, fetches>>
    BY <2>1 DEF SpinnerStops, FreeSlot
  <2>2. ASSUME NEW f \in Slots, FetchStep(f) PROVE SpinnerStops'
    BY <2>2, SpinnerFetchStep
  <2>3. ASSUME NEW f \in Slots, NEW q \in Names, LoadQueue(f, q) PROVE SpinnerStops'
    <3>1. StartFetch(f, q) /\ FreeSlot(f)
      BY <2>3 DEF LoadQueue, Effect, FirstFree
    <3> QED
      BY <3>1, SpinnerContinue
  <2>4. ASSUME NEW f \in Slots, NEW l \in ListSlots, Interval(f, l) PROVE SpinnerStops'
    <3>1. StartFetch(f, queueName) /\ FreeSlot(f) /\ queueName \in Names
      BY <2>4 DEF Interval, FirstFree, TypeOK
    <3> QED
      BY <3>1, SpinnerContinue
  <2>5. ASSUME NEW l \in ListSlots, ListStep(l) PROVE UNCHANGED <<loading, fetches>>
    BY <2>5 DEF ListStep, TimerFires, ReadRow, SkipRow, ShowRows
  <2>6. ASSUME NEW q \in Queues, QueueStep(q) PROVE UNCHANGED <<loading, fetches>>
    BY <2>6, ClusterEffect DEF ClusterGrows
  <2> QED
    BY <2>1, <2>2, <2>3, <2>4, <2>5, <2>6 DEF Next, FetchStep, ListStep, QueueStep, vars
<1> QED
  BY <1>1, <1>2, WebTypeCorrect, PTL DEF Spec

-----------------------------------------------------------------------------
(* The rows. What holds of the table holds of the rows that a call under   *)
(* way has collected, since these become the table in the end.             *)

\* A step keeps or clears the table, or it is one of the others below.
LEMMA RowSteps ==
  ASSUME TypeOK, [Next]_vars
  PROVE  \/ jobs' \in {jobs, {}} /\ UNCHANGED <<chain, lists>>
         \/ \E l \in ListSlots, c \in Closure : StartList(l, c) /\ UNCHANGED chain
         \/ \E l \in ListSlots : ReadRow(l) \/ SkipRow(l) \/ ShowRows(l)
         \/ ClusterGrows
<1> DEFINE Keeps == jobs' \in {jobs, {}} /\ UNCHANGED <<chain, lists>>
           Starts == \E l \in ListSlots, c \in Closure : StartList(l, c) /\ UNCHANGED chain
<1>1. ASSUME UNCHANGED vars PROVE Keeps
  BY <1>1 DEF vars
<1>2. ASSUME NEW f \in Slots, NEW q \in Names, FetchStep(f) \/ LoadQueue(f, q)
      PROVE  Keeps
  BY <1>2 DEF FetchStep, Serve, ArriveFound, ArriveMissing, FetchFails, RunEffect,
              Refresh, LoadQueue
<1>3. ASSUME NEW f \in Slots, NEW l \in ListSlots, Interval(f, l)
      PROVE  Keeps \/ Starts
  <2>1. CASE rendered = None
    BY <1>3, <2>1 DEF Interval
  <2>2. CASE rendered # None
    <3>1. [queue |-> queueName, next |-> rendered.next] \in Closure
      BY <2>2 DEF TypeOK, Stats, Closure
    <3>2. StartList(l, [queue |-> queueName, next |-> rendered.next]) /\ UNCHANGED chain
      BY <1>3, <2>2 DEF Interval
    <3> QED
      BY <3>1, <3>2
  <2> QED
    BY <2>1, <2>2
<1>4. ASSUME NEW l \in ListSlots, TimerFires(l) PROVE Starts
  <2>1. Head(timers) \in Closure
    BY <1>4 DEF TimerFires, TypeOK
  <2> QED
    BY <1>4, <2>1 DEF TimerFires
<1>5. ASSUME NEW q \in Queues, QueueStep(q) PROVE ClusterGrows
  BY <1>5, ClusterEffect
<1>6. FirstName \in Names
  BY DEF Names
<1> HIDE DEF Keeps, Starts
<1>7. \/ Keeps \/ Starts \/ ClusterGrows
      \/ \E l \in ListSlots : ReadRow(l) \/ SkipRow(l) \/ ShowRows(l)
  <2>1. CASE UNCHANGED vars
    BY <1>1, <2>1
  <2>2. CASE \E f \in Slots : FetchStep(f) \/ \E q \in Names : LoadQueue(f, q)
    BY <1>2, <1>6, <2>2
  <2>3. CASE \E f \in Slots, l \in ListSlots : Interval(f, l)
    BY <1>3, <2>3
  <2>4. CASE \E l \in ListSlots : ListStep(l)
    BY <1>4, <2>4 DEF ListStep
  <2>5. CASE \E q \in Queues : QueueStep(q)
    BY <1>5, <2>5
  <2> QED
    BY <2>1, <2>2, <2>3, <2>4, <2>5 DEF Next, FetchStep, ListStep, QueueStep
<1> QED
  BY <1>7 DEF Keeps, Starts

\* A list that begins has no rows and its end within the limit.
LEMMA StartedList ==
  ASSUME TypeOK, NEW k \in ListSlots, NEW c \in Closure, StartList(k, c), NEW l \in ListSlots
  PROVE  /\ jobs' \in {jobs, {}}
         /\ \/ lists'[l] = lists[l]
            \/ lists'[l].rows = {} /\ lists'[l].end <= FetchLimit
<1>1. Listed(c.next) <= FetchLimit
  BY ListedRange DEF Closure
<1> QED
  BY <1>1 DEF StartList, TypeOK

\* A list that goes on keeps its queue and its end; when it reads, it takes what
\* is at the address it has come to, and goes to the next one.
Reads(l) ==
  /\ lists[l].queue \in Names /\ lists[l].at \in Nat /\ lists[l].at < lists[l].end
  /\ lists'[l].at = lists[l].at + 1
  /\ lists'[l].rows = lists[l].rows \cup RowAt(lists[l].queue, lists[l].at)
Skips(l) ==
  /\ lists[l].at \in Nat /\ lists'[l].at \in {lists[l].at, lists[l].at + 1}
  /\ lists'[l].rows = lists[l].rows

LEMMA ReadList ==
  ASSUME TypeOK, NEW k \in ListSlots, ReadRow(k) \/ SkipRow(k) \/ ShowRows(k),
         NEW l \in ListSlots
  PROVE  /\ jobs' = jobs \/ jobs' = lists[k].rows
         /\ UNCHANGED chain
         /\ \/ lists'[l].rows = {} /\ lists'[l].end = 0
            \/ /\ lists'[l].queue = lists[l].queue /\ lists'[l].end = lists[l].end
               /\ Reads(l) \/ Skips(l)
<1>0. lists \in [ListSlots -> List] /\ lists[l].at \in Nat
  BY DEF TypeOK, List, NoList
<1>1. CASE ReadRow(k)
  <2>1. /\ lists[k].queue \in Names /\ lists[k].at \in Nat
        /\ lists[k].end \in Nat /\ lists[k].at < lists[k].end
    BY <1>1 DEF ReadRow, FreeList, TypeOK, List
  <2> DEFINE new == RowAt(lists[k].queue, lists[k].at)
  <2>2. lists' = [lists EXCEPT ![k].at = @ + 1, ![k].rows = @ \cup new]
        /\ UNCHANGED <<chain, jobs>>
    BY <1>1 DEF ReadRow, ListQueue
  <2>3. CASE l # k
    BY <1>0, <2>2, <2>3 DEF Skips
  <2>4. CASE l = k
    <3> HIDE DEF new
    <3>1. /\ lists'[k].queue = lists[k].queue /\ lists'[k].end = lists[k].end
          /\ lists'[k].at = lists[k].at + 1 /\ lists'[k].rows = lists[k].rows \cup new
      BY <1>0, <1>1, <2>2 DEF List, ReadRow, FreeList
    <3> QED
      BY <2>1, <2>2, <2>4, <3>1 DEF Reads, new
  <2> QED
    BY <2>3, <2>4
<1>2. CASE SkipRow(k)
  BY <1>0, <1>2 DEF SkipRow, Skips, FreeList, List
<1>3. CASE ShowRows(k)
  BY <1>0, <1>3 DEF ShowRows, Skips, NoList
<1> QED
  BY <1>1, <1>2, <1>3

ListsOfOneQueue == \A l \in ListSlots : \A r \in lists[l].rows : r.queue = lists[l].queue

OneQueue == RowsOfOneQueue /\ ListsOfOneQueue

\* The table shows the jobs of one queue, although the user can load another
\* one while a call is between two reads.
LEMMA OneQueueHolds == Spec => []OneQueue
<1>1. Init => OneQueue
  BY DEF Init, OneQueue, RowsOfOneQueue, ListsOfOneQueue, NoList
<1>2. TypeOK /\ OneQueue /\ [Next]_vars => OneQueue'
  <2> SUFFICES ASSUME TypeOK, OneQueue, [Next]_vars PROVE OneQueue'
    OBVIOUS
  <2> USE DEF OneQueue, RowsOfOneQueue, ListsOfOneQueue
  <2>1. CASE jobs' \in {jobs, {}} /\ UNCHANGED <<chain, lists>>
    BY <2>1
  <2>2. ASSUME NEW k \in ListSlots, NEW c \in Closure, StartList(k, c), UNCHANGED chain
        PROVE  OneQueue'
    BY <2>2, StartedList
  <2>3. ASSUME NEW k \in ListSlots, ReadRow(k) \/ SkipRow(k) \/ ShowRows(k)
        PROVE  OneQueue'
    <3>1. ASSUME NEW l \in ListSlots, Reads(l), lists'[l].queue = lists[l].queue,
                 NEW r \in lists'[l].rows
          PROVE  r.queue = lists'[l].queue
      BY <3>1, RowAtType DEF Reads
    <3>2. \A l \in ListSlots : \A r \in lists'[l].rows : r.queue = lists'[l].queue
      BY <2>3, <3>1, ReadList DEF Skips
    <3>3. \A r, t \in jobs' : r.queue = t.queue
      BY <2>3, ReadList
    <3> QED
      BY <3>2, <3>3
  <2>4. CASE ClusterGrows
    BY <2>4 DEF ClusterGrows
  <2> QED
    BY <2>1, <2>2, <2>3, <2>4, RowSteps
<1> QED
  BY <1>1, <1>2, WebTypeCorrect, PTL DEF Spec

\* The table shows the jobs of one queue, although the user can load another
\* one while a call is between two reads.
THEOREM RowsOfOneQueueHolds == Spec => []RowsOfOneQueue
<1>1. OneQueue => RowsOfOneQueue
  BY DEF OneQueue
<1> QED
  BY <1>1, OneQueueHolds, PTL

-----------------------------------------------------------------------------
(* What the screen shows was true at some time.                            *)

\* What holds of the statistics shown and of those on their way in an answer.
WasTrue(st) ==
  st # None => chain[st.queue].exists /\ st.next <= chain[st.queue].next

StatsWereTrue == WasTrue(stats) /\ \A f \in Slots : WasTrue(fetches[f].answer)

\* Statistics come from an answer, and an answer from the cluster.
LEMMA StatsSource ==
  ASSUME TypeOK, NEW f \in Slots,
         \/ FetchStep(f)
         \/ \E q \in Names : LoadQueue(f, q)
         \/ \E l \in ListSlots : Interval(f, l)
  PROVE  /\ UNCHANGED chain
         /\ stats' \in {stats, None, fetches[f].answer}
         /\ \A g \in Slots :
              \/ fetches'[g].answer \in {fetches[g].answer, None}
              \/ \E q \in Queues : fetches'[g].answer = QueueInfo(q)
<1>1. \A q \in Names : StartFetch(f, q) =>
        \A g \in Slots : fetches'[g].answer \in {fetches[g].answer, None}
  BY DEF StartFetch, TypeOK, Awaiting
<1>2. queueName \in Names
  BY DEF TypeOK
<1>3. CASE Serve(f)
  <2>1. fetches[f].queue \in Queues
    BY <1>3 DEF Serve, FreeSlot, TypeOK, Fetch
  <2>2. \A g \in Slots : \/ fetches'[g].answer = fetches[g].answer
                         \/ fetches'[g].answer = QueueInfo(fetches[f].queue)
    BY <1>3 DEF Serve, FreeSlot, TypeOK, Fetch, NoFetch
  <2> QED
    BY <1>3, <2>1, <2>2 DEF Serve
<1>4. CASE ArriveFound(f) \/ ArriveMissing(f) \/ FetchFails(f)
  <2>1. /\ stats' \in {stats, None, fetches[f].answer} /\ UNCHANGED chain
        /\ fetches' = [fetches EXCEPT ![f] = NoFetch]
    BY <1>4 DEF ArriveFound, ArriveMissing, FetchFails
  <2> QED
    BY <2>1 DEF TypeOK, NoFetch
<1>5. CASE RunEffect(f) \/ Refresh(f) \/ \E l \in ListSlots : Interval(f, l)
  <2>1. StartFetch(f, queueName) /\ UNCHANGED <<stats, chain>>
    BY <1>5 DEF RunEffect, Effect, Refresh, Interval
  <2> QED
    BY <1>1, <1>2, <2>1
<1>6. ASSUME NEW q \in Names, LoadQueue(f, q)
      PROVE  /\ UNCHANGED <<stats, chain>>
             /\ \A g \in Slots : fetches'[g].answer \in {fetches[g].answer, None}
  <2>1. StartFetch(f, q) /\ UNCHANGED <<stats, chain>>
    BY <1>6 DEF LoadQueue, Effect
  <2> QED
    BY <1>1, <2>1
<1> QED
  BY <1>3, <1>4, <1>5, <1>6 DEF FetchStep

LEMMA StatsWereTrueHolds == Spec => []StatsWereTrue
<1>1. Init => StatsWereTrue
  BY DEF Init, StatsWereTrue, WasTrue, NoFetch, Awaiting
<1>2. TypeOK /\ StatsWereTrue /\ [Next]_vars => StatsWereTrue'
  <2> SUFFICES ASSUME TypeOK, StatsWereTrue, [Next]_vars PROVE StatsWereTrue'
    OBVIOUS
  <2>1. CASE UNCHANGED <<chain, stats, fetches>>
    BY <2>1 DEF StatsWereTrue, WasTrue
  <2>2. ASSUME NEW f \in Slots,
               \/ FetchStep(f)
               \/ \E q \in Names : LoadQueue(f, q)
               \/ \E l \in ListSlots : Interval(f, l)
        PROVE  StatsWereTrue'
    <3>1. \A q \in Queues : WasTrue(QueueInfo(q))
      BY DEF WasTrue, QueueInfo, TypeOK, ChainQueue
    <3>2. WasTrue(None)
      BY DEF WasTrue
    <3>3. WasTrue(stats) /\ \A g \in Slots : WasTrue(fetches[g].answer)
      BY DEF StatsWereTrue
    <3>4. UNCHANGED chain
      BY <2>2, StatsSource
    <3>5. WasTrue(stats')
      BY <2>2, <3>2, <3>3, StatsSource
    <3>6. \A g \in Slots : WasTrue(fetches'[g].answer)
      BY <2>2, <3>1, <3>2, <3>3, StatsSource
    <3> QED
      BY <3>4, <3>5, <3>6 DEF StatsWereTrue, WasTrue
  <2>3. ASSUME NEW l \in ListSlots, ListStep(l) PROVE UNCHANGED <<chain, stats, fetches>>
    BY <2>3 DEF ListStep, TimerFires, ReadRow, SkipRow, ShowRows
  <2>4. CASE ClusterGrows
    <3>1. \A st \in {None} \cup Stats : WasTrue(st) =>
            (st # None => chain'[st.queue].exists /\ st.next <= chain'[st.queue].next)
      <4> SUFFICES ASSUME NEW st \in Stats, WasTrue(st), st # None
                   PROVE  chain'[st.queue].exists /\ st.next <= chain'[st.queue].next
        OBVIOUS
      <4> QED
        BY <2>4 DEF ClusterGrows, WasTrue, Stats, TypeOK, ChainQueue
    <3>2. \A f \in Slots : fetches[f].answer \in {None} \cup Stats
      BY DEF TypeOK, Fetch, NoFetch
    <3>3. stats \in {None} \cup Stats
      BY DEF TypeOK
    <3> QED
      BY <2>4, <3>1, <3>2, <3>3 DEF StatsWereTrue, WasTrue, ClusterGrows
  <2>5. ASSUME NEW q \in Queues, QueueStep(q) PROVE ClusterGrows
    BY <2>5, ClusterEffect
  <2> QED
    BY <2>1, <2>2, <2>3, <2>4, <2>5 DEF Next, FetchStep, ListStep, QueueStep, vars
<1> QED
  BY <1>1, <1>2, WebTypeCorrect, PTL DEF Spec

\* On the cluster numbers are below the queue's next one and no two accounts of a
\* queue have the same: an address may be used again, a number never is.
JobsNumbered ==
  \A q \in Queues : \A a \in Addresses :
    chain[q].account[a] # NoJob =>
      /\ chain[q].account[a].seq < chain[q].next
      /\ \A b \in Addresses :
           chain[q].account[b] # NoJob /\ chain[q].account[b].seq = chain[q].account[a].seq
             => a = b

LEMMA JobsNumberedInit == Init => JobsNumbered
<1> SUFFICES ASSUME Init, NEW q \in Queues, NEW a \in Addresses, NEW b \in Addresses,
                    chain[q].account[a] # NoJob
             PROVE  /\ chain[q].account[a].seq < chain[q].next
                    /\ chain[q].account[b] # NoJob
                       /\ chain[q].account[b].seq = chain[q].account[a].seq => a = b
  BY DEF JobsNumbered
<1>1. chain[q] = OldQueue
  BY DEF Init, NoQueue
<1>2. \A c \in Addresses : chain[q].account[c] # NoJob =>
        chain[q].account[c].seq = c /\ c < chain[q].next
  BY <1>1 DEF OldQueue
<1> QED
  BY <1>2

LEMMA JobsNumberedGrows ==
  ASSUME TypeOK, JobsNumbered, ClusterGrows
  PROVE  JobsNumbered'
<1> SUFFICES ASSUME NEW q \in Queues, NEW a \in Addresses, NEW b \in Addresses,
                    chain'[q].account[a] # NoJob
             PROVE  /\ chain'[q].account[a].seq < chain'[q].next
                    /\ chain'[q].account[b] # NoJob
                       /\ chain'[q].account[b].seq = chain'[q].account[a].seq => a = b
  BY DEF JobsNumbered
<1>1. /\ AccountGrows(q, a) /\ AccountGrows(q, b)
      /\ chain'[q].next >= chain[q].next
      /\ chain[q].next \in Nat /\ chain'[q].next \in Nat
  BY DEF ClusterGrows, TypeOK, ChainQueue
<1>2. \A c \in Addresses : chain[q].account[c] # NoJob =>
        chain[q].account[c].seq \in Nat /\ chain[q].account[c].seq < chain[q].next
  BY AccountType DEF JobsNumbered, Job
<1>3. chain[q].account[a] # NoJob /\ chain[q].account[b] # NoJob
        /\ chain[q].account[a].seq = chain[q].account[b].seq => a = b
  BY DEF JobsNumbered
<1> QED
  BY <1>1, <1>2, <1>3 DEF AccountGrows

\* A row is of an address within the limit and of an issued number. The account
\* that has its number, if there is one, is where the row was read, and is not
\* open when the row says finished.
RowWasTrue(r) ==
  /\ r.pubkey < FetchLimit
  /\ r.seq < chain[r.queue].next
  /\ \A a \in Addresses :
       chain[r.queue].account[a] # NoJob /\ chain[r.queue].account[a].seq = r.seq =>
         /\ a = r.pubkey
         /\ r.status = "finished" => chain[r.queue].account[a].status # "open"

NumbersDiffer(R) == \A r, t \in R : r.seq = t.seq => r = t

ListsWereTrue ==
  \A l \in ListSlots :
    /\ lists[l].end <= FetchLimit
    /\ \A r \in lists[l].rows : RowWasTrue(r) /\ r.pubkey < lists[l].at
    /\ NumbersDiffer(lists[l].rows)

RowsWereTrue ==
  (\A r \in jobs : RowWasTrue(r)) /\ NumbersDiffer(jobs) /\ JobsNumbered /\ ListsWereTrue

\* A row that was true stays so while the cluster goes on.
LEMMA RowStaysTrue ==
  ASSUME TypeOK, JobsNumbered, ClusterGrows, NEW r \in Row, RowWasTrue(r)
  PROVE  RowWasTrue(r)'
<1>1. /\ r.queue \in Queues /\ r.seq \in Nat
      /\ chain[r.queue].next \in Nat /\ chain'[r.queue].next \in Nat
      /\ chain'[r.queue].next >= chain[r.queue].next
  BY DEF Row, ClusterGrows, TypeOK, ChainQueue
<1>2. ASSUME NEW a \in Addresses,
             chain'[r.queue].account[a] # NoJob, chain'[r.queue].account[a].seq = r.seq
      PROVE  /\ a = r.pubkey
             /\ r.status = "finished" => chain'[r.queue].account[a].status # "open"
  <2>1. AccountGrows(r.queue, a)
    BY <1>1 DEF ClusterGrows
  <2>2. r.seq # chain[r.queue].next
    BY <1>1 DEF RowWasTrue
  <2> QED
    BY <1>2, <2>1, <2>2 DEF AccountGrows, RowWasTrue
<1> QED
  BY <1>1, <1>2 DEF RowWasTrue

LEMMA RowPubkey == \A r \in Row : r.pubkey \in Nat
BY DEF Row

LEMMA ListRowsType ==
  ASSUME TypeOK, NEW l \in ListSlots
  PROVE  lists[l].rows \subseteq Row /\ lists[l].at \in Nat
<1>1. lists[l] \in List
  BY DEF TypeOK
<1> QED
  BY <1>1 DEF List, NoList

\* Reading one more address keeps what holds of the rows of a list.
LEMMA ReadStaysTrue ==
  ASSUME TypeOK, OneQueue, RowsWereTrue, NEW l \in ListSlots, Reads(l),
         lists'[l].queue = lists[l].queue, lists'[l].end = lists[l].end, UNCHANGED chain
  PROVE  /\ \A r \in lists'[l].rows : RowWasTrue(r) /\ r.pubkey < lists'[l].at
         /\ NumbersDiffer(lists'[l].rows)
<1> DEFINE q == lists[l].queue
           a == lists[l].at
           old == lists[l].rows
           new == RowAt(q, a)
<1>1. /\ q \in Names /\ a \in Nat /\ a < lists[l].end /\ lists[l].end <= FetchLimit
      /\ lists'[l].at = a + 1 /\ lists'[l].rows = old \cup new
      /\ lists[l].end \in Nat
  BY DEF Reads, RowsWereTrue, ListsWereTrue, TypeOK, List, NoList
<1>2. \A r \in old : /\ RowWasTrue(r) /\ r.pubkey < a /\ r.queue = q
                     /\ r.pubkey \in Nat
  <2>1. old \subseteq Row
    BY ListRowsType
  <2>2. \A r \in old : r.pubkey \in Nat
    BY <2>1, RowPubkey
  <2>3. \A r \in old : RowWasTrue(r) /\ r.pubkey < a /\ r.queue = q
    BY DEF RowsWereTrue, ListsWereTrue, OneQueue, ListsOfOneQueue
  <2> QED
    BY <2>2, <2>3
<1>3. /\ \A r \in new :
            /\ r.queue = q /\ r.pubkey = a /\ q \in Queues /\ a \in Addresses
            /\ chain[q].account[a] # NoJob
            /\ r.seq = chain[q].account[a].seq
            /\ r.status = chain[q].account[a].status
      /\ \A r, t \in new : r = t
  BY <1>1, RowAtType
<1> HIDE DEF q, a, old, new
<1>4. ASSUME NEW r \in new PROVE RowWasTrue(r) /\ r.pubkey < a + 1
  <2>1. r.pubkey < FetchLimit /\ r.pubkey < a + 1
    BY <1>1, <1>3, <1>4
  <2>2. r.seq < chain[r.queue].next
    BY <1>3, <1>4 DEF RowsWereTrue, JobsNumbered
  <2>3. ASSUME NEW b \in Addresses,
               chain[r.queue].account[b] # NoJob, chain[r.queue].account[b].seq = r.seq
        PROVE  /\ b = r.pubkey
               /\ r.status = "finished" => chain[r.queue].account[b].status # "open"
    <3>1. /\ q \in Queues /\ a \in Addresses /\ chain[q].account[a] # NoJob
          /\ chain[q].account[b] # NoJob
          /\ chain[q].account[b].seq = chain[q].account[a].seq
      BY <1>3, <1>4, <2>3
    <3>2. b = a
      BY <3>1 DEF RowsWereTrue, JobsNumbered
    <3> QED
      BY <1>3, <1>4, <3>2
  <2> QED
    BY <2>1, <2>2, <2>3 DEF RowWasTrue
<1>5. ASSUME NEW r \in old, NEW t \in new PROVE r.seq # t.seq
  <2>1. r.queue = q /\ RowWasTrue(r) /\ r.pubkey < a /\ r.pubkey \in Nat
    BY <1>2, <1>5
  <2>2. a \in Addresses /\ chain[q].account[a] # NoJob /\ t.seq = chain[q].account[a].seq
    BY <1>3, <1>5
  <2> QED
    BY <1>1, <2>1, <2>2 DEF RowWasTrue
<1>6. NumbersDiffer(old)
  BY DEF RowsWereTrue, ListsWereTrue, old
<1>7. NumbersDiffer(old \cup new)
  BY <1>3, <1>5, <1>6 DEF NumbersDiffer
<1>8. \A r \in old \cup new : RowWasTrue(r) /\ r.pubkey < a + 1
  BY <1>1, <1>2, <1>4
<1> QED
  BY <1>1, <1>7, <1>8

LEMMA RowsWereTrueHold == Spec => []RowsWereTrue
<1>1. Init => RowsWereTrue
  BY JobsNumberedInit DEF Init, RowsWereTrue, ListsWereTrue, NumbersDiffer, NoList
<1>2. TypeOK /\ OneQueue /\ RowsWereTrue /\ [Next]_vars => RowsWereTrue'
  <2> SUFFICES ASSUME TypeOK, OneQueue, RowsWereTrue, [Next]_vars PROVE RowsWereTrue'
    OBVIOUS
  <2>0. /\ jobs \subseteq Row
        /\ \A l \in ListSlots : lists[l].rows \subseteq Row /\ lists[l].at \in Nat
        /\ \A r \in Row : r.pubkey \in Nat
    BY ListRowsType, RowPubkey DEF TypeOK
  <2>1. CASE jobs' \in {jobs, {}} /\ UNCHANGED <<chain, lists>>
    BY <2>1 DEF RowsWereTrue, RowWasTrue, ListsWereTrue, NumbersDiffer, JobsNumbered
  <2>2. ASSUME NEW k \in ListSlots, NEW c \in Closure, StartList(k, c), UNCHANGED chain
        PROVE  RowsWereTrue'
    BY <2>2, StartedList
       DEF RowsWereTrue, RowWasTrue, ListsWereTrue, NumbersDiffer, JobsNumbered
  <2>3. ASSUME NEW k \in ListSlots, ReadRow(k) \/ SkipRow(k) \/ ShowRows(k)
        PROVE  RowsWereTrue'
    <3>1. UNCHANGED chain /\ (jobs' = jobs \/ jobs' = lists[k].rows)
      BY <2>3, ReadList
    <3>2. (\A r \in jobs' : RowWasTrue(r)) /\ NumbersDiffer(jobs')
      BY <3>1 DEF RowsWereTrue, ListsWereTrue
    <3>3. ASSUME NEW l \in ListSlots
          PROVE  /\ lists'[l].end <= FetchLimit
                 /\ \A r \in lists'[l].rows : RowWasTrue(r) /\ r.pubkey < lists'[l].at
                 /\ NumbersDiffer(lists'[l].rows)
      <4>1. CASE lists'[l].rows = {} /\ lists'[l].end = 0
        BY <4>1 DEF NumbersDiffer
      <4>2. ASSUME lists'[l].queue = lists[l].queue, lists'[l].end = lists[l].end, Skips(l)
            PROVE  /\ lists'[l].end <= FetchLimit
                   /\ \A r \in lists'[l].rows : RowWasTrue(r) /\ r.pubkey < lists'[l].at
                   /\ NumbersDiffer(lists'[l].rows)
        BY <2>0, <4>2 DEF Skips, RowsWereTrue, ListsWereTrue
      <4>3. ASSUME lists'[l].queue = lists[l].queue, lists'[l].end = lists[l].end, Reads(l)
            PROVE  /\ lists'[l].end <= FetchLimit
                   /\ \A r \in lists'[l].rows : RowWasTrue(r) /\ r.pubkey < lists'[l].at
                   /\ NumbersDiffer(lists'[l].rows)
        BY <3>1, <4>3, ReadStaysTrue DEF RowsWereTrue, ListsWereTrue
      <4> QED
        BY <2>3, <4>1, <4>2, <4>3, ReadList
    <3> QED
      BY <3>1, <3>2, <3>3
         DEF RowsWereTrue, RowWasTrue, ListsWereTrue, NumbersDiffer, JobsNumbered
  <2>4. CASE ClusterGrows
    <3>1. JobsNumbered'
      BY <2>4, JobsNumberedGrows DEF RowsWereTrue
    <3>2. \A r \in Row : RowWasTrue(r) => RowWasTrue(r)'
      BY <2>4, RowStaysTrue DEF RowsWereTrue
    <3>3. UNCHANGED <<jobs, lists>>
      BY <2>4 DEF ClusterGrows
    <3>4. (\A r \in jobs : RowWasTrue(r)') /\ NumbersDiffer(jobs)
      BY <2>0, <3>2 DEF RowsWereTrue
    <3>5. \A l \in ListSlots :
            /\ lists[l].end <= FetchLimit /\ NumbersDiffer(lists[l].rows)
            /\ \A r \in lists[l].rows : RowWasTrue(r)' /\ r.pubkey < lists[l].at
      BY <2>0, <3>2 DEF RowsWereTrue, ListsWereTrue
    <3> QED
      BY <3>1, <3>3, <3>4, <3>5 DEF RowsWereTrue, ListsWereTrue, NumbersDiffer
  <2> QED
    BY <2>1, <2>2, <2>3, <2>4, RowSteps
<1> QED
  BY <1>1, <1>2, WebTypeCorrect, OneQueueHolds, PTL DEF Spec

\* Whatever overlaps, fails or comes late, and whatever becomes of the accounts
\* and their addresses meanwhile: the statistics and every row on the screen were
\* true at some time, no job is listed twice, and the rows are within the limit.
THEOREM ScreenWasTrueHolds == Spec => []ScreenWasTrue
<1>1. StatsWereTrue /\ RowsWereTrue => ScreenWasTrue
  <2> SUFFICES ASSUME StatsWereTrue, RowsWereTrue PROVE ScreenWasTrue
    OBVIOUS
  <2>1. stats # None => chain[stats.queue].exists /\ stats.next <= chain[stats.queue].next
    BY DEF StatsWereTrue, WasTrue
  <2>2. ASSUME NEW r \in jobs, r.status = "finished", NEW a \in Addresses
        PROVE  chain[r.queue].account[a] # [seq |-> r.seq, status |-> "open"]
    BY <2>2 DEF RowsWereTrue, RowWasTrue, NoJob
  <2>3. \A r \in jobs : /\ r.pubkey < FetchLimit /\ r.seq < chain[r.queue].next
                        /\ \A t \in jobs : r.seq = t.seq => r = t
    BY DEF RowsWereTrue, RowWasTrue, NumbersDiffer
  <2> QED
    BY <2>1, <2>2, <2>3 DEF ScreenWasTrue
<1> QED
  BY <1>1, StatsWereTrueHolds, RowsWereTrueHold, PTL
=============================================================================
