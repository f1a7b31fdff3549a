------------------------------ MODULE Dashboard ------------------------------
(***************************************************************************)
(* The web dashboard: a React component that shows one queue at a time.    *)
(* JavaScript runs one callback at a time, so what lies between two awaits *)
(* is one step; but any number of fetches are under way at once, each of   *)
(* them bound to the queue name and the statistics of the render in which  *)
(* it was created, and each overwrites the state when its answer arrives.  *)
(*                                                                         *)
(* fetchQueue sets the statistics, so the next render makes a new          *)
(* fetchJobs, which makes the effect run again, which calls fetchQueue:    *)
(* every answer starts the next request, and each click on Refresh or Load *)
(* Queue adds another such loop. React renders in a later task than the    *)
(* answer: others come in between, and several of them may make one render *)
(* and one run of the effect. The interval of 10 seconds only matters when *)
(* the loops have ended (queue not found, failed request).                 *)
(***************************************************************************)
EXTENDS Integers, Sequences

CONSTANTS
  Queues,       \* names of queues that may exist on the cluster
  FirstName,    \* the name shown at first, "my-queue"
  NoName,       \* the empty name
  LongName,     \* a name of more than 32 bytes, from which no address is derived
  None,         \* null
  Addresses,    \* seq arguments whose job addresses are in use
  FetchLimit,   \* addresses listed; 50 in the code
  MaxFetches,   \* bound: fetchQueue calls under way at a time
  MaxLists,     \* bound: fetchJobs calls under way at a time
  MaxJobs,      \* bound: jobs ever enqueued on a queue
  OldJobs,      \* bound: those of them enqueued before the dashboard is opened
  MaxChanges,   \* bound: steps of the cluster while the dashboard is open
  MaxDisturbed  \* bound: queues loaded by the user and requests that fail

Names == Queues \cup {NoName, LongName}

ASSUME NamesAssumption ==
  /\ FirstName \in Queues \ {NoName}
  /\ LongName \notin Queues \cup {NoName}
  /\ None \notin Names /\ None \notin Nat
ASSUME LimitsAssumption ==
  /\ Addresses \subseteq Nat /\ FetchLimit \in Nat /\ OldJobs \in Nat
  /\ MaxFetches \in Nat \ {0} /\ MaxLists \in Nat

Slots == 1..MaxFetches
ListSlots == 1..MaxLists

VARIABLES
  chain,      \* what the cluster serves: the accounts of each queue
  queueName,  \* React state: the name of the queue to show
  stats,      \* React state: the statistics, or null
  jobs,       \* React state: the rows of the table
  loading,    \* React state: the spinner
  error,      \* React state: whether an error is shown
  rendered,   \* the statistics of the last render, which fetchJobs keeps
  due,        \* whether a render with another stats object is due
  fetches,    \* the fetchQueue calls under way
  timers,     \* fetchJobs calls waiting for their 500 ms timeout, in order
  lists,      \* the fetchJobs calls under way
  changes,    \* for the bound MaxChanges
  disturbed   \* for the bound MaxDisturbed

page == <<rendered, due>>

vars == <<chain, queueName, stats, jobs, loading, error, page, fetches, timers,
          lists, changes, disturbed>>

-----------------------------------------------------------------------------
(* What the cluster serves.                                                *)

NoJob == [seq |-> 0, status |-> "none"]
Job == [seq : Nat, status : {"open", "finished"}]

\* account[a] is the job account at the address that seq argument a gives; its
\* seq field is the number the program gave the job, which need not be a.
ChainQueue ==
  [exists : BOOLEAN, next : Nat, account : [Addresses -> {NoJob} \cup Job]]

NoQueue == [exists |-> FALSE, next |-> 0, account |-> [a \in Addresses |-> NoJob]]

\* A queue as it may be when the dashboard is opened. (Bound: its first job is
\* finished, the others are open; without the bounds any queue comes about
\* while it is open.)
OldQueue ==
  [exists |-> TRUE, next |-> OldJobs,
   account |-> [a \in Addresses |->
     IF a < OldJobs
     THEN [seq |-> a, status |-> IF a = 0 THEN "finished" ELSE "open"] ELSE NoJob]]

Stats == [queue : Queues, next : Nat]

\* An answer to getAccountInfo for the address of a queue.
QueueInfo(q) == IF chain[q].exists THEN [queue |-> q, next |-> chain[q].next] ELSE None

Row == [queue : Queues, pubkey : Addresses, seq : Nat, status : {"open", "finished"}]

\* The row that is read at an address, if there is an account: its number is
\* the one stored in the account.
MutRowAt(q, a) ==
  IF q \in Queues /\ a \in Addresses
  THEN {[queue |-> q, pubkey |-> a,
         seq |-> chain[q].account[a].seq, status |-> chain[q].account[a].status]}
  ELSE {}
RowAt(q, a) ==
  IF q \in Queues /\ a \in Addresses /\ chain[q].account[a] # NoJob
  THEN {[queue |-> q, pubkey |-> a,
         seq |-> chain[q].account[a].seq, status |-> chain[q].account[a].status]}
  ELSE {}

-----------------------------------------------------------------------------
(* Calls under way. A call is a closure: it keeps the name and the number  *)
(* of jobs it was created with.                                            *)

NoFetch == [queue |-> None, served |-> FALSE, answer |-> None]
Awaiting(q) == [queue |-> q, served |-> FALSE, answer |-> None]
Fetch == {NoFetch} \cup [queue : Queues, served : BOOLEAN, answer : {None} \cup Stats]

Closure == [queue : Names, next : Nat]

NoList == [queue |-> None, end |-> 0, at |-> 0, rows |-> {}]
List == {NoList} \cup [queue : Names, end : Nat, at : Nat, rows : SUBSET Row]

MutListed(next) == next
Listed(next) == IF next < FetchLimit THEN next ELSE FetchLimit

FreeSlot(f) == fetches[f] = NoFetch
FreeList(l) == lists[l] = NoList

\* A call takes the first slot that is free.
FirstFree(f) == FreeSlot(f) /\ \A g \in Slots : g < f => ~FreeSlot(g)
FirstFreeList(l) == FreeList(l) /\ \A k \in ListSlots : k < l => ~FreeList(k)

\* fetchQueue, up to its await. It does nothing for the empty name; for a name
\* that is too long there is no address: the catch branch, without a request.
StartFetch(f, q) ==
  \/ q = NoName /\ UNCHANGED <<loading, error, fetches>>
  \/ q = LongName /\ loading' = FALSE /\ error' = TRUE /\ UNCHANGED fetches
  \/ /\ q \notin {NoName, LongName}
     /\ loading' = TRUE /\ error' = FALSE
     /\ fetches' = [fetches EXCEPT ![f] = Awaiting(q)]

\* The effect, with the name and the statistics of the render it belongs to.
\* Timers are never cleared. (Two equal ones that are pending together count as
\* one.)
MutEffect(f, q, st) == StartFetch(f, q) /\ UNCHANGED timers
Effect(f, q, st) ==
  /\ StartFetch(f, q)
  /\ \/ st = None /\ UNCHANGED timers
     \/ /\ st # None
        /\ LET c == [queue |-> q, next |-> st.next] IN
           timers' = IF \E i \in DOMAIN timers : timers[i] = c
                     THEN timers ELSE Append(timers, c)

\* fetchJobs, up to its first await. Without jobs to fetch it is done at once,
\* and so it is for a name that is too long: every address throws, and is skipped.
StartList(l, c) ==
  IF Listed(c.next) = 0 \/ c.queue = LongName
  THEN jobs' = {} /\ UNCHANGED lists
  ELSE /\ lists' = [lists EXCEPT ![l] =
            [queue |-> c.queue, end |-> Listed(c.next), at |-> 0, rows |-> {}]]
       /\ UNCHANGED jobs

\* How often the first render has run the effect: in development builds
\* StrictMode runs it twice.
FirstEffects == {1, 2}

Init ==
  /\ chain \in [Queues -> {NoQueue, OldQueue}]
  /\ changes = 0
  /\ queueName = FirstName
  /\ stats = None /\ jobs = {} /\ loading = TRUE /\ error = FALSE
  /\ rendered = None /\ due = FALSE
  /\ \E n \in FirstEffects :
       fetches = [f \in Slots |-> IF f <= n THEN Awaiting(queueName) ELSE NoFetch]
  /\ timers = <<>>
  /\ lists = [l \in ListSlots |-> NoList]
  /\ disturbed = 0

-----------------------------------------------------------------------------
(* fetchQueue.                                                             *)

\* The cluster reads the account; the answer is on its way.
Serve(f) ==
  /\ ~FreeSlot(f) /\ ~fetches[f].served
  /\ fetches' = [fetches EXCEPT
       ![f] = [@ EXCEPT !.served = TRUE, !.answer = QueueInfo(fetches[f].queue)]]
  /\ UNCHANGED <<chain, changes, queueName, stats, jobs, loading, error, page, timers, lists, disturbed>>

Answered(f) == fetches[f].served

\* The statistics are a new object even when they say the same.
ArriveFound(f) ==
  /\ Answered(f) /\ fetches[f].answer # None
  /\ stats' = fetches[f].answer /\ due' = TRUE
  /\ loading' = FALSE /\ error' = FALSE
  /\ fetches' = [fetches EXCEPT ![f] = NoFetch]
  /\ UNCHANGED <<chain, changes, queueName, jobs, rendered, timers, lists, disturbed>>

\* No such queue: an early return, but the finally block is run.
MutArriveMissing(f) ==
  /\ Answered(f) /\ fetches[f].answer = None
  /\ stats' = None /\ due' = (rendered # None) /\ jobs' = {}
  /\ error' = TRUE
  /\ fetches' = [fetches EXCEPT ![f] = NoFetch]
  /\ UNCHANGED <<chain, changes, queueName, loading, rendered, timers, lists, disturbed>>
ArriveMissing(f) ==
  /\ Answered(f) /\ fetches[f].answer = None
  /\ stats' = None /\ due' = (rendered # None) /\ jobs' = {}
  /\ loading' = FALSE /\ error' = TRUE
  /\ fetches' = [fetches EXCEPT ![f] = NoFetch]
  /\ UNCHANGED <<chain, changes, queueName, rendered, timers, lists, disturbed>>

\* The request fails: the catch branch.
FetchFails(f) ==
  /\ ~FreeSlot(f) /\ disturbed < MaxDisturbed
  /\ fetches' = [fetches EXCEPT ![f] = NoFetch]
  /\ loading' = FALSE /\ error' = TRUE
  /\ disturbed' = disturbed + 1
  /\ UNCHANGED <<chain, changes, queueName, stats, jobs, page, timers, lists>>

-----------------------------------------------------------------------------
(* The render of new statistics makes a new fetchJobs and runs the effect, *)
(* which replaces the interval. (React runs the effect a task later, but   *)
(* before the next render: an answer between the two is like one after     *)
(* both, since the effect it makes due sets spinner and error once more.)  *)

RunEffect(f) ==
  /\ due /\ FirstFree(f)
  /\ rendered' = stats /\ due' = FALSE
  /\ Effect(f, queueName, stats)
  /\ UNCHANGED <<chain, changes, queueName, stats, jobs, lists, disturbed>>

-----------------------------------------------------------------------------
(* fetchJobs: the accounts are read one by one, each with an await.        *)

TimerFires(l) ==
  /\ timers # <<>> /\ FirstFreeList(l)
  /\ StartList(l, Head(timers))
  /\ timers' = Tail(timers)
  /\ UNCHANGED <<chain, changes, queueName, stats, loading, error, page, fetches, disturbed>>

\* The queue whose jobs a call reads: the name it was created with.
MutListQueue(l) == queueName
ListQueue(l) == lists[l].queue

ReadRow(l) ==
  /\ ~FreeList(l) /\ lists[l].at < lists[l].end
  /\ lists' = [lists EXCEPT
       ![l].at = @ + 1, ![l].rows = @ \cup RowAt(ListQueue(l), lists[l].at)]
  /\ UNCHANGED <<chain, changes, queueName, stats, jobs, loading, error, page, fetches, timers, disturbed>>

\* A request that fails, or bytes that cannot be parsed: the job is skipped.
SkipRow(l) ==
  /\ ~FreeList(l) /\ lists[l].at < lists[l].end
  /\ disturbed < MaxDisturbed
  /\ lists' = [lists EXCEPT ![l].at = @ + 1]
  /\ disturbed' = disturbed + 1
  /\ UNCHANGED <<chain, changes, queueName, stats, jobs, loading, error, page, fetches, timers>>

\* The last answer arrives and the table is replaced, whatever it shows.
ShowRows(l) ==
  /\ ~FreeList(l) /\ lists[l].at = lists[l].end
  /\ jobs' = lists[l].rows
  /\ lists' = [lists EXCEPT ![l] = NoList]
  /\ UNCHANGED <<chain, changes, queueName, stats, loading, error, page, fetches, timers, disturbed>>

-----------------------------------------------------------------------------
(* The interval and the user.                                              *)

\* Both fetches at once, with the name and the statistics of the last render.
\* Every effect starts the interval anew, so that the timers set before, of half
\* a second, have fired when its 10 seconds are over.
Interval(f, l) ==
  /\ timers = <<>> /\ FirstFree(f) /\ FirstFreeList(l)
  /\ StartFetch(f, queueName)
  /\ IF rendered = None THEN UNCHANGED <<jobs, lists>>
     ELSE StartList(l, [queue |-> queueName, next |-> rendered.next])
  /\ UNCHANGED <<chain, changes, queueName, stats, page, timers, disturbed>>

\* The button is disabled while loading.
Refresh(f) ==
  /\ ~loading /\ FirstFree(f)
  /\ StartFetch(f, queueName)
  /\ UNCHANGED <<chain, changes, queueName, stats, jobs, page, timers, lists, disturbed>>

\* Load Queue: a click, so React renders the name and runs the effect at once,
\* without the statistics of a render that is due. Statistics and rows of the
\* previous queue stay until answers replace them.
LoadQueue(f, q) ==
  /\ q # queueName /\ disturbed < MaxDisturbed /\ FirstFree(f)
  /\ queueName' = q
  /\ Effect(f, q, rendered)
  /\ disturbed' = disturbed + 1
  /\ UNCHANGED <<chain, changes, stats, jobs, page, lists>>

-----------------------------------------------------------------------------
(* The cluster goes on.                                                    *)

ClusterStep(q, c) ==
  /\ changes < MaxChanges
  /\ chain' = [chain EXCEPT ![q] = c]
  /\ changes' = changes + 1
  /\ UNCHANGED <<queueName, stats, jobs, loading, error, page, fetches, timers, lists, disturbed>>

Create(q) ==
  ~chain[q].exists /\ ClusterStep(q, [chain[q] EXCEPT !.exists = TRUE])

\* Any free address is accepted, one whose account was closed included.
Enqueue(q, a) ==
  LET n == chain[q].next IN
  /\ chain[q].exists /\ n < MaxJobs /\ chain[q].account[a] = NoJob
  /\ ClusterStep(q, [chain[q] EXCEPT
       !.next = n + 1, !.account[a] = [seq |-> n, status |-> "open"]])

Finish(q, a) ==
  /\ chain[q].account[a].status = "open"
  /\ ClusterStep(q, [chain[q] EXCEPT !.account[a].status = "finished"])

Close(q, a) ==
  /\ chain[q].account[a].status = "finished"
  /\ ClusterStep(q, [chain[q] EXCEPT !.account[a] = NoJob])

Next ==
  \/ \E f \in Slots :
       \/ Serve(f) \/ ArriveFound(f) \/ ArriveMissing(f) \/ FetchFails(f)
       \/ RunEffect(f) \/ Refresh(f)
       \/ \E q \in Names : LoadQueue(f, q)
       \/ \E l \in ListSlots : Interval(f, l)
  \/ \E l \in ListSlots : TimerFires(l) \/ ReadRow(l) \/ SkipRow(l) \/ ShowRows(l)
  \/ \E q \in Queues : Create(q) \/ \E a \in Addresses : Enqueue(q, a) \/ Finish(q, a) \/ Close(q, a)

\* Every request is answered or fails, and due callbacks run. Renders and
\* timers wait only for the bounds on calls, and the interval only for these
\* and the timers: hence strong fairness for renders and timers.
Fairness ==
  /\ \A f \in Slots : WF_vars(Serve(f)) /\ WF_vars(ArriveFound(f) \/ ArriveMissing(f))
  /\ SF_vars(\E f \in Slots : RunEffect(f))
  /\ \A l \in ListSlots : WF_vars(ReadRow(l) \/ ShowRows(l))
  /\ SF_vars(\E l \in ListSlots : TimerFires(l))
  /\ WF_vars(\E f \in Slots, l \in ListSlots : Interval(f, l))

Spec == Init /\ [][Next]_vars /\ Fairness

-----------------------------------------------------------------------------
TypeOK ==
  /\ chain \in [Queues -> ChainQueue]
  /\ queueName \in Names
  /\ stats \in {None} \cup Stats
  /\ jobs \subseteq Row
  /\ loading \in BOOLEAN /\ error \in BOOLEAN
  /\ rendered \in {None} \cup Stats /\ due \in BOOLEAN
  /\ fetches \in [Slots -> Fetch]
  /\ timers \in Seq(Closure)
  /\ lists \in [ListSlots -> List]

\* The spinner turns, and keeps Refresh disabled, only while a fetchQueue call
\* is under way, for all overlapping calls, failures, missing queues, names
\* without an address and early returns. (Calls may follow each other without
\* end: that it is off again and again is RefreshAgain.)
SpinnerStops == loading => \E f \in Slots : ~FreeSlot(f)

\* Every answer turns the spinner off: no missing queue, early return, switch of
\* queues or overlap of calls leaves it turning for good, although effects
\* and the interval turn it on again without end.
RefreshAgain == []<>~loading

\* The table never mixes the jobs of two queues, although the user can load
\* another queue between the reads of two rows: a call keeps its name.
RowsOfOneQueue == \A r, t \in jobs : r.queue = t.queue

\* However late the answers and in whatever order, what the screen shows was
\* true at some time. The statistics are of a queue that exists and do not
\* count more jobs than it has now. Every row is of an issued number, and a job
\* shown as finished has not yet to run, under its number at any address:
\* its own address may have been closed and be another job's by now. No job
\* is listed twice, and none from an address beyond the limit.
ScreenWasTrue ==
  /\ stats # None =>
       chain[stats.queue].exists /\ stats.next <= chain[stats.queue].next
  /\ \A r \in jobs :
       /\ r.pubkey < FetchLimit
       /\ r.seq < chain[r.queue].next
       /\ r.status = "finished" =>
            \A a \in Addresses :
              chain[r.queue].account[a] # [seq |-> r.seq, status |-> "open"]
       /\ \A t \in jobs : r.seq = t.seq => r = t

\* What the screen shows agrees with the cluster.
UpToDate ==
  IF chain[queueName].exists
  THEN /\ stats = QueueInfo(queueName)
       /\ jobs = UNION {RowAt(queueName, a) : a \in 0..(Listed(stats.next) - 1)}
       /\ ~error
  ELSE stats = None

\* Once the user and the cluster are quiet, the screen becomes and stays right:
\* overlapping calls whose answers come in any order, answers and timers of a
\* queue that is no longer shown, and failed requests are all made good by later
\* fetches. For a name that is too long the error stays, over the previous
\* queue's statistics and an empty table. The empty name leaves the previous
\* queue on the screen, and nothing is claimed of it.
Settles ==
  <>[](/\ queueName \in Queues \ {NoName} => UpToDate
       /\ queueName = LongName => error /\ (stats = None \/ jobs = {}))
=============================================================================
