------------------------- MODULE SolQueueClientsProofs -------------------------
(***************************************************************************)
(* Proofs about the program together with its command-line users, for any  *)
(* number of keys, processes and transactions under way. The processes     *)
(* take no step the program does not allow (ClientsUseTheProgram), so all  *)
(* that is proved of Spec holds of CSpec too and is used below.            *)
(***************************************************************************)
EXTENDS SolQueueClients, SolQueueProofs

-----------------------------------------------------------------------------
(* Types of processes and transactions.                                    *)

\* The transactions the CLI builds: each command fills in what it needs.
WellFormed(tx) ==
  /\ tx \in Transaction
  /\ tx.cmd = "worker-register" => tx.worker \in Keys
  /\ tx.cmd \in {"enqueue", "claim", "complete", "fail"} => tx.seq \in SeqArgs

HistoryOK ==
  /\ claims \in [SeqArgs -> Nat]
  /\ reported \in [SeqArgs -> SUBSET Nat]

\* What ClientsTypeOK says of the processes, strengthened to well-formed
\* transactions: without that a step of a process need not be one of Next.
ProcessesOK ==
  /\ cli = [k \in Keys |-> cli[k]]
  /\ late = [i \in LateSlots |-> late[i]]
  /\ \A k \in Keys : cli[k] = NoTx \/ WellFormed(cli[k])
  /\ \A i \in LateSlots : late[i] = NoTx \/ WellFormed(late[i])
  /\ HistoryOK

\* Whoever waits, waits for a transaction in flight, and that is well formed.
LEMMA InFlightWellFormed ==
  ASSUME ProcessesOK
  PROVE  /\ \A tx \in InFlight : WellFormed(tx)
         /\ \A k \in Keys : cli[k] \in InFlight \cup {NoTx}
         /\ \A i \in LateSlots : late[i] \in InFlight \cup {NoTx}
BY DEF ProcessesOK, InFlight

LEMMA TxWellFormed ==
  ASSUME TypeOK, ProcessesOK, NEW k \in Keys, NEW cmd \in Commands,
         NEW s \in SeqArgs \cup {None}, NEW w \in Keys \cup {None},
         cmd = "worker-register" => w \in Keys,
         cmd \in {"enqueue", "claim", "complete", "fail"} => s \in SeqArgs
  PROVE  WellFormed(Tx(k, cmd, s, w))
<1> DEFINE timely == Tracked /\ cmd \in Reports /\ HeldBy(s, k)
           c == IF timely THEN claims[s] ELSE None
           b == IF timely THEN job[s].started_at ELSE None
<1>1. timely => s \in SeqArgs
  BY DEF Reports
<1>2. c \in Nat \cup {None}
  BY <1>1 DEF ProcessesOK, HistoryOK
<1>3. b \in Nat \cup {None}
  BY <1>1 DEF TypeOK, Job
<1>4. Tx(k, cmd, s, w) =
        [cmd |-> cmd, signer |-> k, seq |-> s, worker |-> w, claim |-> c, since |-> b]
  BY DEF Tx
<1> HIDE DEF timely, c, b
<1> QED
  BY <1>2, <1>3, <1>4 DEF WellFormed, Transaction

\* A process, and a place for a late transaction, hold nothing but what was in
\* flight before or is sent in this step.
LEMMA Moves ==
  ASSUME ProcessesOK, NEW fresh, \A tx \in fresh : WellFormed(tx),
         cli' = [k \in Keys |-> cli'[k]], late' = [i \in LateSlots |-> late'[i]],
         \A k \in Keys : cli'[k] \in InFlight \cup fresh \cup {NoTx},
         \A i \in LateSlots : late'[i] \in InFlight \cup fresh \cup {NoTx},
         HistoryOK'
  PROVE  ProcessesOK' /\ InFlight' \subseteq InFlight \cup fresh
<1>1. InFlight' \subseteq InFlight \cup fresh
  BY DEF InFlight
<1>2. \A tx \in InFlight : WellFormed(tx)
  BY InFlightWellFormed
<1>3. /\ \A k \in Keys : cli'[k] = NoTx \/ WellFormed(cli'[k])
      /\ \A i \in LateSlots : late'[i] = NoTx \/ WellFormed(late'[i])
  BY <1>2
<1>4. ProcessesOK'
  BY <1>3 DEF ProcessesOK, WellFormed, Transaction, Commands, Reports, NoTx, LateSlots
<1> QED
  BY <1>1, <1>4

\* A process starts with one new transaction, and that is all it does.
LEMMA StartStep ==
  ASSUME ProcessesOK, NEW k \in Keys, NEW tx, WellFormed(tx), Start(k, tx)
  PROVE  /\ ProcessesOK'
         /\ UNCHANGED vars /\ UNCHANGED history
         /\ InFlight' \subseteq InFlight \cup {tx}
<1>1. /\ cli' = [cli EXCEPT ![k] = tx]
      /\ late' = late /\ UNCHANGED vars /\ UNCHANGED history
  BY DEF Start
<1>2. HistoryOK'
  BY <1>1 DEF ProcessesOK, HistoryOK, history
<1>3. /\ cli' = [l \in Keys |-> cli'[l]]
      /\ late' = [i \in LateSlots |-> late'[i]]
      /\ \A l \in Keys : cli'[l] = tx \/ cli'[l] = cli[l]
  BY <1>1 DEF ProcessesOK, LateSlots
<1>4. /\ \A l \in Keys : cli'[l] \in InFlight \cup {tx} \cup {NoTx}
      /\ \A i \in LateSlots : late'[i] \in InFlight \cup {tx} \cup {NoTx}
  BY <1>1, <1>3, InFlightWellFormed
<1>5. \A t \in {tx} : WellFormed(t)
  OBVIOUS
<1> QED
  BY <1>1, <1>2, <1>3, <1>4, <1>5, Moves

\* Every other change of a process or of the late transactions keeps the
\* transactions in flight among those of before.
LEMMA NoNewTransaction ==
  ASSUME ProcessesOK, HistoryOK',
         cli' = cli \/ \E k \in Keys : cli' = [cli EXCEPT ![k] = NoTx],
         \/ late' = late
         \/ \E i \in LateSlots, tx \in InFlight \cup {NoTx} : late' = [late EXCEPT ![i] = tx]
  PROVE  ProcessesOK' /\ InFlight' \subseteq InFlight
<1>1. /\ cli' = [l \in Keys |-> cli'[l]]
      /\ \A l \in Keys : cli'[l] = NoTx \/ cli'[l] = cli[l]
  BY DEF ProcessesOK
<1>2. /\ late' = [i \in LateSlots |-> late'[i]]
      /\ \A i \in LateSlots : late'[i] = late[i] \/ late'[i] \in InFlight \cup {NoTx}
  BY DEF ProcessesOK, LateSlots
<1> DEFINE none == {}
<1>3. /\ \A l \in Keys : cli'[l] \in InFlight \cup none \cup {NoTx}
      /\ \A i \in LateSlots : late'[i] \in InFlight \cup none \cup {NoTx}
  BY <1>1, <1>2, InFlightWellFormed
<1>4. InFlight \cup none = InFlight /\ \A tx \in none : WellFormed(tx)
  OBVIOUS
<1> HIDE DEF none
<1>5. ProcessesOK' /\ InFlight' \subseteq InFlight \cup none
  BY <1>1, <1>2, <1>3, <1>4, Moves
<1> QED
  BY <1>4, <1>5

LEMMA NothingMoved ==
  ASSUME ProcessesOK, cli' = cli, late' = late, UNCHANGED history
  PROVE  ProcessesOK' /\ InFlight' = InFlight
<1>1. InFlight' = InFlight
  BY DEF InFlight, LateSlots
<1>2. HistoryOK'
  BY DEF ProcessesOK, HistoryOK, history
<1> QED
  BY <1>1, <1>2, NoNewTransaction

\* The history numbers the claims and only ever grows.
LEMMA RecordedStep ==
  ASSUME HistoryOK, NEW tx, WellFormed(tx), Recorded(tx)
  PROVE  /\ HistoryOK'
         /\ \A s \in SeqArgs : reported[s] \subseteq reported'[s]
         /\ \A s \in SeqArgs : tx.cmd # "claim" \/ tx.seq # s => claims'[s] = claims[s]
         /\ Tracked /\ tx.cmd \in Reports => claims[tx.seq] \in reported'[tx.seq]
<1>1. tx.cmd = "claim" \/ tx.cmd \in Reports => tx.seq \in SeqArgs
  BY DEF WellFormed, Reports
<1>2. /\ claims' \in [SeqArgs -> Nat]
      /\ \A s \in SeqArgs : tx.cmd # "claim" \/ tx.seq # s => claims'[s] = claims[s]
  BY <1>1 DEF HistoryOK, Recorded
<1>3. /\ reported' \in [SeqArgs -> SUBSET Nat]
      /\ \A s \in SeqArgs : reported[s] \subseteq reported'[s]
      /\ Tracked /\ tx.cmd \in Reports => claims[tx.seq] \in reported'[tx.seq]
  BY <1>1 DEF HistoryOK, Recorded
<1> QED
  BY <1>2, <1>3 DEF HistoryOK

\* What executing a transaction does is an instruction of the program, and
\* its arguments are those the transaction carries.
LEMMA ApplyIsNext ==
  ASSUME NEW tx, WellFormed(tx), Apply(tx)
  PROVE  Next
<1>1. tx.signer \in Keys
  BY DEF WellFormed, Transaction
<1>2. CASE tx.cmd = "init"
  BY <1>1, <1>2 DEF Apply, Next
<1>3. CASE tx.cmd = "worker-register"
  BY <1>1, <1>3 DEF Apply, Next, WellFormed
<1>4. CASE tx.cmd = "enqueue"
  BY <1>1, <1>4, NoOverrideAssumption DEF Apply, Next, WellFormed
<1>5. CASE tx.cmd = "claim"
  BY <1>1, <1>5 DEF Apply, Next, WellFormed
<1>6. CASE tx.cmd = "complete"
  BY <1>1, <1>6 DEF Apply, Next, WellFormed
<1>7. CASE tx.cmd = "fail"
  BY <1>1, <1>7 DEF Apply, Next, WellFormed
<1> QED
  BY <1>2, <1>3, <1>4, <1>5, <1>6, <1>7 DEF Apply

\* The new transaction of a command that is being run: what the properties
\* below need to know of it.
Sent(k, tx) ==
  /\ WellFormed(tx)
  /\ tx.cmd = "enqueue" => tx.seq = queue.next_job_seq
  /\ \E cmd, s, w : tx = Tx(k, cmd, s, w)

\* The three kinds of step: a command is run; a transaction in flight is
\* executed; or neither, and the program is left alone or used by others.
LEMMA ClientStep ==
  ASSUME TypeOK, ProcessesOK, CNext
  PROVE  /\ ProcessesOK'
         /\ \/ /\ UNCHANGED vars /\ UNCHANGED history
               /\ \E k \in Keys : \E tx : Sent(k, tx) /\ InFlight' \subseteq InFlight \cup {tx}
            \/ /\ UNCHANGED vars /\ UNCHANGED history
               /\ InFlight' \subseteq InFlight
            \/ /\ \E tx \in InFlight : Apply(tx) /\ Recorded(tx)
               /\ InFlight' \subseteq InFlight
            \/ OtherTools /\ InFlight' = InFlight
<1> DEFINE Goal ==
      /\ ProcessesOK'
      /\ \/ /\ UNCHANGED vars /\ UNCHANGED history
            /\ \E k \in Keys : \E tx : Sent(k, tx) /\ InFlight' \subseteq InFlight \cup {tx}
         \/ /\ UNCHANGED vars /\ UNCHANGED history
            /\ InFlight' \subseteq InFlight
         \/ /\ \E tx \in InFlight : Apply(tx) /\ Recorded(tx)
            /\ InFlight' \subseteq InFlight
         \/ OtherTools /\ InFlight' = InFlight
<1>1. ASSUME NEW k \in Keys, NEW tx, Sent(k, tx), Start(k, tx)
      PROVE  Goal
  BY <1>1, StartStep DEF Sent
<1>2. ASSUME NEW k \in Keys, RunInit(k) PROVE Goal
  <2>1. WellFormed(Tx(k, "init", None, None)) /\ Tx(k, "init", None, None).cmd = "init"
    BY TxWellFormed DEF Commands, Tx
  <2> QED
    BY <1>1, <1>2, <2>1 DEF RunInit, Sent
<1>3. ASSUME NEW k \in Keys, NEW w \in Keys, RunWorkerRegister(k, w) PROVE Goal
  <2> DEFINE tx == Tx(k, "worker-register", None, w)
  <2>1. WellFormed(tx) /\ tx.cmd = "worker-register"
    BY TxWellFormed DEF Commands, Tx
  <2>2. Sent(k, tx)
    BY <2>1 DEF Sent
  <2> QED
    BY <1>1, <1>3, <2>2 DEF RunWorkerRegister
<1>4. ASSUME NEW k \in Keys, RunEnqueue(k) PROVE Goal
  <2> DEFINE tx == Tx(k, "enqueue", queue.next_job_seq, None)
  <2>1. WellFormed(tx) /\ tx.seq = queue.next_job_seq
    BY <1>4, TxWellFormed DEF Commands, Tx, RunEnqueue, FetchedSeq
  <2>2. Sent(k, tx)
    BY <2>1 DEF Sent
  <2> QED
    BY <1>1, <1>4, <2>2 DEF RunEnqueue, FetchedSeq
<1>5. ASSUME NEW k \in Keys, NEW s \in SeqArgs, NEW cmd \in {"claim", "complete", "fail"},
             Start(k, Tx(k, cmd, s, None))
      PROVE  Goal
  <2> DEFINE tx == Tx(k, cmd, s, None)
  <2>1. WellFormed(tx) /\ tx.cmd = cmd
    BY TxWellFormed DEF Commands, Reports, Tx
  <2>2. Sent(k, tx)
    BY <2>1 DEF Sent
  <2> QED
    BY <1>1, <1>5, <2>2
<1>6. HistoryOK /\ (UNCHANGED history => HistoryOK')
  BY DEF ProcessesOK, HistoryOK, history
<1>7. ASSUME NEW k \in Keys, Land(k) PROVE Goal
  <2>1. cli[k] \in InFlight /\ WellFormed(cli[k])
    BY <1>7, InFlightWellFormed DEF Land
  <2>2. HistoryOK'
    BY <1>6, <1>7, <2>1, RecordedStep DEF Land
  <2>3. ProcessesOK' /\ InFlight' \subseteq InFlight
    BY <1>7, <2>2, NoNewTransaction DEF Land
  <2> QED
    BY <1>7, <2>1, <2>3 DEF Land
<1>8. ASSUME NEW k \in Keys, Reject(k) PROVE Goal
  BY <1>6, <1>8, NoNewTransaction DEF Reject
<1>9. ASSUME NEW k \in Keys, GiveUp(k) PROVE Goal
  <2>1. cli[k] \in InFlight \cup {NoTx}
    BY InFlightWellFormed
  <2>2. /\ cli' = [cli EXCEPT ![k] = NoTx]
        /\ \E i \in LateSlots : late' = [late EXCEPT ![i] = cli[k]]
        /\ UNCHANGED vars /\ UNCHANGED history
    BY <1>9 DEF GiveUp
  <2> QED
    BY <1>6, <2>1, <2>2, NoNewTransaction
<1>10. ASSUME NEW i \in LateSlots, LandLate(i) PROVE Goal
  <2>1. late[i] \in InFlight /\ WellFormed(late[i])
    BY <1>10, InFlightWellFormed DEF LandLate
  <2>2. HistoryOK'
    BY <1>6, <1>10, <2>1, RecordedStep DEF LandLate
  <2>3. ProcessesOK' /\ InFlight' \subseteq InFlight
    BY <1>10, <2>2, NoNewTransaction DEF LandLate
  <2> QED
    BY <1>10, <2>1, <2>3 DEF LandLate
<1>11. ASSUME NEW i \in LateSlots, RejectLate(i) PROVE Goal
  BY <1>6, <1>11, NoNewTransaction DEF RejectLate
<1>12. ASSUME OtherTools PROVE Goal
  <2>1. cli' = cli /\ late' = late /\ UNCHANGED history
    BY <1>12 DEF OtherTools
  <2>2. ProcessesOK' /\ InFlight' = InFlight
    BY <2>1, NothingMoved
  <2> QED
    BY <1>12, <2>2
<1>13. Admins \subseteq Keys /\ Producers \subseteq Keys /\ Workers \subseteq Keys
  BY RolesAssumption
<1> HIDE DEF Goal
<1>14. Goal
  <2>1. ASSUME NEW k \in Workers, NEW s \in SeqArgs,
               RunClaim(k, s) \/ RunComplete(k, s) \/ RunFail(k, s)
        PROVE  Goal
    BY <1>5, <1>13, <2>1 DEF RunClaim, RunComplete, RunFail
  <2>2. ASSUME NEW k \in Keys, Land(k) \/ Reject(k) \/ GiveUp(k)
        PROVE  Goal
    BY <1>7, <1>8, <1>9, <2>2
  <2>3. ASSUME NEW k \in Admins, RunInit(k) \/ \E w \in Keys : RunWorkerRegister(k, w)
        PROVE  Goal
    BY <1>2, <1>3, <1>13, <2>3
  <2>4. ASSUME NEW k \in Producers, RunEnqueue(k) PROVE Goal
    BY <1>4, <1>13, <2>4
  <2>5. ASSUME NEW i \in LateSlots, LandLate(i) \/ RejectLate(i) PROVE Goal
    BY <1>10, <1>11, <2>5
  <2> QED
    BY <1>12, <2>1, <2>2, <2>3, <2>4, <2>5 DEF CNext
<1> QED
  BY <1>14 DEF Goal


-----------------------------------------------------------------------------
(* The processes use the program.                                          *)

LEMMA OtherToolsIsNext == OtherTools => Next
BY DEF OtherTools, Next

LEMMA InitProcessesOK == CInit => TypeOK /\ ProcessesOK /\ InFlight = {}
<1> SUFFICES ASSUME CInit PROVE TypeOK /\ ProcessesOK /\ InFlight = {}
  OBVIOUS
<1>1. TypeOK
  BY InitTypeOK DEF CInit
<1>2. InFlight = {}
  BY DEF CInit, InFlight
<1>3. HistoryOK
  BY DEF CInit, HistoryOK
<1>4. /\ cli = [k \in Keys |-> cli[k]] /\ late = [i \in LateSlots |-> late[i]]
      /\ \A k \in Keys : cli[k] = NoTx
      /\ \A i \in LateSlots : late[i] = NoTx
  BY DEF CInit
<1> QED
  BY <1>1, <1>2, <1>3, <1>4 DEF ProcessesOK

LEMMA CNextProcessesOK ==
  TypeOK /\ ProcessesOK /\ [CNext]_cvars => TypeOK' /\ ProcessesOK' /\ [Next]_vars
<1> SUFFICES ASSUME TypeOK, ProcessesOK, [CNext]_cvars
             PROVE  ProcessesOK' /\ [Next]_vars
  BY NextTypeOK
<1>1. CASE CNext
  <2>1. [Next]_vars
    BY <1>1, ClientStep, InFlightWellFormed, ApplyIsNext, OtherToolsIsNext
  <2> QED
    BY <1>1, <2>1, ClientStep
<1>2. CASE UNCHANGED cvars
  BY <1>2, NothingMoved DEF cvars, vars, history
<1> QED
  BY <1>1, <1>2

LEMMA ProcessesTyped == CSpec => [](TypeOK /\ ProcessesOK)
<1>1. CInit => TypeOK /\ ProcessesOK
  BY InitProcessesOK
<1>2. TypeOK /\ ProcessesOK /\ [CNext]_cvars => (TypeOK /\ ProcessesOK)'
  BY CNextProcessesOK
<1> QED
  BY <1>1, <1>2, PTL DEF CSpec

\* Whatever the processes and the network do, the program sees nothing but
\* its own instructions: every theorem about Spec is one about CSpec.
THEOREM ClientsUseTheProgram == CSpec => Spec
<1>1. CInit => Init
  BY DEF CInit
<1>2. TypeOK /\ ProcessesOK /\ [CNext]_cvars => [Next]_vars
  BY CNextProcessesOK
<1> QED
  BY <1>1, <1>2, ProcessesTyped, PTL DEF CSpec, Spec

\* Processes and late transactions keep their types beside the program's accounts.
THEOREM ClientsTypeCorrect == CSpec => []ClientsTypeOK
<1>1. TypeOK /\ ProcessesOK => ClientsTypeOK
  BY DEF ProcessesOK, HistoryOK, WellFormed, ClientsTypeOK
<1> QED
  BY <1>1, ProcessesTyped, PTL

-----------------------------------------------------------------------------
(* Addresses and numbers.                                                  *)

\* A step that issues no number, creates no account and renumbers none.
Quiet ==
  /\ queue'.next_job_seq = queue.next_job_seq
  /\ queue'.total_enqueued = queue.total_enqueued
  /\ \A s \in SeqArgs : Live(s)' => Live(s) /\ job'[s].seq = job[s].seq

\* The instructions other than enqueue_job.
OtherInstruction ==
  \/ \E k \in Keys, r \in MaxRetriesArgs, t \in Timeouts : InitializeQueue(k, r, t)
  \/ \E k \in Keys, p \in BOOLEAN : SetQueuePaused(k, p)
  \/ \E k, w \in Keys : RegisterWorker(k, w)
  \/ \E k, w \in Keys : DeactivateWorker(k, w)
  \/ \E k \in Keys, s \in SeqArgs : ClaimJob(k, s) \/ CompleteJob(k, s) \/ FailJob(k, s)
  \/ \E s \in SeqArgs : ExpireJob(s)
  \/ \E k \in Keys, s \in SeqArgs : CloseJob(k, s)
  \/ Tick

LEMMA OtherInstructionQuiet ==
  ASSUME TypeOK, OpenJobsCounted, NothingIssued, OtherInstruction
  PROVE  Quiet
<1>1. ASSUME NEW k \in Keys, NEW r \in MaxRetriesArgs, NEW t \in Timeouts,
             InitializeQueue(k, r, t)
      PROVE  Quiet
  BY <1>1 DEF InitializeQueue, NoQueue, NothingIssued, OpenJobsCounted, Quiet, Live
<1>2. ASSUME NEW k \in Keys, NEW p \in BOOLEAN, SetQueuePaused(k, p)
      PROVE  Quiet
  BY <1>2 DEF SetQueuePaused, TypeOK, QueueConfig, Quiet, Live
<1>3. ASSUME NEW k \in Keys, NEW s \in SeqArgs, ClaimJob(k, s)
      PROVE  Quiet
  BY <1>3 DEF ClaimJob, Claimed, Claimable, TypeOK, Job, Quiet, Live
<1>4. ASSUME NEW k \in Keys, NEW s \in SeqArgs, CompleteJob(k, s)
      PROVE  Quiet
  <2>1. /\ queue'.next_job_seq = queue.next_job_seq
        /\ queue'.total_enqueued = queue.total_enqueued
    BY <1>4 DEF CompleteJob, TypeOK, QueueConfig
  <2> QED
    BY <1>4, <2>1 DEF CompleteJob, HeldBy, TypeOK, Job, Quiet, Live
<1>5. ASSUME NEW k \in Keys, NEW s \in SeqArgs, FailJob(k, s)
      PROVE  Quiet
  <2>1. /\ queue'.next_job_seq = queue.next_job_seq
        /\ queue'.total_enqueued = queue.total_enqueued
    BY <1>5, FailJobEffect DEF TypeOK, QueueConfig
  <2> QED
    BY <1>5, <2>1, FailJobEffect DEF HeldBy, Quiet, Live
<1>6. ASSUME NEW s \in SeqArgs, ExpireJob(s)
      PROVE  Quiet
  BY <1>6 DEF ExpireJob, IsExpired, Requeued, TypeOK, Job, Quiet, Live
<1>7. ASSUME NEW k \in Keys, NEW s \in SeqArgs, CloseJob(k, s)
      PROVE  Quiet
  BY <1>7 DEF CloseJob, NoJob, TypeOK, Quiet, Live
<1>8. ASSUME UNCHANGED <<queue, job>> PROVE Quiet
  BY <1>8 DEF Quiet, Live
<1> QED
  BY <1>1, <1>2, <1>3, <1>4, <1>5, <1>6, <1>7, <1>8
     DEF OtherInstruction, RegisterWorker, DeactivateWorker, Tick

\* Jobs come from transactions of the CLI only.
LEMMA EnqueueOrQuiet ==
  ASSUME TypeOK, ProcessesOK, OpenJobsCounted, NothingIssued, [CNext]_cvars
  PROVE  \/ /\ Quiet
            /\ \A tx \in InFlight' : tx \in InFlight \/ \E k \in Keys : Sent(k, tx)
         \/ /\ InFlight' \subseteq InFlight
            /\ \E tx \in InFlight, p \in Priorities :
                 tx.cmd = "enqueue" /\ EnqueueJob(tx.signer, tx.seq, p, None)
<1> DEFINE Enqueues ==
      \E tx \in InFlight, p \in Priorities :
        tx.cmd = "enqueue" /\ EnqueueJob(tx.signer, tx.seq, p, None)
<1>1. UNCHANGED vars => Quiet
  BY DEF vars, Quiet, Live
<1>2. ASSUME NEW tx \in InFlight, Apply(tx)
      PROVE  Enqueues \/ OtherInstruction
  <2>1. WellFormed(tx) /\ tx.signer \in Keys
    BY InFlightWellFormed DEF WellFormed, Transaction
  <2>2. CASE tx.cmd = "enqueue"
    BY <1>2, <2>2 DEF Apply
  <2>3. CASE tx.cmd # "enqueue"
    BY <1>2, <2>1, <2>3 DEF Apply, OtherInstruction, WellFormed
  <2> QED
    BY <2>2, <2>3
<1>3. OtherTools => OtherInstruction
  BY DEF OtherTools, OtherInstruction
<1>4. CASE CNext
  BY <1>1, <1>2, <1>3, <1>4, ClientStep, OtherInstructionQuiet
<1>5. CASE UNCHANGED cvars
  BY <1>1, <1>5 DEF cvars, vars, InFlight, LateSlots
<1> QED
  BY <1>4, <1>5

\* What enqueue_job does, as far as addresses and numbers go.
LEMMA EnqueueEffect ==
  ASSUME TypeOK, NEW k, NEW s \in SeqArgs, NEW p, NEW o, EnqueueJob(k, s, p, o)
  PROVE  /\ ~Live(s) /\ Live(s)'
         /\ job'[s].seq = queue.next_job_seq
         /\ \A t \in SeqArgs \ {s} : job'[t] = job[t]
         /\ queue'.next_job_seq = queue.next_job_seq + 1
         /\ queue'.total_enqueued = queue.total_enqueued + 1
BY DEF EnqueueJob, EnqueuedOn, NewJob, Live, TypeOK, QueueConfig

\* The number a producer has read may be old, but it is never too large.
ReadsWithinScan ==
  \A tx \in InFlight : tx.cmd = "enqueue" => tx.seq <= queue.next_job_seq

LEMMA NextWithinScan ==
  ASSUME TypeOK, ProcessesOK, OpenJobsCounted, NothingIssued, JobsWithinScan,
         ReadsWithinScan, [CNext]_cvars
  PROVE  JobsWithinScan' /\ ReadsWithinScan'
<1>1. queue.next_job_seq \in Nat /\ SeqArgs \subseteq Nat
  BY ArgsAssumption DEF TypeOK, QueueConfig
<1>2. CASE /\ Quiet
           /\ \A tx \in InFlight' : tx \in InFlight \/ \E k \in Keys : Sent(k, tx)
  <2>1. JobsWithinScan'
    BY <1>2 DEF JobsWithinScan, LiveJobs, Quiet
  <2>2. ReadsWithinScan'
    BY <1>1, <1>2 DEF ReadsWithinScan, Quiet, Sent
  <2> QED
    BY <2>1, <2>2
<1>3. ASSUME InFlight' \subseteq InFlight, NEW tx \in InFlight, NEW p \in Priorities,
             tx.cmd = "enqueue", EnqueueJob(tx.signer, tx.seq, p, None)
      PROVE  JobsWithinScan' /\ ReadsWithinScan'
  <2>1. tx.seq \in SeqArgs
    BY <1>3, InFlightWellFormed DEF WellFormed
  <2>2. tx.seq <= queue.next_job_seq
    BY <1>3 DEF ReadsWithinScan
  <2>3. queue'.next_job_seq = queue.next_job_seq + 1
    BY <1>3, <2>1, EnqueueEffect
  <2>4. \A t \in SeqArgs \ {tx.seq} : job'[t] = job[t]
    BY <1>3, <2>1, EnqueueEffect
  <2>5. JobsWithinScan'
    BY <1>1, <2>1, <2>2, <2>3, <2>4 DEF JobsWithinScan, LiveJobs, Live
  <2>6. \A t \in InFlight : t.cmd = "enqueue" => t.seq \in Nat
    BY <1>1, InFlightWellFormed DEF WellFormed
  <2>7. ReadsWithinScan'
    BY <1>1, <1>3, <2>3, <2>6 DEF ReadsWithinScan
  <2> QED
    BY <2>5, <2>7
<1> QED
  BY <1>2, <1>3, EnqueueOrQuiet

\* What holds of the program holds here too.
LEMMA ProgramFacts ==
  CSpec => [](TypeOK /\ ProcessesOK /\ StatusFields /\ SeqsUnique /\ OpenJobsCounted
              /\ NothingIssued)
BY ClientsUseTheProgram, ProcessesTyped, StatusFieldsHold, SeqsUniqueHolds,
   OpenJobsCountedHolds, NothingIssuedHolds, PTL

\* Producers read next_job_seq and use it later, in any order and with any
\* delay; still every account lies below it.
THEOREM JobsWithinScanHolds == CSpec => []JobsWithinScan
<1>1. CInit => JobsWithinScan /\ ReadsWithinScan
  <2> SUFFICES ASSUME CInit PROVE JobsWithinScan /\ ReadsWithinScan
    OBVIOUS
  <2>1. InFlight = {}
    BY InitProcessesOK
  <2>2. LiveJobs = {}
    BY DEF CInit, Init, NoJob, LiveJobs, Live
  <2> QED
    BY <2>1, <2>2 DEF JobsWithinScan, ReadsWithinScan
<1>2. /\ TypeOK /\ ProcessesOK /\ StatusFields /\ SeqsUnique /\ OpenJobsCounted
      /\ NothingIssued /\ JobsWithinScan /\ ReadsWithinScan /\ [CNext]_cvars
      => JobsWithinScan' /\ ReadsWithinScan'
  BY NextWithinScan
<1> QED
  BY <1>1, <1>2, ProgramFacts, PTL DEF CSpec


\* Live accounts are finitely many, and no more than numbers were issued.
LEMMA LiveJobsFinite ==
  ASSUME TypeOK, JobsWithinScan
  PROVE  /\ IsFiniteSet(LiveJobs) /\ Cardinality(LiveJobs) \in Nat
         /\ Cardinality(LiveJobs) <= queue.next_job_seq
         /\ Cardinality(LiveJobs) = queue.next_job_seq
              => LiveJobs = 0..(queue.next_job_seq - 1)
<1> DEFINE n == queue.next_job_seq
           Issued == 0..(n - 1)
<1>1. n \in Nat /\ n - 1 \in Int
  BY DEF TypeOK, QueueConfig
<1>2. \A s \in LiveJobs : s \in Nat /\ s < n
  BY ArgsAssumption DEF LiveJobs, JobsWithinScan
<1> HIDE DEF n
<1>3. LiveJobs \in SUBSET Issued
  BY <1>1, <1>2
<1>4. IsFiniteSet(Issued) /\ Cardinality(Issued) = IF 0 > n - 1 THEN 0 ELSE n - 1 - 0 + 1
  BY <1>1, FS_Interval
<1>5. Cardinality(Issued) = n
  BY <1>1, <1>4
<1>6. /\ IsFiniteSet(LiveJobs)
      /\ Cardinality(LiveJobs) <= Cardinality(Issued)
      /\ Cardinality(Issued) = Cardinality(LiveJobs) => Issued = LiveJobs
  <2> HIDE DEF Issued
  <2> QED
    BY <1>3, <1>4, FS_Subset
<1> QED
  BY <1>5, <1>6, FS_CardinalityType DEF n

LEMMA NextPrintedNumberTrue ==
  ASSUME TypeOK, ProcessesOK, OpenJobsCounted, NothingIssued, JobsWithinScan,
         ReadsWithinScan, PrintedNumberTrue, [CNext]_cvars
  PROVE  PrintedNumberTrue'
<1>1. /\ queue.next_job_seq \in Nat /\ SeqArgs \subseteq Nat
      /\ queue.total_enqueued = queue.next_job_seq
  BY ArgsAssumption DEF TypeOK, QueueConfig, OpenJobsCounted
<1>2. CASE Quiet
  <2>1. LiveJobs' \in SUBSET LiveJobs
    BY <1>2 DEF Quiet, LiveJobs
  <2>2. \A s \in LiveJobs' : s \in LiveJobs /\ job'[s].seq = job[s].seq
    BY <1>2 DEF Quiet, LiveJobs
  <2>3. queue'.total_enqueued = queue.total_enqueued
    BY <1>2 DEF Quiet
  <2>4. /\ Cardinality(LiveJobs') <= Cardinality(LiveJobs)
        /\ Cardinality(LiveJobs) = Cardinality(LiveJobs') => LiveJobs = LiveJobs'
        /\ Cardinality(LiveJobs') \in Nat
    BY <2>1, LiveJobsFinite, FS_Subset, FS_CardinalityType
  <2>5. Cardinality(LiveJobs') = queue.total_enqueued =>
          Cardinality(LiveJobs) = queue.total_enqueued
    BY <1>1, <2>4, LiveJobsFinite
  <2> QED
    BY <2>2, <2>3, <2>5 DEF PrintedNumberTrue
<1>3. ASSUME NEW tx \in InFlight, NEW p \in Priorities,
             tx.cmd = "enqueue", EnqueueJob(tx.signer, tx.seq, p, None)
      PROVE  PrintedNumberTrue'
  <2>1. tx.seq \in SeqArgs /\ tx.seq <= queue.next_job_seq
    BY <1>3, InFlightWellFormed DEF WellFormed, ReadsWithinScan
  <2>2. /\ ~Live(tx.seq) /\ Live(tx.seq)'
        /\ job'[tx.seq].seq = queue.next_job_seq
        /\ \A t \in SeqArgs \ {tx.seq} : job'[t] = job[t]
        /\ queue'.total_enqueued = queue.total_enqueued + 1
    BY <1>3, <2>1, EnqueueEffect
  <2>3. tx.seq \notin LiveJobs /\ LiveJobs' = LiveJobs \cup {tx.seq}
    BY <2>1, <2>2 DEF LiveJobs, Live
  <2>4. Cardinality(LiveJobs') = Cardinality(LiveJobs) + 1
    BY <2>3, LiveJobsFinite, FS_AddElement
  <2>5. \A s \in LiveJobs' : s <= job'[s].seq
    BY <2>1, <2>2, <2>3 DEF PrintedNumberTrue, LiveJobs
  <2>6. ASSUME Cardinality(LiveJobs') = queue'.total_enqueued
        PROVE  \A s \in LiveJobs' : job'[s].seq = s
    <3>1. Cardinality(LiveJobs) = queue.next_job_seq
      BY <1>1, <2>2, <2>4, <2>6, LiveJobsFinite
    <3>2. LiveJobs = 0..(queue.next_job_seq - 1)
      BY <3>1, LiveJobsFinite
    <3>3. tx.seq = queue.next_job_seq
      <4> DEFINE n == queue.next_job_seq
      <4>1. n \in Nat /\ tx.seq \in Nat /\ tx.seq <= n /\ tx.seq \notin 0..(n - 1)
        BY <1>1, <2>1, <2>3, <3>2
      <4> HIDE DEF n
      <4>2. tx.seq = n
        BY <4>1
      <4> QED
        BY <4>2 DEF n
    <3>4. \A s \in LiveJobs : job[s].seq = s
      BY <1>1, <3>1 DEF PrintedNumberTrue
    <3> QED
      BY <2>2, <2>3, <3>3, <3>4 DEF LiveJobs
  <2> QED
    BY <2>5, <2>6 DEF PrintedNumberTrue
<1> QED
  BY <1>2, <1>3, EnqueueOrQuiet

\* A printed number never exceeds the job's own, and until the first account
\* is closed the two are equal.
THEOREM PrintedNumberTrueHolds == CSpec => []PrintedNumberTrue
<1>1. CInit => JobsWithinScan /\ ReadsWithinScan /\ PrintedNumberTrue
  <2> SUFFICES ASSUME CInit
               PROVE  JobsWithinScan /\ ReadsWithinScan /\ PrintedNumberTrue
    OBVIOUS
  <2>1. InFlight = {}
    BY InitProcessesOK
  <2>2. LiveJobs = {}
    BY DEF CInit, Init, NoJob, LiveJobs, Live
  <2> QED
    BY <2>1, <2>2 DEF JobsWithinScan, ReadsWithinScan, PrintedNumberTrue
<1>2. /\ TypeOK /\ ProcessesOK /\ StatusFields /\ SeqsUnique /\ OpenJobsCounted
      /\ NothingIssued /\ JobsWithinScan /\ ReadsWithinScan /\ PrintedNumberTrue
      /\ [CNext]_cvars
      => JobsWithinScan' /\ ReadsWithinScan' /\ PrintedNumberTrue'
  BY NextWithinScan, NextPrintedNumberTrue
<1> QED
  BY <1>1, <1>2, ProgramFacts, PTL DEF CSpec

-----------------------------------------------------------------------------
(* Reports under way.                                                      *)

\* A queue's timeout is fixed for good, and the clock never runs backwards.
LEMMA TimeoutFixed ==
  ASSUME TypeOK, [Next]_vars
  PROVE  /\ now' >= now
         /\ queue.exists => queue'.exists
                            /\ queue'.job_timeout_secs = queue.job_timeout_secs
<1>1. now \in Nat
  BY DEF TypeOK
<1>2. now' = now \/ now' = now + 1
  <2>1. \A k \in Keys, s \in SeqArgs :
          ClaimJob(k, s) \/ CompleteJob(k, s) \/ FailJob(k, s) \/ CloseJob(k, s) => now' = now
    BY DEF ClaimJob, CompleteJob, FailJob, CloseJob
  <2> QED
    BY <2>1 DEF Next, vars, InitializeQueue, SetQueuePaused, RegisterWorker,
       DeactivateWorker, EnqueueJob, ExpireJob, Tick
<1>3. ASSUME queue.exists
      PROVE  queue'.exists /\ queue'.job_timeout_secs = queue.job_timeout_secs
  <2> DEFINE Kept == queue'.exists /\ queue'.job_timeout_secs = queue.job_timeout_secs
  <2>1. \A k \in Keys, s \in SeqArgs, p \in Priorities, o \in RetryOverrides :
          EnqueueJob(k, s, p, o) => Kept
    BY <1>3 DEF EnqueueJob, EnqueuedOn, TypeOK, QueueConfig
  <2>2. \A k \in Keys, p \in BOOLEAN : SetQueuePaused(k, p) => Kept
    BY <1>3 DEF SetQueuePaused, TypeOK, QueueConfig
  <2>3. \A k \in Keys, s \in SeqArgs : CompleteJob(k, s) => Kept
    BY <1>3 DEF CompleteJob, TypeOK, QueueConfig
  <2>4. \A k \in Keys, s \in SeqArgs : FailJob(k, s) => Kept
    BY <1>3 DEF FailJob, TypeOK, QueueConfig
  <2> QED
    BY <1>3, <2>1, <2>2, <2>3, <2>4
       DEF Next, vars, InitializeQueue, RegisterWorker, DeactivateWorker, ClaimJob,
           ExpireJob, CloseJob, Tick
<1> QED
  BY <1>1, <1>2, <1>3

\* A report sent for a claim counts for it for good.
LEMMA ReportedGrows ==
  ASSUME TypeOK, ProcessesOK, [CNext]_cvars
  PROVE  \A s \in SeqArgs : reported[s] \subseteq reported'[s]
<1>1. UNCHANGED history => \A s \in SeqArgs : reported[s] \subseteq reported'[s]
  BY DEF history
<1>2. ASSUME NEW tx \in InFlight, Apply(tx), Recorded(tx)
      PROVE  \A s \in SeqArgs : reported[s] \subseteq reported'[s]
  BY <1>2, InFlightWellFormed, RecordedStep DEF ProcessesOK
<1>3. CASE CNext
  BY <1>1, <1>2, <1>3, ClientStep DEF OtherTools
<1>4. CASE UNCHANGED cvars
  BY <1>4 DEF cvars
<1> QED
  BY <1>3, <1>4

\* Executing a transaction ends a claim by a report of its worker or leaves it
\* alone: nobody else can finish, fail, claim or replace the job.
LEMMA ExecutedBeside ==
  ASSUME TypeOK, ProcessesOK, Tracked, NEW s \in SeqArgs, NEW k \in Keys, HeldBy(s, k),
         NEW tx \in InFlight, Apply(tx), Recorded(tx)
  PROVE  \/ job'[s] = job[s] /\ claims'[s] = claims[s]
         \/ claims[s] \in reported'[s]
<1>1. WellFormed(tx) /\ HistoryOK
  BY InFlightWellFormed DEF ProcessesOK
<1>2. tx.cmd \in {"enqueue", "claim", "complete", "fail"} => tx.seq \in SeqArgs
  BY <1>1 DEF WellFormed
<1>3. job[s].status = "Processing"
  BY DEF HeldBy
<1>4. tx.cmd # "claim" \/ tx.seq # s => claims'[s] = claims[s]
  BY <1>1, RecordedStep
<1>5. tx.cmd \in Reports => claims[tx.seq] \in reported'[tx.seq]
  BY <1>1, RecordedStep
<1>6. CASE tx.cmd \in {"init", "worker-register"}
  <2>1. job' = job
    BY <1>6 DEF Apply, InitializeQueue, RegisterWorker
  <2> QED
    BY <1>4, <1>6, <2>1
<1>7. CASE tx.cmd = "enqueue"
  <2>1. ~Live(tx.seq) /\ \A t \in SeqArgs \ {tx.seq} : job'[t] = job[t]
    BY <1>2, <1>7, EnqueueEffect DEF Apply
  <2>2. tx.seq # s
    BY <1>3, <2>1 DEF Live
  <2> QED
    BY <1>4, <2>1, <2>2
<1>8. CASE tx.cmd = "claim"
  <2>1. /\ job[tx.seq].status = "Pending"
        /\ \A t \in SeqArgs \ {tx.seq} : job'[t] = job[t]
    BY <1>2, <1>8 DEF Apply, ClaimJob, Claimable, TypeOK
  <2>2. tx.seq # s
    BY <1>3, <2>1
  <2> QED
    BY <1>4, <2>1, <2>2
<1>9. CASE tx.cmd \in Reports
  <2>1. CASE tx.seq = s
    BY <1>5, <1>9, <2>1
  <2>2. CASE tx.seq # s
    <3>1. CompleteJob(tx.signer, tx.seq) \/ FailJob(tx.signer, tx.seq)
      BY <1>9 DEF Apply, Reports
    <3>2. tx.signer \in Keys /\ tx.seq \in SeqArgs
      BY <1>1, <1>2, <1>9 DEF WellFormed, Transaction, Reports
    <3>3. CompleteJob(tx.signer, tx.seq) => job'[s] = job[s]
      BY <2>2, <3>2 DEF CompleteJob, TypeOK
    <3>4. FailJob(tx.signer, tx.seq) => job'[s] = job[s]
      BY <2>2, <3>2, FailJobEffect
    <3> QED
      BY <1>4, <2>2, <3>1, <3>3, <3>4
  <2> QED
    BY <2>1, <2>2
<1>10. tx.cmd \in {"init", "worker-register", "enqueue", "claim"} \cup Reports
  BY <1>1 DEF WellFormed, Transaction, Commands
<1> QED
  BY <1>6, <1>7, <1>8, <1>9, <1>10

\* What nobody's command does to a claim: it goes on, or it was overdue.
LEMMA OthersBeside ==
  ASSUME TypeOK, NEW s \in SeqArgs, NEW k \in Keys, HeldBy(s, k), OtherTools
  PROVE  \/ job'[s] = job[s]
         \/ now > job[s].started_at + queue.job_timeout_secs
<1> DEFINE Ends == \/ job'[s] = job[s]
                   \/ now > job[s].started_at + queue.job_timeout_secs
<1>1. ASSUME NEW t \in SeqArgs, ExpireJob(t) PROVE Ends
  BY <1>1 DEF ExpireJob, IsExpired, TypeOK
<1>2. ASSUME NEW l \in Keys, NEW t \in SeqArgs, CloseJob(l, t) PROVE Ends
  BY <1>2 DEF CloseJob, Closable, HeldBy, TypeOK
<1> QED
  BY <1>1, <1>2 DEF OtherTools, SetQueuePaused, DeactivateWorker, Tick

\* The three ways a step may treat a claim: it goes on as the same claim, its
\* worker reports it, or it was overdue.
LEMMA ClaimEnds ==
  ASSUME TypeOK, ProcessesOK, Tracked, NEW s \in SeqArgs, NEW k \in Keys, HeldBy(s, k),
         [CNext]_cvars
  PROVE  \/ job'[s] = job[s] /\ claims'[s] = claims[s]
         \/ claims[s] \in reported'[s]
         \/ now > job[s].started_at + queue.job_timeout_secs
<1>1. CASE UNCHANGED vars /\ UNCHANGED history
  BY <1>1 DEF vars, history
<1>2. CASE \E tx \in InFlight : Apply(tx) /\ Recorded(tx)
  BY <1>2, ExecutedBeside
<1>3. CASE OtherTools
  <2>1. claims' = claims
    BY <1>3 DEF OtherTools, history
  <2> QED
    BY <1>3, <2>1, OthersBeside
<1>4. CASE CNext
  BY <1>1, <1>2, <1>3, <1>4, ClientStep
<1>5. CASE UNCHANGED cvars
  BY <1>5 DEF cvars
<1> QED
  BY <1>4, <1>5

\* TimelyReportLands with what carries it over the steps, and without what is
\* known of the program: that a claim which still runs can be reported.
ReportInv ==
  \A tx \in InFlight :
    tx.cmd \in Reports /\ tx.claim # None =>
      /\ Tracked /\ queue.exists /\ tx.since \in Nat
      /\ \/ MeetsItsClaim(tx)
         \/ tx.claim \in reported[tx.seq]
         \/ now > tx.since + queue.job_timeout_secs

LEMMA NextReportInv ==
  ASSUME TypeOK, ProcessesOK, StatusFields, ReportInv, [CNext]_cvars
  PROVE  ReportInv'
<1>1. [Next]_vars /\ TypeOK'
  BY CNextProcessesOK
<1>2. \A s \in SeqArgs : reported[s] \subseteq reported'[s]
  BY ReportedGrows
<1> SUFFICES ASSUME NEW tx \in InFlight', tx.cmd \in Reports, tx.claim # None
             PROVE  /\ Tracked /\ queue'.exists /\ tx.since \in Nat
                    /\ \/ /\ HeldBy(tx.seq, tx.signer)'
                          /\ claims'[tx.seq] = tx.claim /\ job'[tx.seq].started_at = tx.since
                       \/ tx.claim \in reported'[tx.seq]
                       \/ now' > tx.since + queue'.job_timeout_secs
  BY DEF ReportInv, MeetsItsClaim
<1>3. CASE tx \in InFlight
  <2>1. tx.signer \in Keys /\ tx.seq \in SeqArgs
    BY <1>3, InFlightWellFormed DEF WellFormed, Transaction, Reports
  <2>2. /\ Tracked /\ queue.exists /\ tx.since \in Nat
        /\ \/ MeetsItsClaim(tx)
           \/ tx.claim \in reported[tx.seq]
           \/ now > tx.since + queue.job_timeout_secs
    BY <1>3 DEF ReportInv
  <2>3. /\ now' >= now /\ queue'.exists
        /\ queue'.job_timeout_secs = queue.job_timeout_secs
    BY <1>1, <2>2, TimeoutFixed
  <2>4. now \in Nat /\ now' \in Nat /\ queue.job_timeout_secs \in Int
    BY <1>1 DEF TypeOK, QueueConfig
  <2>5. CASE now > tx.since + queue.job_timeout_secs
    BY <2>2, <2>3, <2>4, <2>5
  <2>6. CASE tx.claim \in reported[tx.seq]
    BY <1>2, <2>1, <2>2, <2>3, <2>6
  <2>7. CASE MeetsItsClaim(tx)
    <3>1. /\ HeldBy(tx.seq, tx.signer)
          /\ claims[tx.seq] = tx.claim /\ job[tx.seq].started_at = tx.since
      BY <2>7 DEF MeetsItsClaim
    <3>2. \/ job'[tx.seq] = job[tx.seq] /\ claims'[tx.seq] = claims[tx.seq]
          \/ claims[tx.seq] \in reported'[tx.seq]
          \/ now > job[tx.seq].started_at + queue.job_timeout_secs
      BY <2>1, <2>2, <3>1, ClaimEnds
    <3>3. CASE job'[tx.seq] = job[tx.seq] /\ claims'[tx.seq] = claims[tx.seq]
      BY <2>2, <2>3, <3>1, <3>3 DEF HeldBy
    <3>4. CASE claims[tx.seq] \in reported'[tx.seq]
      BY <2>2, <2>3, <3>1, <3>4
    <3>5. CASE now > job[tx.seq].started_at + queue.job_timeout_secs
      BY <2>2, <2>3, <2>4, <3>1, <3>5
    <3> QED
      BY <3>2, <3>3, <3>4, <3>5
  <2> QED
    BY <2>2, <2>5, <2>6, <2>7
<1>4. ASSUME NEW k \in Keys, Sent(k, tx), UNCHANGED vars, UNCHANGED history
      PROVE  /\ Tracked /\ queue'.exists /\ tx.since \in Nat
             /\ HeldBy(tx.seq, tx.signer)'
             /\ claims'[tx.seq] = tx.claim /\ job'[tx.seq].started_at = tx.since
  <2>1. PICK cmd, s, w : tx = Tx(k, cmd, s, w)
    BY <1>4 DEF Sent
  <2>2. tx.seq = s /\ tx.signer = k /\ tx.cmd = cmd
    BY <2>1 DEF Tx
  <2>3. Tracked /\ HeldBy(s, k)
    BY <2>1 DEF Tx
  <2>4. tx.claim = claims[s] /\ tx.since = job[s].started_at
    BY <2>1, <2>2, <2>3 DEF Tx
  <2>5. s \in SeqArgs
    BY <1>4, <2>2 DEF Sent, WellFormed, Reports
  <2>6. queue.exists /\ job[s].started_at \in Nat
    BY <2>3, <2>5 DEF StatusFields, HeldBy, Live
  <2> QED
    BY <1>4, <2>2, <2>3, <2>4, <2>6 DEF vars, history, HeldBy
<1>5. tx \in InFlight \/ (UNCHANGED vars /\ UNCHANGED history /\ \E k \in Keys : Sent(k, tx))
  <2>1. CASE CNext
    BY <2>1, ClientStep
  <2>2. CASE UNCHANGED cvars
    BY <2>2 DEF cvars, InFlight, LateSlots
  <2> QED
    BY <2>1, <2>2
<1> QED
  BY <1>3, <1>4, <1>5

\* While its claim runs, a report is refused for two reasons only: its worker
\* has been deactivated, or it is a failure and the limit the largest u8.
LEMMA RunningClaimReportable ==
  ASSUME TypeOK, ProcessesOK, StatusFields, FailureAccepted,
         NEW tx \in InFlight, tx.cmd \in Reports, MeetsItsClaim(tx)
  PROVE  \/ Accepted(tx)
         \/ Deactivated(tx.signer)
         \/ tx.cmd = "fail" /\ job[tx.seq].max_retries = U8Max
<1>1. tx.signer \in Keys /\ tx.seq \in SeqArgs
  BY InFlightWellFormed DEF WellFormed, Transaction, Reports
<1>2. HeldBy(tx.seq, tx.signer)
  BY DEF MeetsItsClaim
<1>3. queue.exists /\ registry[tx.signer].exists
  BY <1>1, <1>2 DEF StatusFields, HeldBy, Live
<1>4. CASE ~registry[tx.signer].is_active
  BY <1>3, <1>4 DEF Deactivated
<1>5. CASE registry[tx.signer].is_active
  <2>1. ActiveWorker(tx.signer)
    BY <1>3, <1>5 DEF ActiveWorker
  <2>2. CASE tx.cmd = "fail"
    <3>1. FailAccepted(tx.signer, tx.seq) <=> job[tx.seq].max_retries < U8Max
      BY <1>1, <1>2, <2>1 DEF FailureAccepted
    <3>2. job[tx.seq].max_retries \in 0..U8Max
      BY <1>1 DEF TypeOK, Job
    <3>3. job[tx.seq].max_retries < U8Max \/ job[tx.seq].max_retries = U8Max
      BY <3>2, U8Assumption
    <3> QED
      BY <2>2, <3>1, <3>3 DEF Accepted
  <2>3. CASE tx.cmd # "fail"
    BY <1>2, <1>3, <2>1, <2>3 DEF Accepted, CompleteAccepted
  <2> QED
    BY <2>2, <2>3
<1> QED
  BY <1>4, <1>5

\* A report sent for a running claim finds that claim and is accepted, until
\* the timeout has passed, unless a report of the worker came first, the
\* worker has been deactivated, or the limit is one that no failure gets past.
THEOREM TimelyReportLandsHolds == CSpec => []TimelyReportLands
<1>1. CInit => ReportInv
  <2> SUFFICES ASSUME CInit PROVE ReportInv
    OBVIOUS
  <2>1. InFlight = {}
    BY InitProcessesOK
  <2> QED
    BY <2>1 DEF ReportInv
<1>2. /\ TypeOK /\ ProcessesOK /\ StatusFields /\ SeqsUnique /\ OpenJobsCounted
      /\ NothingIssued /\ ReportInv /\ [CNext]_cvars
      => ReportInv'
  BY NextReportInv
<1>3. TypeOK /\ ProcessesOK /\ StatusFields /\ FailureAccepted /\ ReportInv
        => TimelyReportLands
  BY RunningClaimReportable DEF ReportInv, TimelyReportLands
<1>4. CSpec => []FailureAccepted
  BY ClientsUseTheProgram, FailuresAccepted, PTL
<1> QED
  BY <1>1, <1>2, <1>3, <1>4, ProgramFacts, PTL DEF CSpec

=============================================================================
