----------------------------- MODULE CliDashboard -----------------------------
(***************************************************************************)
(* The dashboard command of the CLI. It reads the queue account once and   *)
(* prints the totals; then it fetches the most recent jobs, one account at *)
(* a time, and prints them as a table below. Everybody else goes on in     *)
(* between, so every row is of a different moment, later than the totals.  *)
(***************************************************************************)
EXTENDS SolQueue, FiniteSetsExt

CONSTANT RowLimits  \* values given to --limit
ASSUME RowLimitsAssumption == RowLimits \subseteq Int

VARIABLE
  screen  \* what the command has printed and fetched, or Blank

dvars == <<queue, job, registry, now, screen>>

Blank ==
  [on |-> FALSE, next |-> 0, backlog |-> 0, from |-> 0, at |-> 0, rows |-> {}, lost |-> {}]

\* A row shows the address it was fetched from; the job's own number and its
\* status are what matters of the rest.
Row == [address : SeqArgs, seq : Nat, status : JobStatus]

\* The column headed Pending: what is neither completed nor failed.
Backlog(q) == q.total_enqueued - q.total_completed - q.total_failed

FirstRow(limit) ==
  Max({0, queue.next_job_seq - Min({limit, queue.next_job_seq})})

DInit == Init /\ screen = Blank

\* Without a queue account the command prints an error instead.
RunDashboard(limit) ==
  /\ ~screen.on /\ queue.exists
  /\ screen' = [on |-> TRUE, next |-> queue.next_job_seq, backlog |-> Backlog(queue),
                from |-> FirstRow(limit), at |-> FirstRow(limit), rows |-> {}, lost |-> {}]
  /\ UNCHANGED vars

\* An address without an account is skipped.
MutRowsAt(a) ==
  IF a \in SeqArgs /\ Live(a) /\ job[a].seq = a
  THEN {[address |-> a, seq |-> job[a].seq, status |-> job[a].status]} ELSE {}
RowsAt(a) ==
  IF a \in SeqArgs /\ Live(a)
  THEN {[address |-> a, seq |-> job[a].seq, status |-> job[a].status]} ELSE {}

FetchRow ==
  /\ screen.on /\ screen.at < screen.next
  /\ screen' = [screen EXCEPT !.at = @ + 1, !.rows = @ \cup RowsAt(screen.at)]
  /\ UNCHANGED vars

\* A request that fails is taken for a closed account: the row is left out
\* without a word.
RowLost ==
  /\ screen.on /\ screen.at < screen.next
  /\ screen' = [screen EXCEPT !.at = @ + 1, !.lost = @ \cup {screen.at}]
  /\ UNCHANGED vars

\* The table is printed and the command ends. (A negative limit begins past
\* the end.)
PrintTable ==
  /\ screen.on /\ screen.at >= screen.next
  /\ screen' = Blank
  /\ UNCHANGED vars

DNext ==
  \/ \E n \in RowLimits : RunDashboard(n)
  \/ FetchRow
  \/ RowLost
  \/ PrintTable
  \/ Next /\ UNCHANGED screen

DSpec == DInit /\ [][DNext]_dvars

-----------------------------------------------------------------------------
DashboardTypeOK ==
  screen \in [on : BOOLEAN, next : Nat, backlog : Int, from : Nat, at : Nat,
              rows : SUBSET Row, lost : SUBSET Nat]

\* The table never shows more unfinished jobs than the totals printed above
\* it account for, although its rows are read later and one by one while jobs
\* are claimed, requeued, finished and closed: of the jobs that had been
\* enqueued when the totals were read, those still unfinished are a part of
\* that backlog. (A job that took over a closed address meanwhile is newer: it
\* is no part of the totals, and its row is not counted here.)
TableWithinTotals ==
  Cardinality({r \in screen.rows :
      r.seq < screen.next /\ r.status \in {"Pending", "Processing"}}) <= screen.backlog

\* Of the jobs that had been enqueued when the totals were read and whose
\* address is among the last --limit ones, only finished jobs are missing from
\* the table: one that is still unfinished has its row as soon as its address
\* has been visited, whatever else happened to it in between, unless the very
\* request for it failed. Newer jobs, at addresses closed since, are left out.
NoUnfinishedJobMissing ==
  \A s \in SeqArgs :
    /\ screen.from <= s /\ s < screen.at /\ s \notin screen.lost
    /\ Open(s) /\ job[s].seq < screen.next
    => \E r \in screen.rows : r.address = s /\ r.seq = job[s].seq
=============================================================================
