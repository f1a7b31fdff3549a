# SolQueue: specification, model checking and proofs

SolQueue is a job queue that lives on the Solana blockchain. This directory
holds TLA+ specifications of the on-chain program, of the command-line client
and of the two dashboards, the TLC configurations that check them, and theorems
about them that the TLA+ proof system checks. Every
definition is translated from the source; `PROJECT.json` names the lines.

## The system

| Part | State | Operations | Talks to |
|---|---|---|---|
| Program: queue management (`initialize_queue.rs`, `pause_queue.rs`, `queue_config.rs`) | one `QueueConfig` account per queue name: authority, next number, three lifetime counters, paused flag, default retries, timeout | `initialize_queue`, `set_queue_paused` | read by every instruction, written by enqueue, complete and fail |
| Program: worker management (`register_worker.rs`, `deactivate_worker.rs`, `worker.rs`) | one `WorkerRegistry` account per queue and worker key: active flag, three counters | `register_worker`, `deactivate_worker` | guards claim, complete and fail |
| Program: job lifecycle (`enqueue_job.rs` ... `close_job.rs`, `job.rs`) | one `Job` account per address ["job", queue name, seq] | `enqueue_job`, `claim_job`, `complete_job`, `fail_job`, `expire_job`, `close_job` | all three account kinds, the cluster clock |
| Program: events, errors (`events.rs`, `errors.rs`) | none | emitted, returned | log readers; none in the repository |
| Account layout (`LEN`, `name_to_bytes`, Borsh) | bytes of an account | encode, decode | the dashboard parses the bytes by hand |
| CLI (`client/cli`) | none between commands | one command per instruction, `status`, `dashboard` | reads accounts, then submits a transaction |
| Web dashboard (`client/dashboard`) | React state: queue name, stats, jobs, loading, error | `fetchQueue`, `fetchJobs`, 10 s interval | reads accounts, asynchronously |

The parts share state only through accounts. Any number of producers, workers,
authorities and third parties sign transactions concurrently; Solana locks the
accounts a transaction writes and applies it entirely or not at all. So inside
the program one instruction is one atomic step, and what is hard is the *order*
of the steps: a claim after an expiry after a claim, a report that comes too
late, an address closed and created again, a worker deactivated in the middle of
a job, limits at the edge of `u8`, and timeouts that are zero or negative
(nothing validates them). For the clients the hard part is between a read and
the transaction submitted because of it.

What makes each part correct:

* queue: numbers are issued once; the lifetime counters account for every job;
* workers: credit for at most the claims made, agreement with the queue's
  totals, a deactivation that is final;
* jobs: one worker at a time, exactly the retries allowed, a claim lost only by
  a report or a timeout, finished jobs that stay finished, fields that agree with
  the status;
* CLI: the address it derives is free, the number it prints is the job's, a
  report reaches the claim it was sent for, every job finishes if people do their
  part;
* CLI dashboard: a table fetched row by row agrees with the totals above it;
* web dashboard: overlapping answers never mix two queues, every answer stops the
  spinner, what is shown was true once, and the screen becomes right when everything
  is quiet;
* layout: a job always fits its account, and is read where it was written;
* addresses: queues that share the program never meet, whatever their names are.

## Modules

| Module | What it is |
|---|---|
| `SolQueue` | the program: accounts as records, one action per instruction, invariants and action properties |
| `JobQueue` | the abstract queue: numbers issued in order, waiting or run by one worker, finished once |
| `JobLife` | the life of one job: its phase, the terms it was enqueued with, its failures, who has it and since when |
| `SolQueueRefinement` | the mappings from accounts to the abstract queue, and from each address to a `JobLife` |
| `MCSolQueue` | constants and symmetry for TLC |
| `SolQueueDocs` | sentences of comments and README that the program does not keep |
| `SolQueueClients` | extends `SolQueue`: CLI processes, transactions in flight, lost answers, workers that stop, a keeper |
| `CliDashboard` | extends `SolQueue`: the CLI's `dashboard` command beside the running program |
| `JobLayout` | extends `SolQueue`: the bytes of its accounts, and where the web dashboard reads them |
| `MCReaders` | `CliDashboard` and `JobLayout` over one program, for TLC |
| `Accounts` | the accounts of all queues and the addresses they are found at |
| `OneQueue` | the part of `Accounts` that belongs to one queue is an `Accounts` with one name |
| `MCAccounts` | names, numbers and keys for TLC |
| `Dashboard` | the web dashboard and the cluster it reads |
| `SumTheorems` | lemmas on sums over finite sets, which totals and offsets are |
| `SolQueueProofs`, `JobQueueProofs`, `SolQueueClientsProofs`, `CliDashboardProofs`, `JobLayoutProofs`, `AccountsProofs`, `DashboardProofs` | the theorems about the module of that name |

### How the state corresponds to the code

`queue`, `job` and `registry` are the three account kinds; an address without an
account holds the records `NoQueue`, `NoJob` (status `"NoAccount"`) or
`NoWorker`, so Anchor's `init` is a guard on these and `close = creator` writes
`NoJob`. `job` is indexed by the *seq argument* the address is derived from, and
a job's own `seq` field is separate state, because `enqueue_job` takes them
from different places. `now` is `Clock::unix_timestamp`. One queue is enough in
`SolQueue`, which `Accounts` is there to show.

`Accounts` has any number of queues, and an account for every address that the
program derives. `Derived` is `find_program_address`: it joins the seeds and puts
nothing between them, so that names, numbers and keys could run together. (It hashes
the result; that two inputs have one SHA-256 digest is left out, and so is its limit
of 32 bytes for a seed, without which there are only more names.) An instruction
finds its accounts by deriving them (`IsQueue`, `IsJob`, `IsWorker`, `Free`), and
creates, writes or deletes them. What it writes, and which contents it refuses, is
`SolQueue`'s matter: here `contents` is a name for the last write, and every
instruction may be accepted whatever the contents are.

A rejected instruction (a failed constraint, a failed `require!`, a panic)
changes nothing, so rejection is the action being disabled. The release profile
sets `overflow-checks = true`: the two `u8` additions of `fail_job` that can
overflow are guards of `FailJob`. One of them is the `max_retries + 1` of a log
line. The `u64` counters are not given a width: each grows by one per
transaction. An `i64` overflow in `is_expired` rejects, exactly as a
deadline never reached does.

Left out of the records: `queue_name`, `job_type`, `payload` (never read by the
program after they are written), `registered_at`, the `bump`s. `result` is
abstracted to who wrote it.

### The command-line client

A command is a process: `Run...` is everything up to the sending of its one
transaction, and `cli[k]` is what the process of key `k` waits for. `enqueue`
reads `nextJobSeq` first; `FetchedSeq` is that read, and the transaction is built
from it, so between the read and its execution anything can happen. `Land` and
`Reject` are the cluster's decision (a transaction refused by the program and
one that is lost look alike: nothing changed). What the process prints then is left
out, since between the fate of its transaction and its exit it does nothing that
anybody could notice; that an error is printed for a transaction that was applied,
because its confirmation got lost, makes no difference to the state either. `GiveUp` is
the confirmation timeout of the RPC library: the
process prints an error and exits, its transaction goes to `late` and is executed
(`LandLate`) or dropped (`RejectLate`) at any later time, while the user already
runs the next command, possibly the same one. (`late` has `MaxLate` places, so that
two equal transactions can be late together.)
`OtherTools` are the instructions the CLI has no command for.

`claims`, `reported` and, in a transaction, `claim` and `since` are history: how many
claims were executed at each address, which of them a report ended, and for a report
the number and the start of the claim it was sent for. No guard reads them.
`TimelyReportLands` does, to tell a worker's claim from its next one in the same
second. With `Tracked` = FALSE the history is not kept, which saves the liveness run
half of its states.

`CliDashboard` keeps in `screen` what the command has printed and fetched. The
totals are one read; each `FetchRow` is another, with the program going on in
between; `RowLost` is the empty `catch`.

### The web dashboard

JavaScript runs one callback at a time, so the code between two awaits is one
action. `fetches` and `lists` are the calls of `fetchQueue` and `fetchJobs` under
way, each with the name and number of jobs of the render that created it (a
React closure); a call takes the first free place. `Serve` is the cluster reading an
account, `ArriveFound`, `ArriveMissing` and `FetchFails` are the ways the call ends.
Setting the statistics makes a new `fetchJobs`, hence a new run of the effect, but in
a later task: `due` says that such a render is due, `RunEffect` is the render and its
effect, and other answers may come before it and share it. `rendered` are the
statistics of the last render, which the interval, and an effect run by Load Queue,
still use. (React may even run the effect a task later than the render. An answer
that comes between the two is like one that comes after both, since it makes another
effect due.)
`timers` are the pending 500 ms timeouts, which are never cleared, in the order
they fire (two equal ones that are pending together count once: they would fetch
the same list twice in a row). The interval fires when no timer is pending: each
effect starts it anew, so that the half second of every timer is over before its ten
seconds are.

`chain` has the accounts of each queue by address, and a job's own number in its
account: `Enqueue` takes any free address, one whose job was closed included, and a
row shows the number that it read. A job is reduced to that number and whether it is
open or finished, and one queue's statistics to its next number. A name of more than 32
bytes (`LongName`) has no address: `fetchQueue` throws before any request, and
`fetchJobs` skips every job.

`JobLayout` writes a layout as a sequence of fields and widths; an offset is the
sum of the widths before. `JobBytes` follows Borsh, where a `None` takes one byte and
a `Some` one more than its content, so a job's layout is a function of the widths
its optional fields take (`OptionWidths`); `ReadJob` and `ReadQueue` follow the parser's
`offset +=` lines.

Names starting with `Mut` are faulty variants of the definition below them: each
property of a passing run is refuted by TLC when one of them takes the place of
the definition.

## Runs

The constants `MaxSeq`, `MaxClaims` and `MaxTime` bound the jobs ever enqueued,
the claims of each worker and the clock, in the guards of `EnqueueJob`, `ClaimJob`
and `Tick`. They cut behaviours short and add none, and the queue can always be
paused or resumed, so deadlock stays checked.

| Run | Instance | Shows |
|---|---|---|
| `core_jobs` | 2 keys, each in every role; 2 addresses, 3 jobs; 2 claims per worker; retry limit 1; timeout 0, one clock tick | `SeqsUnique`, `OpenJobsCounted`, `ClaimsAccounted`, `CreditsMatchTotals`, `CreditsWhereDue`, `RetriesOnRecord`, `ClaimNotStolen`, `DeactivationFinal`, `ImplementsJobQueue`, `ImplementsJobLife`, `TypeOK` |
| `core_lease` | 2 keys; 1 job; every retry limit up to the largest `u8` (scaled to 2) by default and by override; timeouts -1, 0, 1; clock to 4; 3 claims per worker | `StatusFields`, `RetryBudget`, `TimestampsOrdered`, `LeaseHonoured`, `FailureReportable` |
| `accounts` | 2 names, `<<>>` and `<<1>>`; the numbers 1 and 257; one key, of 8 bytes and the same as the number 257; 2 contents | `FoundWhereDerived`, `QueuesAlone` |
| `clients` | 2 keys: one administers and works, one produces; 2 jobs, 2 addresses; one late transaction at a time; retry limits 1 and 2, the largest `u8` (scaled); timeout 0, one tick | `JobsWithinScan`, `PrintedNumberTrue`, `TimelyReportLands` |
| `clients_live` | 2 keys, both workers, one of them steady; 1 job; retry limit 1; 3 claims per worker; timeout 0, one tick; one late transaction at a time; no history | `EveryJobFinishes` |
| `readers` | 1 key in every role; 3 jobs, 2 addresses; limits -1, 0, 2, 9 | `TableWithinTotals`, `NoUnfinishedJobMissing`, `JobFitsAccount`, `ColumnsReadTrue` |
| `web` | 2 queues, the empty name and a name that is too long; 3 addresses, 2 of them listed; none or 2 old jobs in each queue, then one step of the cluster; 2 calls of `fetchQueue` and 2 of `fetchJobs` at a time; one switch of queues or failed request | `TypeOK`, `SpinnerStops`, `RowsOfOneQueue`, `ScreenWasTrue`, `Settles`, `RefreshAgain` |
| `doc_override`, `doc_address`, `doc_order`, `doc_fail`, `doc_parser` | small instances, `U8Max` = 255 | each refutes one sentence of a comment or of the README; see below |

Why the bounds are enough: three jobs over two addresses is the least that
closes an account and reuses its address while another job is open; two
keys are the least that have a worker lose a claim to another one and come back,
since each key is also authority, creator and worker; four claims (two by each)
exhaust the retries of one job with an expiry in between. In `core_lease` a
job's `retry_count` reaches the scaled largest `u8`, the clock passes the
deadline for every sign of the timeout, and six claims are enough to exhaust
every limit with expiries in between. In `accounts` a name is the first byte of
either number and both bytes of one of them, so that seeds without their fixed width or
without their tag do meet. In `clients` one late transaction is enough
for a command and its repetition to be under way together, which is the same race
as that of two producers (an instance with two producers and no late transactions
was checked as well), and a late report can meet a second claim of its
worker; without any one of its three exceptions `TimelyReportLands` is refuted there. In
`clients_live` the three claims are what the steady worker needs at most: one lost to
the timeout, one failure, and the last. In `readers` an address is closed and taken by a newer job while the
table is being fetched. In `web` two
rows are listed, so that the user can switch queues between them, and a third address
lies beyond the limit; one enqueue, finish or close is enough to make any answer,
statistics or row under way stale; two chains of fetches and two lists overlap, with
different names or different numbers of jobs. A failure and a
switch are combined, and an address is closed and used again, only outside the routine
run: all properties were also checked with `MaxDisturbed` = 2 and one call of each kind
at a time, and the invariants with one queue and four steps of the cluster. The
theorems below do without the bounds.

### Where the program and its documentation disagree

* `doc_fail` (a defect): for a retry limit of 255 every `fail_job` aborts,
  because the log line at `fail_job.rs:89` computes `max_retries + 1` in `u8`. The
  worker can only complete the job or wait for its timeout. No smaller limit has this
  problem: `core_lease` checks it (`FailureReportable`), and `FailuresAccepted` proves
  that the limit alone decides.
* `doc_override`: `enqueue_job.rs:39` says an override of 0 means the queue's
  default; it means no retries.
* `doc_address`: `lib.rs:66` says the seq argument must equal `next_job_seq`;
  nothing compares them. Numbers stay unique all the same (`SeqsUnique`), but a
  job can live at the address of another number, where the clients look for
  the other job.
* `doc_order`: `job.rs:35`, `job.rs:48` and the README's "Deterministic FIFO"
  promise an order of processing; `claim_job` takes any Pending job.
* `doc_parser` (a defect): the web dashboard skips 32 bytes for a worker that is
  None (`App.tsx:302`), although it quotes the account structure (`App.tsx:248`) and
  notes that the 32 bytes are there "if Some" (`App.tsx:294`). The Enqueued column of
  every Pending job comes from bytes of the result, in every reachable state
  (`EnqueueTimeAlwaysMisread` is a theorem). `ColumnsReadTrue` shows that
  the other displayed columns are right, and that the worker and the enqueue
  time are right for claimed and finished jobs, but only because the program does
  *not* clear `assigned_worker` as its comment says (`job.rs:57`).

One disagreement needs no run, because an invariant says the opposite: `job.rs:57`
promises an `assigned_worker` of None for finished jobs, and by `StatusFields` every
finished job has one (`StatusFieldsHold`).

Another one is a matter of words: `job.rs:51` describes `retry_count` as the number of
retries so far and the log at `fail_job.rs:73` prints it as such, but it counts
failures: a job that has failed for good shows `max_retries` + 1 (`RetryBudget`), one
more than the retries it had.

Two more observations, which no text of the repository contradicts: a command that
is repeated after a lost confirmation enqueues its job twice, since nothing
identifies the two; and an empty name leaves the previous queue on the web
dashboard, under a heading without a name.

## Fairness

There is none in the core: nothing in the program or in this repository obliges
anyone to submit a transaction, `expire_job` included, so only safety is claimed
of it. `FailureReportable` is as near to progress as the program alone comes: a
worker that holds a job *can* report its failure.

`EveryJobFinishes` (`LiveSpec`) is therefore conditional. Its fairness describes
people and the cluster, not code, and each part can be read off its name:
`ProcessFairness` (the wait for a confirmation ends, because the RPC library bounds
it; a transaction that is acceptable again and again is not lost every time),
`WorkerFairness` (the `Steady` workers claim what waits and report what they hold),
`KeeperFairness` (somebody calls `expire_job`; time passes). Other workers have no
fairness at all: they may stop at any point of a claim. The property excuses a
job only if no steady worker is active any more, or if the bounded clock ends
before the job's timeout (`OutOfTime`).

A late transaction needs no fairness: it may be executed at any time, or stay under
way for ever.

`Settles` and `RefreshAgain` in `Dashboard` use weak fairness for each request and each
list (an HTTP request is answered or fails, a ready callback runs) and for the interval,
and strong fairness for renders and timers: these can only be held up by the model's
bounds on calls, which a fair event loop does not have. The user, the cluster
and failures are not fair; all are bounded, so they become quiet, and `Settles`
says what the screen must look like from then on. `RefreshAgain` says of every time
that the spinner will be off once more, which is all the code provides: each answer
turns it off, and the effect of that answer turns it on again.

## Theorems

`tlapm` on each of the eight proof modules checks them. Those of the program hold
for every number of keys, addresses and jobs, every retry limit and timeout, and without
bounds on the clock (`MaxSeq`, `MaxClaims`, `MaxTime` are arbitrary). They assume
only the named assumptions of `SolQueue`: `None` is neither a key nor a number,
the arguments have their types, and there are finitely many keys (32 bytes each) and
addresses (there are 2^64; cardinalities and sums need it). Those about addresses
assume of `Accounts` that names are strings of bytes, numbers fit eight bytes and all
keys have one length.

The argument is a chain of inductive invariants:

1. `TypeOK` is inductive by itself, with one lemma per record update.
2. `StatusFields` is inductive relative to `TypeOK`. It is the hinge of the rest:
   it says that a job being processed has a registered worker and a start, and
   that no job exists before its queue.
3. `RetryBudget` needs only the types. `TimestampsOrdered`, `SeqsUnique`,
   `OpenJobsCounted` and `ClaimsAccounted` are inductive relative to `TypeOK` and
   `StatusFields`: the creation of the queue resets all counters, which
   is harmless only because no job can exist before it; a worker's registration
   resets its record, harmless only because an unregistered key holds no job; a
   completion closes an interval only because a start is there.
4. The counting invariants reduce to how one step changes a finite set
   (`OpenJobs`, `Held(k)`, `FinishedBy(k, status)`): by one element or not at all.
   `CreditsWhereDue` is inductive relative to the types and `StatusFields`; its
   completion step is where the guard "the signer is the assigned worker" is needed.
5. `CreditsMatchTotals` and `RetriesOnRecord` are about sums over all keys and all
   addresses. `SumTheorems` proves what is needed of a sum over a finite set: the
   fold that defines it does not depend on the order of its choices, so any one
   element can be split off (`SumRemove`), and a change at one argument changes
   the sum by as much (`SumUpdate`). The induction is by a smallest
   counterexample: inclusion of finite sets is well-founded, and the least
   set at which a statement fails is not empty. The two invariants then need that
   a key without a registry account has no credit (`NoCreditUnregistered`: a
   registration must not wipe any out), and that nothing is counted before the
   queue exists (`NothingIssued`).
6. `FailuresAccepted`: `FailJob` is its checks and then an assignment to every
   account (`FailJobParts`), and on every reachable state the checks of a worker
   that holds the job come down to a retry limit below 255. The checked addition to
   `retry_count` never gets in the way, because of `RetryBudget`.
7. `ClaimNotStolen`, `DeactivationFinal` and `LeaseHonoured` hold of every step
   from a state that satisfies 1 and 2.
8. `Refinement`: an instruction maps to `Submit`, `Claim`, `Release`, `Finish` or a
   stutter of `JobQueue`. `SeqsUnique` is what makes a number identify an
   account, so that releasing one job does not release another.
   `JobQueueProofs` shows that the abstract queue keeps claims exclusive and
   finished jobs finished, and `JobsFinishOnce` carries the latter over to the
   program: a number that was finished never runs again at any address.

9. `LifeRefinement`: at every address at once, an instruction maps to a step of
   `JobLife` or to a stutter, so all that `JobLife` says of a job (the failures it may
   have, who may finish it, that a run ends early only after its timeout, that nothing
   of a closed job is left for the next) holds of the account. It needs that an
   address without an account is all zeros and that no account is older than the queue
   (`FreshAddresses`, inductive relative to the types),
   that a job in process has a start (`StatusFields`), and that the timeout is fixed
   before the first job.

`FailJobEffect` states the outcome of the most intricate instruction once, field
by field, for all of these.

About the addresses (`AccountsProofs`): two joined strings of seeds are equal only if
name and last seed are, because the tag in front is fixed and the last seed has a known
length (`DerivedInjective`; a number's eight bytes determine it, `LeBytesInjective`,
byte by byte from the highest), and the tags differ in their first byte:
`AddressesApart`. Then `FoundWhereDerived` is inductive with the types, and
`QueuesAloneHold` follows: a step of one queue is the same step of that queue alone
(`AloneStep`) and leaves every address of the others as it is (`StepStaysHome`). So the
worker key that `register_worker` and `deactivate_worker` take unchecked is the
record's, as their comments say, and the `InvalidQueue` constraints reject nothing.

About the compositions:

* `ClientsUseTheProgram` and `DashboardOnlyReads` show `CSpec => Spec` and
  `DSpec => Spec`: every step of a client is a step of the program or leaves it
  alone, so all of the theorems above hold for them without another proof.
* `JobsWithinScanHolds` needs that every number a process has read, and that is
  still on its way in a transaction, is at most `next_job_seq`
  (`ReadsWithinScan`): the counter never goes back, so an old read stays below it.
* `PrintedNumberTrueHolds` adds that an address is never above its job's number,
  and counts: as many accounts as numbers, at distinct numbers, leave no room for
  a difference.
* `TimelyReportLandsHolds` strengthens the property with what the history of a
  transaction means (`ReportInv`). A step leaves a claim as it is, ends it by its
  worker's own report, which the history then has under the claim's number, or comes
  after the timeout (`ClaimEnds`). While the claim runs, only a deactivation can refuse
  the report, or for a failure a retry limit of 255 (`RunningClaimReportable`, which
  rests on `FailuresAccepted`).
* `NoUnfinishedJobMissingHolds` rests on how a job ages (`JobsAge`): an account that
  is open now was open before under the same number, or is newer than the totals.
* `TableWithinTotalsHolds` counts: the unfinished rows are, by their numbers, part of
  a set `U` of jobs that were open when the totals were read and were as many
  as the backlog (`TableInv`). It holds for every limit.
* `JobFitsAccountHolds` and `ColumnsReadTrueHolds` follow from `StatusFields`, which
  says what optional fields a job has. An offset is a sum, so layouts that begin
  alike have the same offsets as long as they do (`SamePrefix`, `SameBytes`): the
  parser's layout is the program's up to the worker's tag, and up to the enqueue
  time for a job with a worker. Where the two part, the offsets are 32 bytes apart:
  `EnqueueTimeAlwaysMisread`.
* `SpinnerStopsHolds` is inductive with the types. `RowsOfOneQueueHolds` and
  `ScreenWasTrueHolds` carry the property over to what is not yet shown: the rows that
  calls have collected (`ListsOfOneQueue`, `ListsWereTrue`) and the answers under way
  (`StatsWereTrue`). The latter rests on what only grows on the cluster although
  addresses are used again: numbers are not taken back, no two accounts of a queue carry
  the same (`JobsNumbered`), and a job that has finished is open nowhere from then on
  (`ClusterGrows`). They hold for any number of queues,
  addresses, jobs, overlapping calls, failures and switches.

Only model-checked: `FailureReportable`, which is stated with `ENABLED`, about which
this prover cannot reason (`FailuresAccepted` is the same statement about the guards,
spelled out), and the liveness properties `EveryJobFinishes`, `Settles` and
`RefreshAgain`. The
`doc_` runs refute sentences by a behaviour; that such a behaviour exists is for TLC
to show.

## Not modelled

* Events and error codes: write-only, no state depends on them.
* The CLI's `status` command: one read and its printing. `client/cli/src/index.js` is
  the compiled form of `index.ts`.
* Text: names, job types, payloads, reasons, their padding, trimming and truncation,
  and the layout of `WorkerRegistry` (all of fixed width, read by no hand-written
  parser).
* The web dashboard's appearance: styles, icons, links, the time of the last update
  and the four counters above the table, which are functions of the rows.
* The test suite and the build files (`overflow-checks` is used, above); rent and
  fees (a producer who cannot pay is a rejected transaction).

## What is left

* A larger instance of `clients` with two producers and two workers apart: the
  theorems cover it, its state space is too large for a routine run.
* `Settles` with a failure and a switch of queues in one behaviour *and* several calls
  of each kind at a time.
* `OneQueue` and `SolQueue` are joined by an argument, not by a refinement: the first
  says that the accounts of a queue are changed by its own instructions only, the second
  what these do with them.
