------------------------------- MODULE JobLife -------------------------------
(***************************************************************************)
(* What the program promises about one job, as long as its account exists: *)
(* the state machine of the README, with the terms that were fixed when it *)
(* was enqueued, the worker that has it and since when, and the failures   *)
(* that count against it. Addresses, registries and totals do not appear.  *)
(***************************************************************************)
EXTENDS Integers

CONSTANTS Workers, Nothing

VARIABLES
  phase,     \* where the job is in the state machine
  terms,     \* its number, creator, priority, limit and time, once enqueued
  failures,  \* how often a worker has reported that it failed
  run,       \* who has it and since when; for a finished job, who had it last
  timeout,   \* how long a worker can be sure to keep a job
  clock

vars == <<phase, terms, failures, run, timeout, clock>>

Init ==
  /\ phase = "NoAccount" /\ terms = Nothing /\ failures = 0 /\ run = Nothing
  /\ timeout \in Int /\ clock \in Nat

Enqueue ==
  /\ phase = "NoAccount"
  /\ phase' = "Pending" /\ terms'.enqueued_at = clock
  /\ UNCHANGED <<failures, run, timeout, clock>>

Claim(w) ==
  /\ phase = "Pending"
  /\ phase' = "Processing" /\ run' = [worker |-> w, since |-> clock]
  /\ UNCHANGED <<terms, failures, timeout, clock>>

Complete ==
  /\ phase = "Processing"
  /\ phase' = "Completed"
  /\ UNCHANGED <<terms, failures, run, timeout, clock>>

\* Compared on the failures before this one; fail_job counts it first.
Fail ==
  /\ phase = "Processing"
  /\ failures' = failures + 1
  /\ IF failures < terms.max_retries
     THEN phase' = "Pending" /\ run' = Nothing
     ELSE phase' = "Failed" /\ UNCHANGED run
  /\ UNCHANGED <<terms, timeout, clock>>

TimeOut ==
  /\ phase = "Processing" /\ clock > run.since + timeout
  /\ phase' = "Pending" /\ run' = Nothing
  /\ UNCHANGED <<terms, failures, timeout, clock>>

\* The account is closed: nothing of the job is left for the next one.
Remove ==
  /\ phase \in {"Completed", "Failed"}
  /\ phase' = "NoAccount" /\ terms' = Nothing /\ failures' = 0 /\ run' = Nothing
  /\ UNCHANGED <<timeout, clock>>

\* The timeout is settled before there is a job that it applies to.
Configure ==
  /\ phase = "NoAccount"
  /\ timeout' \in Int
  /\ UNCHANGED <<phase, terms, failures, run, clock>>

Wait ==
  /\ clock' > clock
  /\ UNCHANGED <<phase, terms, failures, run, timeout>>

Next ==
  \/ Enqueue \/ Complete \/ Fail \/ TimeOut \/ Remove \/ Configure \/ Wait
  \/ \E w \in Workers : Claim(w)

Spec == Init /\ [][Next]_vars
=============================================================================
