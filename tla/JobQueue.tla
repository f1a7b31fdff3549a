------------------------------- MODULE JobQueue -------------------------------
(***************************************************************************)
(* What the program promises its users, without accounts or addresses:     *)
(* jobs get consecutive numbers; a job waits, is run by one worker at a    *)
(* time, may go back to waiting any number of times, and finishes once.    *)
(***************************************************************************)
EXTENDS Integers

CONSTANT Workers

VARIABLES
  issued,   \* how many job numbers were issued: they are 0..issued-1
  waiting,  \* the numbers of the jobs waiting for a worker
  running   \* the pairs <<number, worker>> of the jobs being run

vars == <<issued, waiting, running>>

Numbers == 0..(issued - 1)

Finished == {n \in Numbers : n \notin waiting /\ \A w \in Workers : <<n, w>> \notin running}

Init == issued = 0 /\ waiting = {} /\ running = {}

Submit ==
  /\ issued' = issued + 1
  /\ waiting' = waiting \cup {issued}
  /\ UNCHANGED running

Claim(n, w) ==
  /\ n \in waiting
  /\ waiting' = waiting \ {n}
  /\ running' = running \cup {<<n, w>>}
  /\ UNCHANGED issued

\* A failure with retries left, or a timeout.
Release(n, w) ==
  /\ <<n, w>> \in running
  /\ running' = running \ {<<n, w>>}
  /\ waiting' = waiting \cup {n}
  /\ UNCHANGED issued

\* Completion or permanent failure.
Finish(n, w) ==
  /\ <<n, w>> \in running
  /\ running' = running \ {<<n, w>>}
  /\ UNCHANGED <<issued, waiting>>

Next ==
  \/ Submit
  \/ \E n \in Numbers, w \in Workers : Claim(n, w) \/ Release(n, w) \/ Finish(n, w)

Spec == Init /\ [][Next]_vars

-----------------------------------------------------------------------------
\* The numbers in use were issued, and a job is either waiting or run by at
\* most one worker.
ClaimsExclusive ==
  /\ issued \in Nat
  /\ waiting \subseteq Numbers
  /\ running \subseteq Numbers \X Workers
  /\ \A n \in Numbers, v, w \in Workers :
       <<n, v>> \in running => n \notin waiting /\ (<<n, w>> \in running => v = w)

\* A finished job stays finished.
FinishedForever == [][Finished \subseteq Finished']_vars
=============================================================================
