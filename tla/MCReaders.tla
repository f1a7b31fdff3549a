------------------------------ MODULE MCReaders ------------------------------
(***************************************************************************)
(* Those who read the accounts, for TLC: the CLI's dashboard command and   *)
(* the parser of the web dashboard, beside the same program.               *)
(***************************************************************************)
EXTENDS CliDashboard, JobLayout

\* Zero, one limit below the number of jobs, one above it, and a negative one.
Limits == {0, 2, 9, -1}
=============================================================================
