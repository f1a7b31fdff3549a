---------------------------- MODULE JobQueueProofs ----------------------------
(***************************************************************************)
(* What the abstract job queue promises follows from its specification;    *)
(* with the refinement proved in SolQueueProofs the program promises it    *)
(* too.                                                                    *)
(***************************************************************************)
EXTENDS JobQueue, TLAPS

LEMMA NextClaimsExclusive == ClaimsExclusive /\ [Next]_vars => ClaimsExclusive'
<1> SUFFICES ASSUME ClaimsExclusive, [Next]_vars PROVE ClaimsExclusive'
  OBVIOUS
<1>1. CASE Submit
  <2>1. issued' \in Nat /\ Numbers' = Numbers \cup {issued} /\ issued \notin Numbers
    BY <1>1 DEF Submit, ClaimsExclusive, Numbers
  <2> QED
    BY <1>1, <2>1 DEF Submit, ClaimsExclusive
<1>2. ASSUME NEW n \in Numbers, NEW w \in Workers, Claim(n, w)
      PROVE  ClaimsExclusive'
  BY <1>2 DEF Claim, ClaimsExclusive, Numbers
<1>3. ASSUME NEW n \in Numbers, NEW w \in Workers, Release(n, w)
      PROVE  ClaimsExclusive'
  BY <1>3 DEF Release, ClaimsExclusive, Numbers
<1>4. ASSUME NEW n \in Numbers, NEW w \in Workers, Finish(n, w)
      PROVE  ClaimsExclusive'
  BY <1>4 DEF Finish, ClaimsExclusive, Numbers
<1>5. CASE UNCHANGED vars
  BY <1>5 DEF vars, ClaimsExclusive, Numbers
<1> QED
  BY <1>1, <1>2, <1>3, <1>4, <1>5 DEF Next

\* Only issued numbers are in use, and a job is waiting or run by at most one
\* worker: the promise behind claim_job's anti-double-claim constraint.
THEOREM Exclusive == Spec => []ClaimsExclusive
<1>1. Init => ClaimsExclusive
  BY DEF Init, ClaimsExclusive, Numbers
<1> QED
  BY <1>1, NextClaimsExclusive, PTL DEF Spec

\* A job that completed or failed for good is never waiting or run again.
THEOREM FinishedIsFinal == Spec => FinishedForever
<1>1. ClaimsExclusive /\ [Next]_vars => Finished \subseteq Finished'
  <2> SUFFICES ASSUME ClaimsExclusive, Next PROVE Finished \subseteq Finished'
    BY DEF vars, Finished, Numbers
  <2>1. CASE Submit
    <3>1. Numbers' = Numbers \cup {issued} /\ issued \notin Numbers
      BY <2>1 DEF Submit, ClaimsExclusive, Numbers
    <3> QED
      BY <2>1, <3>1 DEF Submit, Finished
  <2>2. ASSUME NEW n \in Numbers, NEW w \in Workers, Claim(n, w)
        PROVE  Finished \subseteq Finished'
    BY <2>2 DEF Claim, Finished, Numbers
  <2>3. ASSUME NEW n \in Numbers, NEW w \in Workers, Release(n, w)
        PROVE  Finished \subseteq Finished'
    BY <2>3 DEF Release, Finished, Numbers
  <2>4. ASSUME NEW n \in Numbers, NEW w \in Workers, Finish(n, w)
        PROVE  Finished \subseteq Finished'
    BY <2>4 DEF Finish, Finished, Numbers
  <2> QED
    BY <2>1, <2>2, <2>3, <2>4 DEF Next
<1> QED
  BY <1>1, Exclusive, PTL DEF Spec, FinishedForever
=============================================================================
