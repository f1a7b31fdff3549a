------------------------------ MODULE OneQueue ------------------------------
(***************************************************************************)
(* What is promised about queues that share one program: each behaves as   *)
(* if there were no other. It is why SolQueue can be about one queue.      *)
(***************************************************************************)
EXTENDS Accounts

\* One queue, with the accounts at its addresses.
Alone(n) == INSTANCE Accounts WITH
  Names <- {n},
  account <- [a \in Addresses(n) |-> account[a]]

\* For every queue, each step of the program is a step of that queue's own
\* instructions or leaves all accounts at its addresses as they are, whatever
\* the names of the others are. (Alone(n)!Spec for every name, its quantifier
\* moved into the box, where TLC can evaluate it.)
QueuesAlone ==
  /\ \A n \in Names : Alone(n)!Init
  /\ [][\A n \in Names : [Alone(n)!Next]_(Alone(n)!vars)]_vars
=============================================================================
