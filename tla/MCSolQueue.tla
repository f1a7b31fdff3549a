------------------------------- MODULE MCSolQueue -------------------------------
(***************************************************************************)
(* Instances of SolQueue for TLC.                                          *)
(***************************************************************************)
EXTENDS SolQueueRefinement, TLC

\* Keys are only compared for equality and no property singles one out.
KeySymmetry == Permutations(Keys)

AnyTimeout == {-1, 0, 1}

=============================================================================
