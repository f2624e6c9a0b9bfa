---------------------------- MODULE MCDelegation ----------------------------
(* A small instance of Delegation: three delegate calls, enough for a      *)
(* chain that reaches the depth cap and for siblings that overlap.         *)
EXTENDS Delegation, TLC

Symmetry == Permutations(Task)
=============================================================================
