-------------------------- MODULE MCResponseActions --------------------------
(* Instance of ResponseActions for TLC.                                     *)
EXTENDS ResponseActions, TLC

ProcSymmetry == Permutations(Procs)
=============================================================================
