----------------------------- MODULE MCOverlay ------------------------------
(* Overlay for TLC. *)
EXTENDS Overlay, TLC

ProcSymmetry == Permutations(Procs)
=============================================================================
