------------------------------ MODULE MCCapture ------------------------------
(* Capture for TLC.                                                        *)
EXTENDS Capture, TLC

Symmetry == Permutations(Explorers) \cup Permutations(Tables)
=============================================================================
