---------------------------- MODULE MCLiveResponse ----------------------------
(* LiveResponse for TLC.                                                   *)
EXTENDS LiveResponse, TLC

ProcessSymmetry == Permutations(Processes)
=============================================================================
