------------------------ MODULE MCEventLogCollection ------------------------
(* Instances of EventLogCollection for TLC.                                *)
EXTENDS EventLogCollection, TLC

CollectorSymmetry == Permutations(Collectors) \cup Permutations(Logs)
=============================================================================
