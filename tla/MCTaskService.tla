--------------------------- MODULE MCTaskService ---------------------------
(* Instances of the module task service for TLC.                           *)
EXTENDS TaskService, TLC

Symmetry == Permutations(Call)
=============================================================================
