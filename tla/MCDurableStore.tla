--------------------------- MODULE MCDurableStore ---------------------------
(* Instances of DurableStore for TLC.                                      *)
EXTENDS DurableStore, TLC

Interchangeable == Permutations(Task) \cup Permutations(Name)
                     \cup Permutations(Key) \cup Permutations(Worker)
=============================================================================
