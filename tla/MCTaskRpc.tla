----------------------------- MODULE MCTaskRpc -----------------------------
(* Small instances of TaskRpc for TLC. *)
EXTENDS TaskRpc, TLC

Symmetry == Permutations(Conn) \cup Permutations(Owner)
====
