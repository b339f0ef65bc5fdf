--------------------------- MODULE MCTaskIngress ---------------------------
(* Instances of the task ingress for TLC.                                  *)
EXTENDS TaskIngress

(* Three handlers: one due every minute, one now and then, and one whose   *)
(* name and expression are as long as they may be.                         *)
SomeCron ==
  <<[name_bytes |-> 5, expression_bytes |-> 9, minutes |-> 0 .. 4],
    [name_bytes |-> 5, expression_bytes |-> 9, minutes |-> {1, 4}],
    [name_bytes |-> 128, expression_bytes |-> 128, minutes |-> {1, 2}]>>
=============================================================================
