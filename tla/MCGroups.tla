------------------------------ MODULE MCGroups -------------------------------
(* Instances of Groups for TLC. *)
EXTENDS Groups

CONSTANTS w1, w2

MCSlots == {1}
MCWorkers == {w1, w2}
=============================================================================
