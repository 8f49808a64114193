---------------------------- MODULE MCNetServer -----------------------------
(* Instance of NetServer for TLC. *)
EXTENDS NetServer

CONSTANTS w1, w2, c1

MCWorkers == {w1, w2}
MCClosers == {c1}
=============================================================================
