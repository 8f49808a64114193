----------------------------- MODULE MCLFQueue ------------------------------
(* Instances of LFQueue for TLC. *)
EXTENDS LFQueue

CONSTANTS q1, q2, t1, t2, t3, n1, n2, n3, n4, n5

MCQueue == {q1}
MCQueues == {q1, q2}
MCThreads == {t1, t2, t3}
MCTwo == {t1, t2}
MCNodes == {n1, n2, n3, n4}
MCNodes5 == {n1, n2, n3, n4, n5}
=============================================================================
