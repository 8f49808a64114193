----------------------------- MODULE MCSendPath -----------------------------
(* Instances of SendPath for TLC. *)
EXTENDS SendPath

CONSTANTS s1, s2, w1, w2, c1, m1, m2, m3

MCSenders == {s1, s2}
MCWorkers == {w1, w2}
MCClosers == {c1}
MCMsgs == {m1, m2, m3}
MCTwoMsgs == {m1, m2}

\* Threads of one kind and messages are alike.
Symmetry == Permutations(MCSenders) \cup Permutations(MCWorkers) \cup Permutations(MCMsgs)
=============================================================================
