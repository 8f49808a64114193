---------------------------- MODULE MCSessionRef ----------------------------
(* Instance of SessionRef for TLC. *)
EXTENDS SessionRef, TLC

CONSTANTS r1, r2, r3

MCRefs == {r1, r2, r3}
Symmetry == Permutations(MCRefs)
=============================================================================
