--------------------------- MODULE MCChatSectors -----------------------------
(* Instance of ChatSectors for TLC. *)
EXTENDS ChatSectors, TLC

CONSTANTS w1, w2, s1, s2

MCWorkers == {w1, w2}
MCSessions == {s1, s2}
Symmetry == Permutations(MCWorkers) \cup Permutations(MCSessions)
=============================================================================
