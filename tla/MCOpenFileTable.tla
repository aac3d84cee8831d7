--------------------------- MODULE MCOpenFileTable ----------------------------
(* OpenFileTable for TLC. *)
EXTENDS OpenFileTable, TLC

Symmetry == Permutations(Threads) \cup Permutations(Files)
===============================================================================
