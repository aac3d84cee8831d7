----------------------------- MODULE MCSynchList ------------------------------
(* SynchList for TLC. *)
EXTENDS SynchList, TLC

(* The threads are interchangeable as long as no liveness is checked. *)
Symmetry == Permutations(Threads) \cup Permutations(Items)
===============================================================================
