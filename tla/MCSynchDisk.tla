----------------------------- MODULE MCSynchDisk ------------------------------
(* SynchDisk for TLC. *)
EXTENDS SynchDisk, TLC

(* The threads are interchangeable as long as no liveness is checked. *)
Symmetry == Permutations(Threads) \cup Permutations(Data)

===============================================================================
