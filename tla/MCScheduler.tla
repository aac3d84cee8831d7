----------------------------- MODULE MCScheduler ------------------------------
(* Scheduler for TLC.  Three threads; priorities 0..5, two to a level, so   *)
(* that aging by 1 moves a thread through a level in two steps.             *)
EXTENDS Scheduler, TLC

(* Forked threads are interchangeable as long as no liveness is checked. *)
Symmetry == Permutations(Threads \ {Main})
===============================================================================
