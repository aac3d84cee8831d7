----------------------------- MODULE MCPostOffice -----------------------------
(* PostOffice for TLC: two clients on one machine, which send to themselves *)
(* and to another machine.                                                  *)
EXTENDS PostOffice, TLC

CONSTANT near

AllNear == [c \in Clients |-> near]
===============================================================================
