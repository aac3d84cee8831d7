----------------------------- MODULE MCAddrSpace ------------------------------
(* AddrSpace for TLC: programs of two and three pages, one that is larger   *)
(* than memory, one that is not there.                                      *)
EXTENDS AddrSpace, TLC

Files == {<< 1, 0, 2 >>, << 1, 1, 3 >>, << 1, 0, 6 >>, NotFound}
Symmetry == Permutations(Programs)
===============================================================================
