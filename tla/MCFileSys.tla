------------------------------ MODULE MCFileSys -------------------------------
(* FileSys for TLC. *)
EXTENDS FileSys
===============================================================================
