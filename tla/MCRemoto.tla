------------------------------ MODULE MCRemoto ------------------------------
(* Instance of Remoto for TLC. *)
EXTENDS Remoto

CONSTANTS c1, o1, o2
=============================================================================
