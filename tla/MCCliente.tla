----------------------------- MODULE MCCliente ------------------------------
(* Instances of Cliente for TLC. *)
EXTENDS Cliente

CONSTANTS h1, h2
=============================================================================
