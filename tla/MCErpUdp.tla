------------------------------ MODULE MCErpUdp ------------------------------
(* Instances of ErpUdp for TLC: how many datagrams arrive in each direction. *)
EXTENDS ErpUdp

CONSTANTS c1, c2

DosClientes == {c1, c2}

UnCliente == {c1}

DosYUno == [s \in Sentidos |-> IF s = "Cliente" THEN 2 ELSE 1]

UnaDeIda == [s \in Sentidos |-> IF s = "Cliente" THEN 1 ELSE 0]
=============================================================================
