------------------------------ MODULE Registro ------------------------------
(* What a registry of historical numbers promises: a structure keeps the   *)
(* number it was given, and no number is given to two structures.          *)
EXTENDS Functions

VARIABLE asignado       \* structure -> its number

Init == IsInjective(asignado)

Asigna ==
    /\ DOMAIN asignado \subseteq DOMAIN asignado'
    /\ \A p \in DOMAIN asignado : asignado'[p] = asignado[p]
    /\ IsInjective(asignado')

Spec == Init /\ [][Asigna]_asignado
=============================================================================
