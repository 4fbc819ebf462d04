--------------------------- MODULE MCEvalServer ---------------------------
(* Instances of EvalServer for TLC. *)
EXTENDS EvalServer

CONSTANTS h1, h2

DosHilos == {h1, h2}

UnHilo == {h1}

SoloHayOrganismos == {"HayOrganismosNuevos"}

NingunEspurio == {}
=============================================================================
