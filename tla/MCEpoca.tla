------------------------------- MODULE MCEpoca -------------------------------
(* Instances of Epoca for TLC: genomes on a line, near if neighbours.        *)
EXTENDS Epoca

CONSTANT NGENOMAS

Puntos == 1 .. NGENOMAS
Vecinos == {gh \in Puntos \X Puntos : gh[1] - gh[2] \in -1 .. 1}
=============================================================================
