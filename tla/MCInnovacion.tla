---------------------------- MODULE MCInnovacion ----------------------------
(* Instances of Innovacion, with its genomes loaded and evaluated, for TLC:  *)
(* the genome the population starts from.                                    *)
EXTENDS Carga, TLC

Conexion(a, b) == [in |-> a, out |-> b, enable |-> TRUE]

\* one input, two outputs
TresNodos == 0 :> 0 @@ 1 :> 1 @@ 2 :> 1
DosConexiones == 0 :> Conexion(0, 1) @@ 1 :> Conexion(0, 2)
=============================================================================
