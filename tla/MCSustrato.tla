----------------------------- MODULE MCSustrato -----------------------------
(* Instances of Sustrato for TLC: two inputs, one of them on the hidden       *)
(* layer, two hidden nodes and an output.                                     *)
EXTENDS Sustrato, TLC

CONSTANTS e1, e2, h1, h2, s1, o1

Neuronas == {e1, e2, h1, h2, s1}
TresCapas == e1 :> 1 @@ h1 :> 2 @@ h2 :> 2 @@ e2 :> 2 @@ s1 :> 3
Tipos == e1 :> ENTRADA @@ e2 :> ENTRADA @@ h1 :> 1 @@ h2 :> 1 @@ s1 :> SALIDA
=============================================================================
