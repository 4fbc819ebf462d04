---------------------------- MODULE Generaciones ----------------------------
(***************************************************************************)
(* What the evaluation server is for, without threads: the organisms of a  *)
(* generation are evaluated one by one, each once, and only when all of    *)
(* them have been is the generation replaced by the next one.              *)
(***************************************************************************)
EXTENDS Naturals

CONSTANTS
    Posiciones,       \* the positions of a generation
    GENERATIONS       \* how many times the generation is replaced

VARIABLES
    pendientes,       \* positions of the generation not evaluated yet
    generacion,       \* which generation it is
    enEpoca           \* the generation is being replaced

Init ==
    /\ pendientes = Posiciones
    /\ generacion = 0
    /\ enEpoca = FALSE

\* One organism is evaluated.
Evalua ==
    /\ ~enEpoca
    /\ \E o \in pendientes : pendientes' = pendientes \ {o}
    /\ UNCHANGED <<generacion, enEpoca>>

\* The fitness of the whole generation is consumed.
EmpiezaEpoca ==
    /\ ~enEpoca
    /\ pendientes = {}
    /\ generacion < GENERATIONS
    /\ enEpoca' = TRUE
    /\ pendientes' = Posiciones
    /\ UNCHANGED generacion

\* The next generation is there.
TerminaEpoca ==
    /\ enEpoca
    /\ generacion' = generacion + 1
    /\ enEpoca' = FALSE
    /\ UNCHANGED pendientes

Next == Evalua \/ EmpiezaEpoca \/ TerminaEpoca

Spec == Init /\ [][Next]_<<pendientes, generacion, enEpoca>>
=============================================================================
