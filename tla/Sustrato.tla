------------------------------ MODULE Sustrato ------------------------------
(***************************************************************************)
(* HyperNEAT's substrate (HyperNeat.cpp, Substrate.cpp, SpatialNode.cpp):  *)
(* layers of nodes whose connections a CPPN draws, layer by layer, and     *)
(* which is then evaluated layer by layer.                                 *)
(*                                                                         *)
(* The substrate is built once; each organism rewires it.  A weight, and   *)
(* so whether a pair of nodes is connected, is whatever the CPPN says: it  *)
(* keeps past values, and need not say the same twice.  An output is the   *)
(* set of the inputs it was computed from, each with its evaluation.       *)
(***************************************************************************)
EXTENDS Integers, FiniteSets

CONSTANTS
    Nodos, NCAPAS,
    Capa, Tipo,         \* sheet_id, from 1; node_type
    SALIDAS,            \* outputs of the CPPNs, all from one seed
    MAX_OCULTAS,        \* bound: hidden nodes on the last row of a CPPN
    Organismos,         \* positions of the population
    MAX_RONDAS          \* bound: evaluations

ENTRADA == 0
SALIDA == 2

ASSUME SustratoSupuestos ==
    /\ NCAPAS \in Nat /\ Capa \in [Nodos -> 1 .. NCAPAS] /\ Tipo \in [Nodos -> {ENTRADA, 1, SALIDA}]
    /\ SALIDAS \in Nat \ {0} /\ MAX_OCULTAS \in Nat /\ MAX_RONDAS \in Nat

VARIABLES
    inputs_nodes,       \* [node -> [node -> how many times it is an input]]
    active, output,
    OkConnections,
    cppn_neat,          \* whether the constructor made a Population
    champion, organisms,    \* getNEATOutputSize of each
    multiple,           \* whether each layer has an output of the CPPN to itself
    paso, capa,         \* what runs, and its layer
    imprime,            \* whether the functions are to be printed after it
    impresas,           \* output node -> inputs in the function printed for it
    pedidas,            \* history: the pairs the CPPN connected in this creation
    ronda               \* history: evaluations

sustrato == <<inputs_nodes, active, OkConnections, pedidas>>
poblacion == <<cppn_neat, champion, organisms>>
vars == <<sustrato, output, poblacion, multiple, paso, capa, imprime, impresas, ronda>>

\* The size counts the nodes of the last row; a hidden one may be among them.
Tamanos == SALIDAS .. SALIDAS + MAX_OCULTAS

Init ==
    /\ inputs_nodes = [n \in Nodos |-> [m \in Nodos |-> 0]]
    /\ active = [n \in Nodos |-> Tipo[n] = ENTRADA]
    /\ output = [n \in Nodos |-> {}]
    /\ OkConnections = FALSE /\ cppn_neat \in BOOLEAN
    /\ champion = SALIDAS /\ organisms = [o \in Organismos |-> SALIDAS]
    /\ multiple = FALSE /\ paso = "libre" /\ capa = 1
    /\ imprime = FALSE /\ impresas = [n \in Nodos |-> {}]
    /\ pedidas = {} /\ ronda = 0

EnCapa(i) == {n \in Nodos : Capa[n] = i}

-----------------------------------------------------------------------------
(* CreateSubstrateConnections                                              *)

\* "The layout number does not correspond to the cppn output number"
NoCorresponde(tam) == tam > 1 /\ (NCAPAS <= 2 \/ tam # NCAPAS - 1)

\* the loop starts before the first layer
MutCorresponde(tam) ==
    /\ multiple' = (tam > 1)
    /\ capa' = 0
    /\ paso' = IF NoCorresponde(tam) THEN "libre" ELSE "crea"

\* Whatever organism is asked for, it is the champion's size that is looked at.
Corresponde(tam) ==
    /\ multiple' = (tam > 1)
    /\ capa' = 1
    /\ IF NCAPAS = 0 \/ NoCorresponde(tam)
       THEN paso' = IF imprime' THEN "imprime" ELSE "libre"
       ELSE paso' = "crea"

\* Without a population champion is read through a pointer nobody assigned.
Crea ==
    /\ paso = "libre"
    /\ OkConnections' = FALSE /\ pedidas' = {}
    /\ \/ cppn_neat /\ imprime' \in BOOLEAN /\ Corresponde(champion)
       \/ ~cppn_neat /\ UNCHANGED imprime /\ \E tam \in Tamanos : Corresponde(tam)
       \/ ~cppn_neat /\ paso' = "aborta" /\ UNCHANGED <<multiple, capa, imprime>>
    /\ UNCHANGED <<inputs_nodes, active, output, poblacion, impresas, ronda>>

\* A node of type input is never cleared of being active.
Limpia(n) == Tipo[n] = ENTRADA

\* the old inputs stay
MutEntradasNuevas(n, E) ==
    [m \in Nodos |-> inputs_nodes[n][m] + IF <<m, n>> \in E /\ Tipo[n] # ENTRADA THEN 1 ELSE 0]

\* AddInputToNode refuses a node of type input
EntradasNuevas(n, E) ==
    [m \in Nodos |-> IF <<m, n>> \in E /\ Tipo[n] # ENTRADA THEN 1 ELSE 0]

\* which output of the CPPN layer i + 1 is drawn from, the first being 1
Indice(i) == IF multiple THEN i ELSE 1

\* The next layer is cleared and gets the inputs the CPPN gives it; an output the
\* organism does not have throws.
ConectaCapa ==
    LET pares == EnCapa(capa) \X EnCapa(capa + 1)
    IN  /\ paso = "crea" /\ capa < NCAPAS
        /\ \/ /\ Indice(capa) > SALIDAS /\ pares # {}
              /\ paso' = "aborta"
              /\ UNCHANGED <<inputs_nodes, active, pedidas, capa>>
           \/ /\ Indice(capa) <= SALIDAS \/ pares = {}
              /\ \E E \in SUBSET pares :
                   /\ inputs_nodes' = [n \in Nodos |-> IF Capa[n] = capa + 1 THEN EntradasNuevas(n, E)
                                                       ELSE inputs_nodes[n]]
                   /\ active' = [n \in Nodos |->
                                   IF Capa[n] = capa + 1
                                   THEN Limpia(n) \/ \E m \in Nodos : <<m, n>> \in E /\ active[m]
                                   ELSE active[n]]
                   /\ pedidas' = pedidas \cup E
              /\ capa' = capa + 1
              /\ UNCHANGED paso
    /\ UNCHANGED <<output, OkConnections, poblacion, multiple, imprime, impresas, ronda>>

TerminaCrea ==
    /\ paso = "crea" /\ capa >= NCAPAS
    /\ OkConnections' = (\E n \in Nodos : Tipo[n] = SALIDA /\ active[n])
    /\ paso' = IF imprime THEN "imprime" ELSE "libre"
    /\ UNCHANGED <<inputs_nodes, active, pedidas, output, poblacion, multiple, capa, imprime,
                   impresas, ronda>>

-----------------------------------------------------------------------------
(* EvaluateSubstrateConnections                                            *)

\* the connections are not looked at
MutListo == TRUE

Listo == OkConnections

Evalua ==
    /\ paso = "libre" /\ NCAPAS > 0 /\ Listo /\ ronda < MAX_RONDAS
    /\ ronda' = ronda + 1
    /\ paso' = "evalua" /\ capa' = 1
    /\ UNCHANGED <<sustrato, output, poblacion, multiple, imprime, impresas>>

EvaluaCapa ==
    /\ paso = "evalua" /\ capa <= NCAPAS
    /\ output' = [n \in Nodos |->
                    IF Capa[n] # capa THEN output[n]
                    ELSE (IF Tipo[n] = ENTRADA THEN {<<n, ronda>>} ELSE {})
                           \cup UNION {output[m] : m \in {m \in Nodos : inputs_nodes[n][m] > 0}}]
    /\ capa' = capa + 1
    /\ UNCHANGED <<sustrato, poblacion, multiple, paso, imprime, impresas, ronda>>

TerminaEvalua ==
    /\ paso = "evalua" /\ capa > NCAPAS
    /\ paso' = "libre" /\ capa' = 1
    /\ UNCHANGED <<sustrato, output, poblacion, multiple, imprime, impresas, ronda>>

-----------------------------------------------------------------------------
(* The population, and the functions printed                               *)

\* An organism at least as good as the champion takes its place.
HyperNeatFitness ==
    /\ cppn_neat /\ paso = "libre"
    /\ \E o \in Organismos : champion' = organisms[o]
    /\ UNCHANGED <<sustrato, output, cppn_neat, organisms, multiple, paso, capa, imprime, impresas, ronda>>

\* epoch: new organisms, and a champion that may be one of those that were
HyperNeatEvolve ==
    /\ cppn_neat /\ paso = "libre"
    /\ champion' \in {champion} \cup {organisms[o] : o \in Organismos}
    /\ organisms' \in [Organismos -> Tamanos]
    /\ UNCHANGED <<sustrato, output, cppn_neat, multiple, paso, capa, imprime, impresas, ronda>>

\* the inputs in the expression GetNodeFunction writes, node within node
Expresion ==
    LET expresion[n \in Nodos] ==
          IF Tipo[n] = ENTRADA THEN {n}
          ELSE UNION {expresion[m] : m \in {m \in Nodos : inputs_nodes[n][m] > 0}}
    IN  expresion

\* GetHyperNeatOutputFunctions does not look at what creation returned.
Imprime ==
    /\ paso = "imprime"
    /\ impresas' = [n \in Nodos |-> IF Tipo[n] = SALIDA THEN Expresion[n] ELSE {}]
    /\ imprime' = FALSE /\ paso' = "libre"
    /\ UNCHANGED <<sustrato, output, poblacion, multiple, capa, ronda>>

Next ==
    \/ Crea \/ ConectaCapa \/ TerminaCrea
    \/ Evalua \/ EvaluaCapa \/ TerminaEvalua
    \/ HyperNeatFitness \/ HyperNeatEvolve \/ Imprime

Spec == Init /\ [][Next]_vars

-----------------------------------------------------------------------------
(* Properties                                                              *)

\* The program is in one of its loops, at one of the layers.
TypeOK ==
    /\ inputs_nodes \in [Nodos -> [Nodos -> Nat]]
    /\ active \in [Nodos -> BOOLEAN]
    /\ output \in [Nodos -> SUBSET (Nodos \X (0 .. MAX_RONDAS))]
    /\ OkConnections \in BOOLEAN /\ cppn_neat \in BOOLEAN /\ multiple \in BOOLEAN /\ imprime \in BOOLEAN
    /\ champion \in Tamanos /\ organisms \in [Organismos -> Tamanos]
    /\ paso \in {"libre", "crea", "evalua", "imprime", "aborta"}
    /\ capa \in 1 .. NCAPAS + 1
    /\ impresas \in [Nodos -> SUBSET Nodos]
    /\ pedidas \subseteq Nodos \X Nodos
    /\ ronda \in 0 .. MAX_RONDAS

\* the input nodes from which a node is reached by what the CPPN connected
Origenes ==
    LET origenes[n \in Nodos] ==
          IF Tipo[n] = ENTRADA THEN {n}
          ELSE UNION {origenes[m] : m \in {m \in Nodos : <<m, n>> \in pedidas}}
    IN  origenes

\* A substrate that may be evaluated has the connections of the organism it was
\* last created from, each once, and no other: nothing of an earlier organism,
\* or of a creation that failed half way, is left in it.  A node is active if a
\* signal comes to it from some input, which is what creation takes it for.
ConexionesDelUltimo ==
    OkConnections =>
        \A n \in Nodos :
            /\ \A m \in Nodos :
                 inputs_nodes[n][m] = IF <<m, n>> \in pedidas /\ Tipo[n] # ENTRADA THEN 1 ELSE 0
            /\ active[n] <=> Origenes[n] # {}

\* An evaluation leaves in each node a value of all the inputs that reach it, of
\* this evaluation and no other: no layer reads what the one before it wrote the
\* last time, or for another organism.
SalidaFresca ==
    paso = "evalua" =>
        \A n \in Nodos : Capa[n] < capa => output[n] = Origenes[n] \X {ronda}

\* What is printed for an output is a function of the inputs that reach it in
\* the champion's substrate, if that could be created.
FuncionesDelCampeon ==
    [][Imprime /\ OkConnections =>
         \A n \in Nodos : Tipo[n] = SALIDA => impresas'[n] = Origenes[n]]_vars

\* "The layout number does not correspond to the cppn output number" is not
\* said of CPPNs whose output number does.
CreaSiCorresponde ==
    [][Crea /\ cppn_neat /\ SALIDAS = NCAPAS - 1 => paso' = "crea"]_vars

=============================================================================
