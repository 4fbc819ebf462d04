--------------------------- MODULE SustratoProofs ---------------------------
(***************************************************************************)
(* Theorems about Sustrato, for any nodes, layers, sizes and number of     *)
(* evaluations.                                                            *)
(***************************************************************************)
EXTENDS Sustrato, Ordenes

-----------------------------------------------------------------------------
(* What reaches a node                                                     *)

\* what a function on the nodes must be at n to follow the connections E
Reune(F, E, n) ==
    IF Tipo[n] = ENTRADA THEN {n} ELSE UNION {F[m] : m \in {m \in Nodos : <<m, n>> \in E}}

\* a set of nodes with e that no connection of E leaves
Cerrado(X, E, e) ==
    e \in X /\ \A m \in X, x \in Nodos : <<m, x>> \in E /\ Tipo[x] # ENTRADA => x \in X

\* the inputs from which each node is reached
Alcance(E) ==
    [n \in Nodos |-> {e \in Nodos : /\ Tipo[e] = ENTRADA
                                    /\ \A X \in SUBSET Nodos : Cerrado(X, E, e) => n \in X}]

LEMMA AlcanceCumple ==
    ASSUME NEW E
    PROVE  \A n \in Nodos : Alcance(E)[n] = Reune(Alcance(E), E, n)
<1> DEFINE A == Alcance(E)
<1>1. \A n, e \in Nodos : e \in A[n] <=> /\ Tipo[e] = ENTRADA
                                         /\ \A X \in SUBSET Nodos : Cerrado(X, E, e) => n \in X
  BY DEF Alcance
<1>2. \A n \in Nodos : A[n] \subseteq Nodos
  BY DEF Alcance
<1> HIDE DEF A
<1>3. ASSUME NEW n \in Nodos, Tipo[n] = ENTRADA PROVE A[n] = {n}
  <2>1. n \in A[n]
    BY <1>1, <1>3 DEF Cerrado
  <2>2. ASSUME NEW e \in A[n] PROVE e = n
    <3>1. e \in Nodos
      BY <1>2
    <3>2. CASE e # n
      <4> DEFINE X == Nodos \ {n}
      <4>1. Cerrado(X, E, e) /\ X \in SUBSET Nodos /\ n \notin X
        BY <3>1, <3>2, <1>3 DEF Cerrado
      <4> HIDE DEF X
      <4> QED BY <4>1, <3>1, <1>1
    <3> QED BY <3>2
  <2> QED BY <2>1, <2>2
<1>4. ASSUME NEW n \in Nodos, Tipo[n] # ENTRADA, NEW m \in Nodos, <<m, n>> \in E
      PROVE  A[m] \subseteq A[n]
  <2> SUFFICES ASSUME NEW e \in A[m] PROVE e \in A[n]
    OBVIOUS
  <2>1. e \in Nodos
    BY <1>2
  <2>2. ASSUME NEW X \in SUBSET Nodos, Cerrado(X, E, e) PROVE n \in X
    <3>1. m \in X
      BY <2>1, <2>2, <1>1
    <3> QED BY <3>1, <2>2, <1>4 DEF Cerrado
  <2> QED BY <2>1, <2>2, <1>1
<1>5. ASSUME NEW n \in Nodos, Tipo[n] # ENTRADA, NEW e \in A[n]
      PROVE  \E m \in Nodos : <<m, n>> \in E /\ e \in A[m]
  <2> SUFFICES ASSUME \A m \in Nodos : <<m, n>> \in E => e \notin A[m] PROVE FALSE
    OBVIOUS
  <2>1. e \in Nodos /\ Tipo[e] = ENTRADA
    BY <1>2, <1>1
  <2> DEFINE X == {x \in Nodos : e \in A[x] /\ x # n}
  <2>2. X \in SUBSET Nodos /\ n \notin X
    OBVIOUS
  <2>3. e \in X
    BY <2>1, <1>3, <1>5
  <2>4. ASSUME NEW m \in X, NEW x \in Nodos, <<m, x>> \in E, Tipo[x] # ENTRADA PROVE x \in X
    <3>1. m \in Nodos /\ e \in A[m]
      OBVIOUS
    <3>2. e \in A[x]
      BY <3>1, <2>4, <1>4
    <3>3. x # n
      BY <3>1, <2>4
    <3> QED BY <3>2, <3>3
  <2> HIDE DEF X
  <2>5. Cerrado(X, E, e)
    BY <2>3, <2>4 DEF Cerrado
  <2> QED BY <2>1, <2>2, <2>5, <1>1
<1>6. ASSUME NEW n \in Nodos PROVE A[n] = Reune(A, E, n)
  <2>1. CASE Tipo[n] = ENTRADA
    BY <2>1, <1>3 DEF Reune
  <2>2. CASE Tipo[n] # ENTRADA
    <3>1. Reune(A, E, n) = UNION {A[m] : m \in {m \in Nodos : <<m, n>> \in E}}
      BY <2>2 DEF Reune
    <3>2. \A e \in A[n] : \E m \in Nodos : <<m, n>> \in E /\ e \in A[m]
      BY <2>2, <1>5
    <3>3. \A m \in Nodos : <<m, n>> \in E => A[m] \subseteq A[n]
      BY <2>2, <1>4
    <3> QED BY <3>1, <3>2, <3>3
  <2> QED BY <2>1, <2>2
<1> QED BY <1>6 DEF A

\* F follows the connections E up to layer c; E and D have the same connections
\* into the nodes up to there that are no inputs; none goes back.
Sigue(F, E, c) == \A n \in Nodos : Capa[n] <= c => F[n] = Reune(F, E, n)
IgualesHasta(E, D, c) ==
    \A m, n \in Nodos : Capa[n] <= c /\ Tipo[n] # ENTRADA => (<<m, n>> \in E <=> <<m, n>> \in D)
HaciaAdelante(E) == \A m, n \in Nodos : <<m, n>> \in E => Capa[m] < Capa[n]

\* Two functions that follow the same connections are one, as far as no
\* connection goes back: the nodes of the first layer where they would differ
\* collect from layers where they do not.
LEMMA PorCapas ==
    ASSUME NEW E, NEW D, NEW F, NEW G, NEW c \in Int,
           Sigue(F, E, c), Sigue(G, D, c), IgualesHasta(E, D, c), HaciaAdelante(E)
    PROVE  \A n \in Nodos : Capa[n] <= c => F[n] = G[n]
<1> SUFFICES ASSUME NEW x \in Nodos, Capa[x] <= c, F[x] # G[x] PROVE FALSE
  OBVIOUS
<1> DEFINE S == {Capa[n] : n \in {n \in Nodos : Capa[n] <= c /\ F[n] # G[n]}}
<1>1. \A n \in Nodos : Capa[n] \in Nat
  BY SustratoSupuestos DEF SustratoSupuestos
<1>2. S \in SUBSET Nat /\ S # {}
  BY <1>1
<1>3. PICK k \in S : \A j \in S : k <= j
  <2> HIDE DEF S
  <2> QED BY <1>2, Primero
<1>4. PICK n \in Nodos : Capa[n] = k /\ Capa[n] <= c /\ F[n] # G[n]
  OBVIOUS
<1>5. ASSUME NEW m \in Nodos, <<m, n>> \in E PROVE F[m] = G[m]
  <2>1. Capa[m] < Capa[n] /\ Capa[m] \in Nat /\ Capa[n] \in Nat
    BY <1>1, <1>5 DEF HaciaAdelante
  <2>2. Capa[m] <= c /\ ~(k <= Capa[m])
    BY <2>1, <1>4
  <2>3. Capa[m] \notin S
    BY <2>2, <1>3
  <2> QED BY <2>2, <2>3
<1>6. F[n] = Reune(F, E, n) /\ G[n] = Reune(G, D, n)
  BY <1>4 DEF Sigue
<1>7. CASE Tipo[n] = ENTRADA
  BY <1>4, <1>6, <1>7 DEF Reune
<1>8. CASE Tipo[n] # ENTRADA
  <2>1. {m \in Nodos : <<m, n>> \in D} = {m \in Nodos : <<m, n>> \in E}
    BY <1>4, <1>8 DEF IgualesHasta
  <2>2. {F[m] : m \in {m \in Nodos : <<m, n>> \in E}} = {G[m] : m \in {m \in Nodos : <<m, n>> \in E}}
    BY <1>5
  <2> QED BY <2>1, <2>2, <1>4, <1>6, <1>8 DEF Reune
<1> QED BY <1>7, <1>8

\* The two recursive functions of the module follow their connections.
LEMMA OrigenesCumple == \A n \in Nodos : Origenes[n] = Reune(Origenes, pedidas, n)
<1> DEFINE A == Alcance(pedidas)
<1>1. A = [n \in Nodos |-> IF Tipo[n] = ENTRADA THEN {n}
                           ELSE UNION {A[m] : m \in {m \in Nodos : <<m, n>> \in pedidas}}]
  <2>1. \A n \in Nodos : A[n] = Reune(A, pedidas, n)
    BY AlcanceCumple
  <2>2. A = [n \in Nodos |-> A[n]]
    BY DEF Alcance
  <2> HIDE DEF A
  <2> QED BY <2>1, <2>2 DEF Reune
<1>2. PICK F : F = [n \in Nodos |-> IF Tipo[n] = ENTRADA THEN {n}
                           ELSE UNION {F[m] : m \in {m \in Nodos : <<m, n>> \in pedidas}}]
  BY <1>1
<1>3. Origenes = [n \in Nodos |-> IF Tipo[n] = ENTRADA THEN {n}
                           ELSE UNION {Origenes[m] : m \in {m \in Nodos : <<m, n>> \in pedidas}}]
  BY <1>2 DEF Origenes
<1> QED BY <1>3 DEF Reune

Cableado == {mn \in Nodos \X Nodos : inputs_nodes[mn[2]][mn[1]] > 0}

LEMMA ExpresionCumple == \A n \in Nodos : Expresion[n] = Reune(Expresion, Cableado, n)
<1> DEFINE A == Alcance(Cableado)
           de(n) == {m \in Nodos : inputs_nodes[n][m] > 0}
<1>1. \A n \in Nodos : de(n) = {m \in Nodos : <<m, n>> \in Cableado}
  BY DEF Cableado
<1>2. A = [n \in Nodos |-> IF Tipo[n] = ENTRADA THEN {n} ELSE UNION {A[m] : m \in de(n)}]
  <2>1. \A n \in Nodos : A[n] = Reune(A, Cableado, n)
    BY AlcanceCumple
  <2>2. A = [n \in Nodos |-> A[n]]
    BY DEF Alcance
  <2> HIDE DEF A, de
  <2> QED BY <2>1, <2>2, <1>1 DEF Reune
<1>3. PICK F : F = [n \in Nodos |-> IF Tipo[n] = ENTRADA THEN {n} ELSE UNION {F[m] : m \in de(n)}]
  BY <1>2
<1>4. Expresion = [n \in Nodos |-> IF Tipo[n] = ENTRADA THEN {n} ELSE UNION {Expresion[m] : m \in de(n)}]
  BY <1>3 DEF Expresion
<1> HIDE DEF de
<1> QED BY <1>1, <1>4 DEF Reune

-----------------------------------------------------------------------------
(* The inductive invariant                                                 *)

Escalonado(E) == \A m, n \in Nodos : <<m, n>> \in E => Capa[n] = Capa[m] + 1

\* Connections go from a layer to the next, those of old organisms too; nothing
\* clears the first layer.
EnCapas ==
    /\ Escalonado(pedidas) /\ Escalonado(Cableado)
    /\ \A n \in Nodos : Capa[n] = 1 => (active[n] <=> Tipo[n] = ENTRADA)

\* A node has what the CPPN asked for in this creation.
Unido(n) ==
    /\ \A m \in Nodos : inputs_nodes[n][m] = IF <<m, n>> \in pedidas /\ Tipo[n] # ENTRADA THEN 1 ELSE 0
    /\ active[n] <=> Alcance(pedidas)[n] # {}

Creando ==
    paso = "crea" => /\ ~OkConnections /\ capa <= NCAPAS
                     /\ \A n \in Nodos : Capa[n] <= capa => Unido(n)
                     /\ \A m, n \in Nodos : <<m, n>> \in pedidas => Capa[n] <= capa

Creado == OkConnections => \A n \in Nodos : Unido(n)

Fresca ==
    paso = "evalua" => /\ OkConnections
                       /\ \A n \in Nodos : Capa[n] < capa => output[n] = Alcance(pedidas)[n] \X {ronda}

Inv == TypeOK /\ EnCapas /\ Creando /\ Creado /\ Fresca

LEMMA Constantes ==
    /\ NCAPAS \in Nat /\ SALIDAS \in Nat \ {0} /\ MAX_OCULTAS \in Nat /\ MAX_RONDAS \in Nat
    /\ \A n \in Nodos : Capa[n] \in 1 .. NCAPAS /\ Tipo[n] \in {0, 1, 2} /\ Capa[n] \in Nat
    /\ Tamanos \subseteq Nat /\ SALIDAS \in Tamanos
    /\ ENTRADA = 0 /\ SALIDA = 2
BY SustratoSupuestos DEF SustratoSupuestos, Tamanos, ENTRADA, SALIDA

\* While no connection goes back, what a recursive function finds is what
\* reaches each node.
LEMMA FuncionEsAlcance ==
    ASSUME NEW E, Escalonado(E), NEW F, \A n \in Nodos : F[n] = Reune(F, E, n)
    PROVE  \A n \in Nodos : F[n] = Alcance(E)[n]
<1>1. \A n \in Nodos : Capa[n] \in Nat /\ Capa[n] <= NCAPAS /\ NCAPAS \in Int
  BY Constantes
<1>2. \A n \in Nodos : Alcance(E)[n] = Reune(Alcance(E), E, n)
  BY AlcanceCumple
<1>3. HaciaAdelante(E) /\ IgualesHasta(E, E, NCAPAS)
  BY <1>1 DEF Escalonado, HaciaAdelante, IgualesHasta
<1>4. CASE Nodos = {}
  BY <1>4
<1>5. CASE Nodos # {}
  <2> DEFINE A == Alcance(E)
  <2>1. NCAPAS \in Int
    BY <1>1, <1>5
  <2>2. Sigue(F, E, NCAPAS) /\ Sigue(A, E, NCAPAS)
    BY <1>2 DEF Sigue
  <2> HIDE DEF A
  <2>3. \A n \in Nodos : Capa[n] <= NCAPAS => F[n] = A[n]
    BY <2>1, <2>2, <1>3, PorCapas
  <2> QED BY <2>3, <1>1 DEF A
<1> QED BY <1>4, <1>5

LEMMA OrigenesEsAlcance == EnCapas => \A n \in Nodos : Origenes[n] = Alcance(pedidas)[n]
BY OrigenesCumple, FuncionEsAlcance DEF EnCapas

LEMMA ExpresionEsAlcance == EnCapas => \A n \in Nodos : Expresion[n] = Alcance(Cableado)[n]
BY ExpresionCumple, FuncionEsAlcance DEF EnCapas

\* What reaches the layers up to one depends on the connections into them alone,
\* and on none into an input.
LEMMA AlcanceHasta ==
    ASSUME NEW E, NEW D, NEW c \in Int, Escalonado(E), IgualesHasta(E, D, c)
    PROVE  \A n \in Nodos : Capa[n] <= c => Alcance(E)[n] = Alcance(D)[n]
<1> DEFINE A == Alcance(E)
           B == Alcance(D)
<1>1. Sigue(A, E, c) /\ Sigue(B, D, c)
  BY AlcanceCumple DEF Sigue
<1>2. HaciaAdelante(E)
  BY Constantes DEF Escalonado, HaciaAdelante
<1> HIDE DEF A, B
<1>3. \A n \in Nodos : Capa[n] <= c => A[n] = B[n]
  BY <1>1, <1>2, PorCapas
<1> QED BY <1>3 DEF A, B

LEMMA AlcanceEnNodos == \A E : \A n \in Nodos : Alcance(E)[n] \subseteq Nodos
BY DEF Alcance

LEMMA InicioInv == Init => Inv
<1> SUFFICES ASSUME Init PROVE Inv
  OBVIOUS
<1> USE DEF Init
<1>1. TypeOK
  <2>1. champion \in Tamanos /\ organisms \in [Organismos -> Tamanos]
    BY Constantes
  <2>2. capa \in 1 .. NCAPAS + 1 /\ ronda \in 0 .. MAX_RONDAS
    BY Constantes
  <2> QED BY <2>1, <2>2 DEF TypeOK
<1>2. EnCapas
  <2>1. \A n, m \in Nodos : inputs_nodes[n][m] = 0
    OBVIOUS
  <2>2. Cableado = {}
    BY <2>1 DEF Cableado
  <2> QED BY <2>2 DEF EnCapas, Escalonado
<1> QED BY <1>1, <1>2 DEF Inv, Creando, Creado, Fresca

\* steps that leave the substrate alone
LEMMA UnidosQuietos ==
    ASSUME UNCHANGED sustrato
    PROVE  /\ EnCapas => EnCapas'
           /\ \A n \in Nodos : Unido(n) => Unido(n)'
           /\ OkConnections' = OkConnections /\ pedidas' = pedidas
           /\ Creado => Creado'
<1>1. /\ inputs_nodes' = inputs_nodes /\ active' = active
      /\ OkConnections' = OkConnections /\ pedidas' = pedidas
  BY DEF sustrato
<1>2. EnCapas => EnCapas'
  BY <1>1 DEF EnCapas, Escalonado, Cableado
<1>3. \A n \in Nodos : Unido(n) => Unido(n)'
  BY <1>1 DEF Unido
<1> QED BY <1>1, <1>2, <1>3 DEF Creado

-----------------------------------------------------------------------------
(* The steps                                                               *)

LEMMA TiposPaso == TypeOK /\ EnCapas /\ [Next]_vars => TypeOK'
<1> SUFFICES ASSUME TypeOK, EnCapas, [Next]_vars PROVE TypeOK'
  OBVIOUS
<1> USE DEF TypeOK
<1>1. NCAPAS \in Nat /\ MAX_RONDAS \in Nat
  BY Constantes
<1>2. ASSUME NEW tam, Corresponde(tam)
      PROVE  /\ multiple' \in BOOLEAN /\ capa' \in 1 .. NCAPAS + 1
             /\ paso' \in {"libre", "crea", "imprime"}
  BY <1>1, <1>2 DEF Corresponde
<1>3. CASE Crea
  <2>1. imprime' \in BOOLEAN /\ multiple' \in BOOLEAN /\ capa' \in 1 .. NCAPAS + 1
        /\ paso' \in {"libre", "crea", "imprime", "aborta"}
    BY <1>2, <1>3 DEF Crea
  <2> QED BY <2>1, <1>3 DEF Crea, poblacion
<1>4. CASE ConectaCapa
  <2>1. UNCHANGED <<output, OkConnections, poblacion, multiple, imprime, impresas, ronda>>
    BY <1>4 DEF ConectaCapa
  <2>2. CASE paso' = "aborta" /\ UNCHANGED <<inputs_nodes, active, pedidas, capa>>
    BY <2>1, <2>2 DEF poblacion
  <2>3. ASSUME NEW E \in SUBSET (EnCapa(capa) \X EnCapa(capa + 1)),
               inputs_nodes' = [n \in Nodos |-> IF Capa[n] = capa + 1 THEN EntradasNuevas(n, E)
                                                ELSE inputs_nodes[n]],
               active' = [n \in Nodos |->
                            IF Capa[n] = capa + 1
                            THEN Limpia(n) \/ \E m \in Nodos : <<m, n>> \in E /\ active[m]
                            ELSE active[n]],
               pedidas' = pedidas \cup E,
               capa' = capa + 1, capa < NCAPAS, paso' = paso
        PROVE  TypeOK'
    <3>1. E \subseteq Nodos \X Nodos
      BY DEF EnCapa
    <3>2. \A n \in Nodos : EntradasNuevas(n, E) \in [Nodos -> Nat]
      BY DEF EntradasNuevas
    <3>3. inputs_nodes' \in [Nodos -> [Nodos -> Nat]]
      BY <2>3, <3>2
    <3>4. active' \in [Nodos -> BOOLEAN]
      <4>1. \A n \in Nodos : (Limpia(n) \/ \E m \in Nodos : <<m, n>> \in E /\ active[m]) \in BOOLEAN
        BY DEF Limpia
      <4> QED BY <4>1, <2>3
    <3>5. capa' \in 1 .. NCAPAS + 1
      BY <2>3, <1>1
    <3> QED BY <2>1, <2>3, <3>1, <3>3, <3>4, <3>5 DEF poblacion
  <2> QED BY <2>2, <2>3, <1>4 DEF ConectaCapa
<1>5. CASE TerminaCrea
  BY <1>5 DEF TerminaCrea, poblacion
<1>6. CASE Evalua
  BY <1>1, <1>6 DEF Evalua, sustrato, poblacion
<1>7. CASE EvaluaCapa
  <2>1. ASSUME NEW n \in Nodos
        PROVE  (IF Tipo[n] = ENTRADA THEN {<<n, ronda>>} ELSE {})
                 \cup UNION {output[m] : m \in {m \in Nodos : inputs_nodes[n][m] > 0}}
                 \in SUBSET (Nodos \X (0 .. MAX_RONDAS))
    <3>1. UNION {output[m] : m \in {m \in Nodos : inputs_nodes[n][m] > 0}}
            \in SUBSET (Nodos \X (0 .. MAX_RONDAS))
      OBVIOUS
    <3> QED BY <3>1
  <2>2. output' \in [Nodos -> SUBSET (Nodos \X (0 .. MAX_RONDAS))]
    BY <2>1, <1>7 DEF EvaluaCapa
  <2>3. capa' \in 1 .. NCAPAS + 1
    BY <1>1, <1>7 DEF EvaluaCapa
  <2> QED BY <2>2, <2>3, <1>7 DEF EvaluaCapa, sustrato, poblacion
<1>8. CASE TerminaEvalua
  BY <1>1, <1>8 DEF TerminaEvalua, sustrato, poblacion
<1>9. CASE HyperNeatFitness
  BY <1>9 DEF HyperNeatFitness, sustrato
<1>10. CASE HyperNeatEvolve
  BY <1>10 DEF HyperNeatEvolve, sustrato
<1>11. CASE Imprime
  <2>1. \A n \in Nodos : Expresion[n] \in SUBSET Nodos
    BY ExpresionEsAlcance, AlcanceEnNodos
  <2>2. impresas' \in [Nodos -> SUBSET Nodos]
    BY <2>1, <1>11 DEF Imprime
  <2> QED BY <2>2, <1>11 DEF Imprime, sustrato, poblacion
<1>12. CASE UNCHANGED vars
  BY <1>12 DEF vars, sustrato, poblacion
<1> QED BY <1>3, <1>4, <1>5, <1>6, <1>7, <1>8, <1>9, <1>10, <1>11, <1>12 DEF Next

\* A new creation starts with its first layer done: nothing goes into it.
LEMMA CreaInv == Inv /\ Crea => (EnCapas /\ Creando /\ Creado /\ Fresca)'
<1> SUFFICES ASSUME Inv, Crea PROVE (EnCapas /\ Creando /\ Creado /\ Fresca)'
  OBVIOUS
<1>1. /\ inputs_nodes' = inputs_nodes /\ active' = active
      /\ OkConnections' = FALSE /\ pedidas' = {} /\ paso = "libre"
  BY DEF Crea
<1>2. EnCapas'
  BY <1>1 DEF Inv, EnCapas, Escalonado, Cableado
<1>3. paso' # "evalua" /\ (paso' = "crea" => capa' = 1 /\ capa' <= NCAPAS)
  <2>1. NCAPAS \in Nat
    BY Constantes
  <2>2. \A tam : Corresponde(tam) => paso' # "evalua" /\ (paso' = "crea" => capa' = 1 /\ NCAPAS # 0)
    BY DEF Corresponde
  <2>3. (\E tam : Corresponde(tam)) \/ paso' = "aborta"
    BY DEF Crea
  <2> QED BY <2>1, <2>2, <2>3
<1>4. ASSUME NEW n \in Nodos, Capa[n] <= 1 PROVE Unido(n)'
  <2>1. Capa[n] = 1
    BY <1>4, Constantes
  <2>2. \A m \in Nodos : inputs_nodes[n][m] = 0
    <3> SUFFICES ASSUME NEW m \in Nodos PROVE inputs_nodes[n][m] = 0
      OBVIOUS
    <3>1. inputs_nodes[n][m] \in Nat
      BY DEF Inv, TypeOK
    <3>2. inputs_nodes[n][m] > 0 => Capa[n] = Capa[m] + 1
      BY DEF Inv, EnCapas, Escalonado, Cableado
    <3>3. Capa[m] >= 1 /\ Capa[m] \in Nat
      BY Constantes
    <3> QED BY <2>1, <3>1, <3>2, <3>3
  <2>3. active[n] <=> Tipo[n] = ENTRADA
    BY <2>1 DEF Inv, EnCapas
  <2>4. Alcance({})[n] # {} <=> Tipo[n] = ENTRADA
    <3>1. Alcance({})[n] = Reune(Alcance({}), {}, n)
      BY AlcanceCumple
    <3> QED BY <3>1 DEF Reune
  <2> QED BY <1>1, <2>2, <2>3, <2>4 DEF Unido
<1>5. Creando'
  BY <1>1, <1>3, <1>4 DEF Creando
<1> QED BY <1>1, <1>2, <1>3, <1>5 DEF Creado, Fresca

\* One layer more is as the CPPN asked, and the ones before it stay so.
LEMMA ConectaCapaInv == Inv /\ ConectaCapa => (EnCapas /\ Creando /\ Creado /\ Fresca)'
<1> SUFFICES ASSUME Inv, ConectaCapa PROVE (EnCapas /\ Creando /\ Creado /\ Fresca)'
  OBVIOUS
<1>1. /\ paso = "crea" /\ capa < NCAPAS /\ OkConnections' = OkConnections
      /\ ~OkConnections /\ (\A n \in Nodos : Capa[n] <= capa => Unido(n))
      /\ \A m, n \in Nodos : <<m, n>> \in pedidas => Capa[n] <= capa
  BY DEF Inv, Creando, ConectaCapa
<1>2. CASE paso' = "aborta" /\ UNCHANGED <<inputs_nodes, active, pedidas, capa>>
  <2>1. EnCapas'
    BY <1>2 DEF Inv, EnCapas, Escalonado, Cableado
  <2> QED BY <2>1, <1>1, <1>2 DEF Creando, Creado, Fresca
<1>3. ASSUME NEW E \in SUBSET (EnCapa(capa) \X EnCapa(capa + 1)),
             inputs_nodes' = [n \in Nodos |-> IF Capa[n] = capa + 1 THEN EntradasNuevas(n, E)
                                              ELSE inputs_nodes[n]],
             active' = [n \in Nodos |->
                          IF Capa[n] = capa + 1
                          THEN Limpia(n) \/ \E m \in Nodos : <<m, n>> \in E /\ active[m]
                          ELSE active[n]],
             pedidas' = pedidas \cup E,
             capa' = capa + 1, paso' = paso
      PROVE  (EnCapas /\ Creando /\ Creado /\ Fresca)'
  <2>1. /\ NCAPAS \in Nat /\ capa \in Nat /\ capa >= 1 /\ \A n \in Nodos : Capa[n] \in Nat
        /\ \A n \in Nodos : Tipo[n] # ENTRADA \/ Tipo[n] = ENTRADA
    BY Constantes DEF Inv, TypeOK
  <2>2. \A m, n \in Nodos : <<m, n>> \in E => Capa[m] = capa /\ Capa[n] = capa + 1
    BY DEF EnCapa
  <2>3. Escalonado(pedidas')
    BY <1>3, <2>2 DEF Inv, EnCapas, Escalonado
  <2>4. \A m, n \in Nodos : <<m, n>> \in pedidas' =>
          /\ Capa[n] <= capa + 1
          /\ Capa[n] <= capa => <<m, n>> \in pedidas
          /\ Capa[n] = capa + 1 => <<m, n>> \in E
    BY <1>1, <1>3, <2>1, <2>2
  <2>5. Escalonado(Cableado')
    <3> SUFFICES ASSUME NEW m \in Nodos, NEW n \in Nodos, <<m, n>> \in Cableado'
                 PROVE  Capa[n] = Capa[m] + 1
      BY DEF Escalonado
    <3>1. inputs_nodes'[n][m] > 0
      BY DEF Cableado
    <3>2. CASE Capa[n] = capa + 1
      <4>1. inputs_nodes'[n][m] = IF <<m, n>> \in E /\ Tipo[n] # ENTRADA THEN 1 ELSE 0
        BY <1>3, <3>2 DEF EntradasNuevas
      <4>2. <<m, n>> \in E
        BY <3>1, <4>1
      <4> QED BY <4>2, <2>2
    <3>3. CASE Capa[n] # capa + 1
      <4>1. inputs_nodes[n][m] > 0
        BY <1>3, <3>1, <3>3
      <4>2. <<m, n>> \in Cableado
        BY <4>1 DEF Cableado
      <4> QED BY <4>2 DEF Inv, EnCapas, Escalonado
    <3> QED BY <3>2, <3>3
  <2>6. ASSUME NEW n \in Nodos, Capa[n] = 1 PROVE active'[n] <=> Tipo[n] = ENTRADA
    <3>1. Capa[n] # capa + 1
      BY <2>1, <2>6
    <3> QED BY <3>1, <2>6, <1>3 DEF Inv, EnCapas
  <2>7. EnCapas'
    BY <2>3, <2>5, <2>6 DEF EnCapas
  <2>8. \A n \in Nodos : Capa[n] <= capa => Alcance(pedidas')[n] = Alcance(pedidas)[n]
    <3>1. IgualesHasta(pedidas', pedidas, capa)
      BY <1>3, <2>4 DEF IgualesHasta
    <3>2. PICK D : D = pedidas'
      OBVIOUS
    <3>3. capa \in Int
      BY <2>1
    <3>4. \A n \in Nodos : Capa[n] <= capa => Alcance(D)[n] = Alcance(pedidas)[n]
      BY <3>1, <3>2, <3>3, <2>3, AlcanceHasta
    <3> QED BY <3>2, <3>4
  <2>9. ASSUME NEW n \in Nodos, Capa[n] <= capa PROVE Unido(n)'
    <3>1. Unido(n) /\ Capa[n] # capa + 1
      BY <1>1, <2>1, <2>9
    <3>2. inputs_nodes'[n] = inputs_nodes[n] /\ active'[n] = active[n]
      BY <1>3, <3>1
    <3>3. \A m \in Nodos : <<m, n>> \in pedidas' <=> <<m, n>> \in pedidas
      BY <1>3, <2>4, <2>9
    <3>4. Alcance(pedidas')[n] = Alcance(pedidas)[n]
      BY <2>8, <2>9
    <3> QED BY <3>1, <3>2, <3>3, <3>4 DEF Unido
  <2>10. ASSUME NEW n \in Nodos, Capa[n] = capa + 1 PROVE Unido(n)'
    <3>1. \A m \in Nodos : <<m, n>> \in pedidas' <=> <<m, n>> \in E
      BY <1>3, <2>4, <2>10
    <3>2. \A m \in Nodos : inputs_nodes'[n][m] = IF <<m, n>> \in E /\ Tipo[n] # ENTRADA THEN 1 ELSE 0
      BY <1>3, <2>10 DEF EntradasNuevas
    <3>3. active'[n] <=> Tipo[n] = ENTRADA \/ \E m \in Nodos : <<m, n>> \in E /\ active[m]
      BY <1>3, <2>10 DEF Limpia
    <3>4. \A m \in Nodos : <<m, n>> \in E => (active[m] <=> Alcance(pedidas')[m] # {})
      <4> SUFFICES ASSUME NEW m \in Nodos, <<m, n>> \in E
                   PROVE  active[m] <=> Alcance(pedidas')[m] # {}
        OBVIOUS
      <4>1. Capa[m] <= capa
        BY <2>1, <2>2
      <4>2. Unido(m) /\ Alcance(pedidas')[m] = Alcance(pedidas)[m]
        BY <4>1, <1>1, <2>8
      <4> QED BY <4>2 DEF Unido
    <3>5. PICK D : D = pedidas'
      OBVIOUS
    <3>6. Alcance(D)[n] = Reune(Alcance(D), D, n)
      BY AlcanceCumple
    <3> DEFINE A == Alcance(D)
    <3>7. A[n] # {} <=> Tipo[n] = ENTRADA \/ \E m \in Nodos : <<m, n>> \in D /\ A[m] # {}
      <4>1. A[n] = Reune(A, D, n)
        BY <3>6
      <4> HIDE DEF A
      <4>2. CASE Tipo[n] = ENTRADA
        BY <4>1, <4>2 DEF Reune
      <4>3. CASE Tipo[n] # ENTRADA
        <5>1. A[n] = UNION {A[m] : m \in {m \in Nodos : <<m, n>> \in D}}
          BY <4>1, <4>3 DEF Reune
        <5>2. \A e : e \in A[n] <=> \E m \in Nodos : <<m, n>> \in D /\ e \in A[m]
          BY <5>1
        <5> QED BY <5>2, <4>3
      <4> QED BY <4>2, <4>3
    <3>8. active'[n] <=> Alcance(pedidas')[n] # {}
      BY <3>1, <3>3, <3>4, <3>5, <3>7
    <3> QED BY <3>1, <3>2, <3>8 DEF Unido
  <2>11. \A n \in Nodos : Capa[n] <= capa' => Unido(n)'
    <3>1. \A n \in Nodos : Capa[n] <= capa + 1 => Capa[n] <= capa \/ Capa[n] = capa + 1
      BY <2>1
    <3>2. capa' = capa + 1
      BY <1>3
    <3> QED BY <3>1, <3>2, <2>9, <2>10
  <2>12. Creando'
    <3>1. capa' <= NCAPAS
      BY <1>1, <1>3, <2>1
    <3> QED BY <1>1, <1>3, <2>4, <2>11, <3>1 DEF Creando
  <2> QED BY <2>7, <2>12, <1>1, <1>3 DEF Creado, Fresca
<1> QED BY <1>2, <1>3 DEF ConectaCapa

\* A layer collects values of this evaluation from the layer before it, which has
\* been evaluated.
LEMMA EvaluaCapaInv == Inv /\ EvaluaCapa => (EnCapas /\ Creando /\ Creado /\ Fresca)'
<1> SUFFICES ASSUME Inv, EvaluaCapa PROVE (EnCapas /\ Creando /\ Creado /\ Fresca)'
  OBVIOUS
<1>1. /\ UNCHANGED sustrato /\ paso = "evalua" /\ paso' = paso /\ capa' = capa + 1
      /\ ronda' = ronda
  BY DEF EvaluaCapa
<1>2. (EnCapas /\ Creado)' /\ OkConnections' = OkConnections /\ pedidas' = pedidas
  BY <1>1, UnidosQuietos DEF Inv
<1>3. /\ OkConnections /\ (\A n \in Nodos : Unido(n))
      /\ \A n \in Nodos : Capa[n] < capa => output[n] = Alcance(pedidas)[n] \X {ronda}
  BY <1>1 DEF Inv, Fresca, Creado
<1>4. capa \in Nat /\ \A n \in Nodos : Capa[n] \in Nat
  BY Constantes DEF Inv, TypeOK
<1> DEFINE A == Alcance(pedidas)
<1>5. \A n \in Nodos : A[n] = Reune(A, pedidas, n)
  BY AlcanceCumple
<1> HIDE DEF A
<1>6. ASSUME NEW n \in Nodos, Capa[n] = capa PROVE output'[n] = A[n] \X {ronda}
  <2> DEFINE de == {m \in Nodos : inputs_nodes[n][m] > 0}
  <2>1. output'[n] = (IF Tipo[n] = ENTRADA THEN {<<n, ronda>>} ELSE {}) \cup UNION {output[m] : m \in de}
    BY <1>6 DEF EvaluaCapa
  <2>2. \A m \in Nodos : inputs_nodes[n][m] = IF <<m, n>> \in pedidas /\ Tipo[n] # ENTRADA THEN 1 ELSE 0
    BY <1>3 DEF Unido
  <2>3. CASE Tipo[n] = ENTRADA
    <3>1. de = {}
      BY <2>2, <2>3
    <3>2. A[n] = {n}
      BY <1>5, <2>3 DEF Reune
    <3> HIDE DEF de
    <3>3. output'[n] = {<<n, ronda>>}
      BY <2>1, <2>3, <3>1
    <3> QED BY <3>2, <3>3
  <2>4. CASE Tipo[n] # ENTRADA
    <3>1. \A m \in Nodos : m \in de <=> <<m, n>> \in pedidas
      BY <2>2, <2>4
    <3>2. \A m \in de : output[m] = A[m] \X {ronda}
      <4> SUFFICES ASSUME NEW m \in de PROVE output[m] = A[m] \X {ronda}
        OBVIOUS
      <4>1. m \in Nodos /\ <<m, n>> \in pedidas
        BY <3>1
      <4>2. Capa[n] = Capa[m] + 1
        BY <4>1 DEF Inv, EnCapas, Escalonado
      <4>3. Capa[m] < capa
        BY <4>1, <4>2, <1>4, <1>6
      <4> QED BY <4>1, <4>3, <1>3 DEF A
    <3>3. de = {m \in Nodos : <<m, n>> \in pedidas}
      BY <3>1
    <3> HIDE DEF de
    <3>4. A[n] = UNION {A[m] : m \in de}
      BY <1>5, <2>4, <3>3 DEF Reune
    <3>5. output'[n] = UNION {output[m] : m \in de}
      BY <2>1, <2>4
    <3>6. \A e : e \in output'[n] <=> \E m \in de : e \in A[m] \X {ronda}
      BY <3>2, <3>5
    <3>7. \A e : e \in A[n] \X {ronda} <=> \E m \in de : e \in A[m] \X {ronda}
      BY <3>4
    <3> QED BY <3>6, <3>7
  <2> QED BY <2>3, <2>4
<1>7. ASSUME NEW n \in Nodos, Capa[n] < capa PROVE output'[n] = A[n] \X {ronda}
  <2>1. Capa[n] # capa
    BY <1>4, <1>7
  <2>2. output'[n] = output[n]
    BY <2>1 DEF EvaluaCapa
  <2> QED BY <2>2, <1>3, <1>7 DEF A
<1>8. Fresca'
  <2>1. \A n \in Nodos : Capa[n] < capa + 1 => Capa[n] < capa \/ Capa[n] = capa
    BY <1>4
  <2>2. \A n \in Nodos : Capa[n] < capa' => output'[n] = A[n] \X {ronda}
    BY <2>1, <1>1, <1>6, <1>7
  <2> QED BY <2>2, <1>1, <1>2, <1>3 DEF Fresca, A
<1>9. Creando'
  BY <1>1 DEF Creando
<1> QED BY <1>2, <1>8, <1>9

LEMMA PasoInv == Inv /\ [Next]_vars => Inv'
<1> SUFFICES ASSUME Inv, [Next]_vars PROVE Inv'
  OBVIOUS
<1>1. TypeOK'
  BY TiposPaso DEF Inv
<1>2. ASSUME UNCHANGED sustrato, paso' \notin {"crea", "evalua"} PROVE Inv'
  <2>1. (EnCapas /\ Creado)'
    BY <1>2, UnidosQuietos DEF Inv
  <2> QED BY <1>1, <1>2, <2>1 DEF Inv, Creando, Fresca
<1>3. CASE Crea
  BY <1>1, <1>3, CreaInv DEF Inv
<1>4. CASE ConectaCapa
  BY <1>1, <1>4, ConectaCapaInv DEF Inv
<1>5. CASE TerminaCrea
  <2>1. /\ UNCHANGED <<inputs_nodes, active, pedidas>> /\ paso = "crea" /\ capa >= NCAPAS
        /\ paso' \notin {"crea", "evalua"}
    BY <1>5 DEF TerminaCrea
  <2>2. \A n \in Nodos : Capa[n] <= capa
    BY <2>1, Constantes DEF Inv, TypeOK
  <2>3. \A n \in Nodos : Unido(n)
    BY <2>1, <2>2 DEF Inv, Creando
  <2>4. \A n \in Nodos : Unido(n)'
    BY <2>1, <2>3 DEF Unido
  <2>5. EnCapas'
    BY <2>1 DEF Inv, EnCapas, Escalonado, Cableado
  <2> QED BY <1>1, <2>1, <2>4, <2>5 DEF Inv, Creando, Creado, Fresca
<1>6. CASE Evalua
  <2>1. UNCHANGED sustrato /\ OkConnections /\ capa' = 1 /\ paso' = "evalua"
    BY <1>6 DEF Evalua, Listo
  <2>2. (EnCapas /\ Creado)' /\ OkConnections'
    BY <2>1, UnidosQuietos DEF Inv
  <2>3. \A n \in Nodos : ~(Capa[n] < 1)
    BY Constantes
  <2> QED BY <1>1, <2>1, <2>2, <2>3 DEF Inv, Creando, Fresca
<1>7. CASE EvaluaCapa
  BY <1>1, <1>7, EvaluaCapaInv DEF Inv
<1>8. CASE TerminaEvalua
  BY <1>2, <1>8 DEF TerminaEvalua
<1>9. CASE HyperNeatFitness
  BY <1>2, <1>9 DEF HyperNeatFitness
<1>10. CASE HyperNeatEvolve
  BY <1>2, <1>10 DEF HyperNeatEvolve
<1>11. CASE Imprime
  BY <1>2, <1>11 DEF Imprime
<1>12. CASE UNCHANGED vars
  <2>1. UNCHANGED sustrato /\ UNCHANGED <<output, paso, capa, ronda>>
    BY <1>12 DEF vars
  <2>2. (EnCapas /\ Creado)' /\ OkConnections' = OkConnections /\ pedidas' = pedidas
    BY <2>1, UnidosQuietos DEF Inv
  <2>3. \A n \in Nodos : Unido(n) => Unido(n)'
    BY <2>1, UnidosQuietos
  <2>4. Creando'
    BY <2>1, <2>2, <2>3 DEF Inv, Creando
  <2>5. Fresca'
    BY <2>1, <2>2 DEF Inv, Fresca
  <2> QED BY <1>1, <2>2, <2>4, <2>5 DEF Inv
<1> QED BY <1>3, <1>4, <1>5, <1>6, <1>7, <1>8, <1>9, <1>10, <1>11, <1>12 DEF Next

LEMMA SiempreInv == Spec => []Inv
BY InicioInv, PasoInv, PTL DEF Spec

-----------------------------------------------------------------------------
(* Theorems                                                                *)

\* The substrate's variables keep their types and its loops their layers; what a
\* printed function names are nodes of the substrate.
THEOREM TiposCorrectos == Spec => []TypeOK
<1>1. Inv => TypeOK
  BY DEF Inv
<1> QED BY <1>1, SiempreInv, PTL

\* A substrate that may be evaluated has the connections of the last creation and
\* no other, and a node is active exactly if some input reaches it.
THEOREM LasConexionesSonDelUltimo == Spec => []ConexionesDelUltimo
<1>1. Inv => ConexionesDelUltimo
  BY OrigenesEsAlcance DEF Inv, Creado, Unido, ConexionesDelUltimo
<1> QED BY <1>1, SiempreInv, PTL

\* What an evaluation has computed comes from all the inputs that reach each node,
\* and from this evaluation.
THEOREM LaSalidaEsFresca == Spec => []SalidaFresca
<1>1. Inv => SalidaFresca
  BY OrigenesEsAlcance DEF Inv, Fresca, SalidaFresca
<1> QED BY <1>1, SiempreInv, PTL

\* What is printed after a creation that did not fail names exactly the inputs
\* that reach each output.
THEOREM LasFuncionesSonDelCampeon == Spec => FuncionesDelCampeon
<1> DEFINE Bien == Imprime /\ OkConnections =>
                     \A n \in Nodos : Tipo[n] = SALIDA => impresas'[n] = Origenes[n]
<1>1. Inv => Bien
  <2> SUFFICES ASSUME Inv, Imprime, OkConnections, NEW n \in Nodos, Tipo[n] = SALIDA
               PROVE  impresas'[n] = Origenes[n]
    OBVIOUS
  <2>1. impresas'[n] = Expresion[n]
    BY DEF Imprime
  <2>2. Expresion[n] = Alcance(Cableado)[n] /\ Origenes[n] = Alcance(pedidas)[n]
    BY ExpresionEsAlcance, OrigenesEsAlcance DEF Inv
  <2>3. IgualesHasta(Cableado, pedidas, NCAPAS)
    <3>1. \A x, m \in Nodos :
            inputs_nodes[x][m] = IF <<m, x>> \in pedidas /\ Tipo[x] # ENTRADA THEN 1 ELSE 0
      BY DEF Inv, Creado, Unido
    <3> QED BY <3>1 DEF IgualesHasta, Cableado
  <2>4. NCAPAS \in Int /\ Capa[n] <= NCAPAS
    BY Constantes
  <2>5. Escalonado(Cableado)
    BY DEF Inv, EnCapas
  <2>6. Alcance(Cableado)[n] = Alcance(pedidas)[n]
    BY <2>3, <2>4, <2>5, AlcanceHasta
  <2> QED BY <2>1, <2>2, <2>6
<1>2. Inv /\ [Next]_vars => [Bien]_vars
  BY <1>1
<1> QED BY <1>2, SiempreInv, PTL DEF Spec, FuncionesDelCampeon

=============================================================================
