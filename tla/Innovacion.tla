----------------------------- MODULE Innovacion -----------------------------
(***************************************************************************)
(* NEAT's historical registries and the genomes that grow from them        *)
(* (NEAT.cpp, genetic_encoding.cpp).                                       *)
(*                                                                         *)
(* A Population numbers every connection (historical_innovation), every    *)
(* node that splits a connection (historical_nodes) and every row of such  *)
(* nodes (historical_row, row_orderer_list), so that two genomes can be    *)
(* compared and crossed gene by gene.  Each epoch fills the population     *)
(* with copies of the survivors, crossed and mutated one after the other.  *)
(*                                                                         *)
(* A genome is the rows of its nodes, its connection genes by innovation   *)
(* number, and its own copy of the order of the rows.  A gene or node with *)
(* exist = false is one outside the domain.  Weights, node functions,      *)
(* fitness and niches are left out, so mutation_change_weight returns the  *)
(* genome it is given and any survivor may be a parent.                    *)
(***************************************************************************)
EXTENDS Integers, Sequences, FiniteSets, Functions

CONSTANTS
    NODOS0, CONEXIONES0, FILAS0,    \* the loaded genome: how many of each
    Nodos0,             \* the loaded genome: node -> row
    Conexiones0,        \* the loaded genome: innovation number -> gene
    POPULATION_MAX,
    MAX_GENERACION,     \* bound: epochs
    MAX_NODO,           \* bound: no node is split from this node number on
    MAX_GENES           \* bound: connections of a genome that still gains one

Gen == [in : Nat, out : Nat, enable : BOOLEAN]
Par(c) == <<c.in, c.out>>

ASSUME InnovacionSupuestos ==
    /\ {NODOS0, CONEXIONES0, FILAS0, POPULATION_MAX} \subseteq Nat \ {0}
    /\ MAX_GENERACION \in Nat /\ MAX_NODO \in Nat /\ MAX_GENES \in Nat
    /\ Nodos0 \in [0 .. NODOS0 - 1 -> 0 .. FILAS0 - 1]
    /\ Conexiones0 \in [0 .. CONEXIONES0 - 1 -> Gen]
    /\ \A i \in DOMAIN Conexiones0 :
         Conexiones0[i].in \in DOMAIN Nodos0 /\ Conexiones0[i].out \in DOMAIN Nodos0
    /\ \A i, j \in DOMAIN Conexiones0 : Par(Conexiones0[i]) = Par(Conexiones0[j]) => i = j
    /\ \E i \in DOMAIN Conexiones0 : Conexiones0[i].enable

VARIABLES
    historical_innovation, last_innovation,     \* <<in, out>> -> innovation
    historical_nodes, last_node,                \* <<in, out>> -> node that splits it
    historical_row, row_orderer_list, last_row, \* node -> row; rows from input to output
    organisms, prev_organisms,                  \* the genomes of the two generations
    nacidos, generacion,                        \* size of organisms; epochs so far
    hijo, paso                                  \* the genome epoch_reproduce works on

registros == <<historical_innovation, last_innovation, historical_nodes, last_node>>
filas == <<historical_row, row_orderer_list, last_row>>
poblacion == <<organisms, prev_organisms, nacidos, generacion>>
vars == <<registros, filas, poblacion, hijo, paso>>

Genoma0 == [nodos |-> Nodos0, conex |-> Conexiones0, filas |-> [k \in 1 .. FILAS0 |-> k - 1]]

Genomas == organisms \cup prev_organisms \cup {hijo}

Init ==
    /\ historical_innovation = [p \in {Par(Conexiones0[i]) : i \in DOMAIN Conexiones0} |->
                                  CHOOSE i \in DOMAIN Conexiones0 : Par(Conexiones0[i]) = p]
    /\ last_innovation = CONEXIONES0
    /\ historical_nodes = [p \in {} |-> 0]
    /\ last_node = NODOS0 - 1
    /\ historical_row = [n \in {} |-> 0]
    /\ row_orderer_list = Genoma0.filas
    /\ last_row = FILAS0
    /\ organisms = {Genoma0} /\ prev_organisms = {Genoma0}
    /\ nacidos = POPULATION_MAX /\ generacion = 0
    /\ hijo = Genoma0 /\ paso = "elige"

-----------------------------------------------------------------------------
(* The registries                                                          *)

Extiende(f, x, v) == [y \in DOMAIN f \cup {x} |-> IF y = x THEN v ELSE f[y]]

\* the number already given is not looked at
MutNumera(registro, pares, base, antes) ==
    [p \in DOMAIN registro \cup pares |->
       IF p \in pares THEN base + Cardinality({q \in pares : <<q, p>> \in antes})
       ELSE registro[p]]

\* A registry after it was asked for the number of each pair of a set, one
\* after the other in the order "antes": a pair it does not know gets the next.
Numera(registro, pares, base, antes) ==
    LET nuevos == pares \ DOMAIN registro
    IN  [p \in DOMAIN registro \cup pares |->
           IF p \in DOMAIN registro THEN registro[p]
           ELSE base + Cardinality({q \in nuevos : <<q, p>> \in antes})]

\* one increment, however many pairs were new
MutInnova(pares, antes) ==
    /\ historical_innovation' = Numera(historical_innovation, pares, last_innovation, antes)
    /\ last_innovation' = last_innovation + 1

Innova(pares, antes) ==
    /\ historical_innovation' = Numera(historical_innovation, pares, last_innovation, antes)
    /\ last_innovation' = last_innovation + Cardinality(pares \ DOMAIN historical_innovation)

\* first position of a row in row_orderer_list
Posicion(row) ==
    CHOOSE k \in DOMAIN row_orderer_list :
        row_orderer_list[k] = row /\ \A j \in 1 .. k - 1 : row_orderer_list[j] # row

InsertaFila(k) ==
    row_orderer_list' = [j \in 1 .. Len(row_orderer_list) + 1 |->
                           IF j < k THEN row_orderer_list[j]
                           ELSE IF j = k THEN last_row ELSE row_orderer_list[j - 1]]

RegistraFila(node, row) == historical_row' = Extiende(historical_row, node, row)

\* last_row is not incremented
MutFilaNueva(node, pin, pout) ==
    /\ RegistraFila(node, last_row)
    /\ InsertaFila(IF pout > pin THEN pin + 1 ELSE pin - 1)
    /\ UNCHANGED last_row

\* Between neighbouring rows a new one is inserted: after the row of the input
\* if the connection goes forward, before the row of the output if it goes back.
FilaNueva(node, pin, pout) ==
    /\ RegistraFila(node, last_row)
    /\ InsertaFila(IF pout > pin THEN pin + 1 ELSE pin - 1)
    /\ last_row' = last_row + 1

FilaVecina(node, pin, pout) ==
    /\ RegistraFila(node, row_orderer_list[IF pout > pin THEN pin + 1 ELSE pin - 1])
    /\ UNCHANGED <<row_orderer_list, last_row>>

FilasExisten(row_in, row_out) == {row_in, row_out} \subseteq Range(row_orderer_list)

\* obtain_row of a node not registered yet, for a connection between two rows
BuscaFila(node, row_in, row_out) ==
    LET pin == Posicion(row_in)
        pout == Posicion(row_out)
    IN  \/ pin = pout /\ UNCHANGED filas
        \/ pout \in {pin - 1, pin + 1} /\ FilaNueva(node, pin, pout)
        \/ pout \notin pin - 1 .. pin + 1 /\ FilaVecina(node, pin, pout)

ObtenFila(node, row_in, row_out) ==
    \/ node \in DOMAIN historical_row /\ UNCHANGED filas
    \/ /\ node \notin DOMAIN historical_row
       /\ FilasExisten(row_in, row_out) /\ BuscaFila(node, row_in, row_out)

\* the row obtain_row returns; read after it ran
FilaObtenida(node, row_in) ==
    IF node \in DOMAIN historical_row' THEN historical_row'[node] ELSE row_in

-----------------------------------------------------------------------------
(* Mutations and crossover of one genome                                   *)

Habilitadas(g) == {i \in DOMAIN g.conex : g.conex[i].enable}

\* the new gene starts disabled
MutAgregaConexion(conex, innovation, in, out) ==
    IF innovation \in DOMAIN conex THEN conex
    ELSE Extiende(conex, innovation, [in |-> in, out |-> out, enable |-> FALSE])

\* add_connection prints an error, and adds nothing, when the number is taken
AgregaConexion(conex, innovation, in, out) ==
    IF innovation \in DOMAIN conex THEN conex
    ELSE Extiende(conex, innovation, [in |-> in, out |-> out, enable |-> TRUE])

Deshabilita(conex, i) == [conex EXCEPT ![i].enable = FALSE]

\* the pairs of the enabled genes, in the order of the genes
ParesHabilitados(g) == {Par(g.conex[i]) : i \in Habilitadas(g)}
OrdenDeGenes(g) ==
    {pq \in ParesHabilitados(g) \X ParesHabilitados(g) :
        \E i, j \in Habilitadas(g) : i < j /\ pq = <<Par(g.conex[i]), Par(g.conex[j])>>}

\* the enabled genes whose splitting node the genome does not have
Partibles(g, nodes) == {i \in Habilitadas(g) : nodes[Par(g.conex[i])] \notin DOMAIN g.nodos}

Aborta == paso' = "aborta" /\ UNCHANGED <<historical_innovation, last_innovation, filas, hijo>>

Parte(g, i, node) ==
    LET in == g.conex[i].in
        out == g.conex[i].out
        dos == <<<<in, node>>, <<node, out>>>>
    IN  /\ ObtenFila(node, g.nodos[in], g.nodos[out])
        /\ Innova({dos[1], dos[2]}, {dos})
        /\ hijo' = [nodos |-> Extiende(g.nodos, node, FilaObtenida(node, g.nodos[in])),
                    conex |-> AgregaConexion(
                                AgregaConexion(Deshabilita(g.conex, i),
                                               historical_innovation'[dos[1]], in, node),
                                historical_innovation'[dos[2]], node, out),
                    filas |-> row_orderer_list']
        /\ paso' = "conexion"

\* obtain_historical_node is called for every enabled gene before one is drawn,
\* so each of them has a number from then on, split or not.
MutacionNodo ==
    LET g == hijo
        pares == ParesHabilitados(g)
        nodes == Numera(historical_nodes, pares, last_node + 1, OrdenDeGenes(g))
    IN  /\ paso = "nodo" /\ last_node < MAX_NODO
        /\ historical_nodes' = nodes
        /\ last_node' = last_node + Cardinality(pares \ DOMAIN historical_nodes)
        /\ UNCHANGED poblacion
        /\ \/ Partibles(g, nodes) = {} /\ Aborta
           \/ \E i \in Partibles(g, nodes) : Parte(g, i, nodes[Par(g.conex[i])])
           \/ \E i \in Partibles(g, nodes) :
                /\ nodes[Par(g.conex[i])] \notin DOMAIN historical_row
                /\ ~FilasExisten(g.nodos[g.conex[i].in], g.nodos[g.conex[i].out])
                /\ Aborta

SinNodo == paso = "nodo" /\ paso' = "conexion" /\ UNCHANGED <<registros, filas, poblacion, hijo>>

\* organisms is the set of the genomes, nacidos its length.  Until the next
\* epoch_reproduce there is no genome under work: hijo goes back to the loaded one.
Nace(g) ==
    /\ organisms' = organisms \cup {g} /\ nacidos' = nacidos + 1
    /\ hijo' = Genoma0 /\ paso' = "elige"
    /\ UNCHANGED <<prev_organisms, generacion, historical_nodes, last_node, filas>>

\* the ordered pairs of distinct nodes of a genome, row by row
ParesDeNodos(g) == {p \in (DOMAIN g.nodos) \X (DOMAIN g.nodos) : p[1] # p[2]}
OrdenDeNodos(pares) ==
    {pq \in pares \X pares : \/ pq[1][1] < pq[2][1]
                             \/ pq[1][1] = pq[2][1] /\ pq[1][2] < pq[2][2]}

\* Every pair of the genome's nodes gets an innovation number; a pair whose
\* number the genome has no gene for is drawn, if there is one.
MutacionConexion ==
    LET g == hijo
        pares == ParesDeNodos(g)
        libres == {p \in pares : historical_innovation'[p] \notin DOMAIN g.conex}
    IN  /\ paso = "conexion" /\ Cardinality(DOMAIN g.conex) < MAX_GENES
        /\ Innova(pares, OrdenDeNodos(pares))
        /\ \/ libres = {} /\ Nace(g)
           \/ \E p \in libres :
                Nace([g EXCEPT !.conex =
                        AgregaConexion(@, historical_innovation'[p], p[1], p[2])])

SinConexion ==
    paso = "conexion" /\ Nace(hijo) /\ UNCHANGED <<historical_innovation, last_innovation>>

\* A gene both have disabled anywhere is taken from a parent where it is, and
\* may come back; of equal copies it does not matter which is taken.
CruzaGen(i, c, d, genesMadre, rehabilitados) ==
    IF c.enable /\ d.enable THEN (IF i \in genesMadre THEN d ELSE c)
    ELSE [(IF ~c.enable THEN c ELSE d) EXCEPT !.enable = i \in rehabilitados]

\* the parents' entries, with "comun" for those both have
Une(f, g, comun) ==
    [x \in DOMAIN f \cup DOMAIN g |->
       IF x \in DOMAIN comun THEN comun[x] ELSE IF x \in DOMAIN f THEN f[x] ELSE g[x]]

\* the mother's genes without the mother's nodes
MutCruce(padre, madre, genesMadre, nodosMadre, rehabilitados) ==
    LET gen == [i \in DOMAIN padre.conex \cap DOMAIN madre.conex |->
                 CruzaGen(i, padre.conex[i], madre.conex[i], genesMadre, rehabilitados)]
    IN  [nodos |-> padre.nodos,
         conex |-> Une(padre.conex, madre.conex, gen),
         filas |-> row_orderer_list]

Cruce(padre, madre, genesMadre, nodosMadre, rehabilitados) ==
    LET gen == [i \in DOMAIN padre.conex \cap DOMAIN madre.conex |->
                 CruzaGen(i, padre.conex[i], madre.conex[i], genesMadre, rehabilitados)]
        fila == [n \in DOMAIN padre.nodos \cap DOMAIN madre.nodos |->
                  IF n \in nodosMadre THEN madre.nodos[n] ELSE padre.nodos[n]]
    IN  [nodos |-> Une(padre.nodos, madre.nodos, fila),
         conex |-> Une(padre.conex, madre.conex, gen),
         filas |-> row_orderer_list]

-----------------------------------------------------------------------------
(* An epoch                                                                *)

Engendra(g) == hijo' = g /\ paso' = "nodo" /\ UNCHANGED <<registros, filas, poblacion>>

MutacionPesos ==
    paso = "elige" /\ nacidos < POPULATION_MAX /\ \E g \in prev_organisms : Engendra(g)

Difieren(f, g) == {x \in DOMAIN f \cap DOMAIN g : f[x] # g[x]}

Cruza ==
    /\ paso = "elige" /\ nacidos < POPULATION_MAX
    /\ \E padre, madre \in prev_organisms :
       \E genesMadre \in SUBSET (Difieren(padre.conex, madre.conex)
                                   \cap Habilitadas(padre) \cap Habilitadas(madre)),
          nodosMadre \in SUBSET Difieren(padre.nodos, madre.nodos),
          rehabilitados \in SUBSET ((DOMAIN padre.conex \cap DOMAIN madre.conex)
                                      \ (Habilitadas(padre) \cap Habilitadas(madre))) :
            Engendra(Cruce(padre, madre, genesMadre, nodosMadre, rehabilitados))

\* epoch keeps at least the best organism of some niche
ComienzaEpoca ==
    /\ paso = "elige" /\ nacidos = POPULATION_MAX /\ generacion < MAX_GENERACION
    /\ \E sobreviven \in SUBSET organisms \ {{}} : prev_organisms' = sobreviven
    /\ organisms' = {} /\ nacidos' = 0 /\ generacion' = generacion + 1
    /\ UNCHANGED <<registros, filas, hijo, paso>>

Next ==
    \/ ComienzaEpoca
    \/ MutacionPesos \/ Cruza
    \/ MutacionNodo \/ SinNodo
    \/ MutacionConexion \/ SinConexion

Spec == Init /\ [][Next]_vars

-----------------------------------------------------------------------------
(* Properties                                                              *)

\* The registries hold numbers already given out, the genomes are made of nodes,
\* genes and rows.
Genoma(g) ==
    /\ DOMAIN g = {"nodos", "conex", "filas"}
    /\ DOMAIN g.nodos \subseteq 0 .. last_node
    /\ \A n \in DOMAIN g.nodos : g.nodos[n] \in 0 .. last_row - 1
    /\ DOMAIN g.conex \subseteq 0 .. last_innovation - 1
    /\ \A i \in DOMAIN g.conex : g.conex[i] \in Gen
    /\ Len(g.filas) \in 1 .. last_row

TypeOK ==
    /\ last_innovation \in Nat /\ last_node \in Nat /\ last_row \in Nat
    /\ \A p \in DOMAIN historical_innovation :
         p \in Nat \X Nat /\ historical_innovation[p] \in 0 .. last_innovation - 1
    /\ \A p \in DOMAIN historical_nodes :
         p \in Nat \X Nat /\ historical_nodes[p] \in 0 .. last_node
    /\ \A n \in DOMAIN historical_row : historical_row[n] \in 0 .. last_row - 1
    /\ \A g \in Genomas : Genoma(g)
    /\ nacidos \in 0 .. POPULATION_MAX /\ generacion \in 0 .. MAX_GENERACION
    /\ paso \in {"elige", "nodo", "conexion", "aborta"}

\* A gene means the same in every genome: it joins the nodes its number is
\* registered for, so crossover and compatibility pair homologous genes.
GenesConformes ==
    \A g \in Genomas : \A i \in DOMAIN g.conex :
        /\ Par(g.conex[i]) \in DOMAIN historical_innovation
        /\ historical_innovation[Par(g.conex[i])] = i

\* A genome has both nodes of each of its genes: eval reads their rows and
\* values, and an absent node's were never written.
ExtremosPresentes ==
    \A g \in Genomas : \A i \in DOMAIN g.conex :
        {g.conex[i].in, g.conex[i].out} \subseteq DOMAIN g.nodos

EnOrden(s, a, b) == \E j, k \in DOMAIN s : j < k /\ s[j] = a /\ s[k] = b

\* The rows mean the same in every genome: a node is on the same row in all, each
\* genome's own order lists each of the first rows once (eval inverts it by
\* number) and ends with the outputs' (getNEATOutputSize counts the last row), and
\* rows never swap, so a connection that goes forward in one goes forward in all.
OrdenDeFilas ==
    /\ \A g, h \in Genomas : \A n \in DOMAIN g.nodos \cap DOMAIN h.nodos : g.nodos[n] = h.nodos[n]
    /\ \A g \in Genomas :
         /\ IsInjective(g.filas) /\ Range(g.filas) = 0 .. Len(g.filas) - 1
         /\ Range(g.nodos) \subseteq Range(g.filas) /\ g.filas[Len(g.filas)] = FILAS0 - 1
         /\ \A j, k \in DOMAIN g.filas :
              j < k => EnOrden(row_orderer_list, g.filas[j], g.filas[k])

\* mutation_node always finds a connection to split and obtain_row both rows:
\* neither calls exit, which would lose the whole population.
NuncaAborta == paso # "aborta"

\* Both registries number a structure once and for all.
Innovaciones == INSTANCE Registro WITH asignado <- historical_innovation
Particiones == INSTANCE Registro WITH asignado <- historical_nodes
ImplementaRegistro == Innovaciones!Spec /\ Particiones!Spec

=============================================================================
