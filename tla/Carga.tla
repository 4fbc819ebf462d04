-------------------------------- MODULE Carga --------------------------------
(***************************************************************************)
(* A genome written down, loaded and evaluated (genetic_encoding.cpp).     *)
(*                                                                         *)
(* The server writes each organism for a client (JSON), and a champion may *)
(* be the seed of another population.  load numbers rows, nodes and genes  *)
(* again, without gaps.  eval runs a genome row by row.                    *)
(*                                                                         *)
(* Weights and node functions travel with their gene and their node, and   *)
(* are left out.                                                           *)
(***************************************************************************)
EXTENDS Innovacion

\* nodes eval loads with its inputs; row 0 of the loaded genome
Entradas == {n \in DOMAIN Nodos0 : Nodos0[n] = 0}

\* what a number becomes when those of S are numbered from 0 in their order
Renumerado(x, S) == Cardinality({y \in S : y < x})
Original(k, S) == CHOOSE x \in S : Renumerado(x, S) = k
Numeros(S) == 0 .. Cardinality(S) - 1

\* the rows with nodes, in the order of the rows
FilasConNodos(g) ==
    LET S == {k \in DOMAIN g.filas : g.filas[k] \in Range(g.nodos)}
    IN  [k \in 1 .. Cardinality(S) |-> g.filas[Original(k - 1, S)]]

\* The tables of load have as many places as there are rows, or nodes, and at()
\* throws beyond them; a row or a node that is not there is -1.
Cargable(g) ==
    /\ Range(g.nodos) \subseteq Range(g.filas)
    /\ Range(FilasConNodos(g)) \subseteq 0 .. Len(g.filas) - 1
    /\ \A i \in DOMAIN g.conex : {g.conex[i].in, g.conex[i].out} \subseteq DOMAIN g.nodos

\* the number of a row, its old one
MutFilaCargada(r, g) == r

FilaCargada(r, g) == CHOOSE k \in 0 .. Len(FilasConNodos(g)) - 1 : FilasConNodos(g)[k + 1] = r

Carga(g) ==
    LET N == DOMAIN g.nodos
        I == DOMAIN g.conex
    IN  [nodos |-> [k \in Numeros(N) |-> FilaCargada(g.nodos[Original(k, N)], g)],
         conex |-> [k \in Numeros(I) |->
                      LET c == g.conex[Original(k, I)]
                      IN  [c EXCEPT !.in = Renumerado(@, N), !.out = Renumerado(@, N)]],
         filas |-> [k \in DOMAIN FilasConNodos(g) |-> k - 1]]

-----------------------------------------------------------------------------
(* eval                                                                    *)

\* every row with nodes but the first, in order
FilasEvaluadas(g) == Tail(FilasConNodos(g))

\* inverse_row_orderer_list: the positions of row 0, of row 1 and so on
Inversa(g) ==
    [r \in Range(g.filas) |-> CHOOSE k \in DOMAIN g.filas : g.filas[k] = r]

Recibe(g, n) == {i \in Habilitadas(g) : g.conex[i].out = n}

\* a connection that does not go forward brings the value of the last evaluation
Pasada(g, i) == Inversa(g)[g.nodos[g.conex[i].in]] >= Inversa(g)[g.nodos[g.conex[i].out]]

NodosDe(g, r) == {n \in DOMAIN g.nodos : g.nodos[n] = r}

-----------------------------------------------------------------------------
(* Properties                                                              *)

\* The loaded genome is the same network: the same nodes on each row in turn,
\* the same genes into each, in the same order, backward where they were, and
\* the inputs have the numbers eval expects.
MismaRed(g, h) ==
    LET N == DOMAIN g.nodos
        I == DOMAIN g.conex
    IN  /\ \A n \in Entradas : Renumerado(n, N) = n
        /\ Len(FilasEvaluadas(g)) = Len(FilasEvaluadas(h))
        /\ \A k \in DOMAIN FilasEvaluadas(g) :
             {Renumerado(n, N) : n \in NodosDe(g, FilasEvaluadas(g)[k])}
               = NodosDe(h, FilasEvaluadas(h)[k])
        /\ \A n \in N :
             {Renumerado(i, I) : i \in Recibe(g, n)} = Recibe(h, Renumerado(n, N))
        /\ \A i \in I :
             /\ Renumerado(g.conex[i].in, N) = h.conex[Renumerado(i, I)].in
             /\ Pasada(g, i) <=> Pasada(h, Renumerado(i, I))

\* It can be the seed of a population, "to go on training from this point"
\* (load): what InnovacionSupuestos asks of the loaded genome.
Siembra(h) ==
    /\ Range(h.nodos) = 0 .. Len(h.filas) - 1
    /\ \A i, j \in DOMAIN h.conex : Par(h.conex[i]) = Par(h.conex[j]) => i = j
    /\ \E i \in DOMAIN h.conex : h.conex[i].enable

\* Every genome the population ever sends to a client can be loaded, although
\* load indexes its tables by number, and comes out the same.
CargaFiel ==
    \A g \in organisms : Cargable(g) /\ MismaRed(g, Carga(g)) /\ Siembra(Carga(g))

=============================================================================
