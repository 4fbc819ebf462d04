-------------------------- MODULE InnovacionProofs --------------------------
(***************************************************************************)
(* Theorems about Innovacion, for any loaded genome, population size and   *)
(* number of epochs.                                                       *)
(***************************************************************************)
EXTENDS Carga, Ordenes

-----------------------------------------------------------------------------
(* Numbering the pairs of a set                                            *)

RegistroHasta(f, n) ==
    /\ n \in Nat
    /\ f \in [DOMAIN f -> 0 .. n - 1]
    /\ DOMAIN f \subseteq Nat \X Nat
    /\ IsInjective(f)

Crece(f, g) == DOMAIN f \subseteq DOMAIN g /\ \A p \in DOMAIN f : g[p] = f[p]

\* A registry that has given the numbers below n, asked for those of a finite
\* set of pairs in a total order ...
Numerable(f, n, pares, antes) ==
    /\ RegistroHasta(f, n)
    /\ IsFiniteSet(pares) /\ pares \subseteq Nat \X Nat
    /\ OrdenTotal(antes, pares)

\* ... is then the registry h, of the numbers below m.
NumeraBien(f, n, pares, h, m) ==
    /\ m \in Nat /\ m >= n
    /\ RegistroHasta(h, m)
    /\ Crece(f, h)
    /\ DOMAIN h = DOMAIN f \cup pares
    /\ \A p \in DOMAIN h : p \in DOMAIN f \/ h[p] >= n

\* It keeps the numbers it gave, gives new ones to the pairs it did not know,
\* and knows all of them.
LEMMA NumeraCorrecta ==
    ASSUME NEW f, NEW n, NEW pares, NEW antes, Numerable(f, n, pares, antes)
    PROVE  NumeraBien(f, n, pares, Numera(f, pares, n, antes), n + Cardinality(pares \ DOMAIN f))
<1> USE DEF Numerable
<1> DEFINE nuevos == pares \ DOMAIN f
           rango(p) == Cardinality({q \in nuevos : <<q, p>> \in antes})
           m == n + Cardinality(nuevos)
           h == Numera(f, pares, n, antes)
<1>1. IsFiniteSet(nuevos) /\ OrdenTotal(antes, nuevos)
  BY FS_Subset DEF OrdenTotal
<1>2. /\ \A p \in nuevos : rango(p) \in 0 .. Cardinality(nuevos) - 1
      /\ \A p, r \in nuevos : rango(p) = rango(r) => p = r
  <2> HIDE DEF nuevos
  <2> QED BY <1>1, Rangos
<1>3. Cardinality(nuevos) \in Nat
  BY <1>1, FS_CardinalityType
<1>4. /\ DOMAIN h = DOMAIN f \cup pares
      /\ \A p \in DOMAIN f : h[p] = f[p]
      /\ \A p \in nuevos : h[p] = n + rango(p)
      /\ h = [p \in DOMAIN h |-> h[p]]
  BY DEF Numera
<1>5. \A p \in DOMAIN f : f[p] \in 0 .. n - 1
  BY DEF RegistroHasta
<1>6. n \in Nat
  BY DEF RegistroHasta
<1> HIDE DEF h, rango, nuevos
<1>7. m \in Nat /\ m >= n
  BY <1>3, <1>6
<1>8. \A p \in nuevos : h[p] \in n .. m - 1
  BY <1>2, <1>3, <1>4, <1>6
<1>9. \A p \in DOMAIN h : p \in DOMAIN f \/ p \in nuevos
  BY <1>4 DEF nuevos
<1>10. h \in [DOMAIN h -> 0 .. m - 1]
  <2>1. \A p \in DOMAIN h : h[p] \in 0 .. m - 1
    BY <1>3, <1>4, <1>5, <1>6, <1>8, <1>9
  <2> HIDE DEF m
  <2> QED BY <2>1, <1>4
<1>11. IsInjective(h)
  <2> SUFFICES ASSUME NEW p \in DOMAIN h, NEW q \in DOMAIN h, h[p] = h[q]
               PROVE  p = q
    BY DEF IsInjective
  <2>1. CASE p \in DOMAIN f /\ q \in DOMAIN f
    BY <2>1, <1>4 DEF RegistroHasta, IsInjective
  <2>2. CASE p \in nuevos /\ q \in nuevos
    <3>1. rango(p) \in Nat /\ rango(q) \in Nat
      BY <2>2, <1>2, <1>3
    <3> QED BY <3>1, <2>2, <1>2, <1>4, <1>6
  <2>3. CASE p \in DOMAIN f /\ q \in nuevos
    BY <2>3, <1>4, <1>5, <1>6, <1>8
  <2>4. CASE p \in nuevos /\ q \in DOMAIN f
    BY <2>4, <1>4, <1>5, <1>6, <1>8
  <2> QED BY <2>1, <2>2, <2>3, <2>4, <1>9
<1>12. DOMAIN h \subseteq Nat \X Nat
  BY <1>4 DEF RegistroHasta
<1>13. \A p \in DOMAIN h : p \in DOMAIN f \/ h[p] >= n
  BY <1>6, <1>7, <1>8, <1>9
<1> QED BY <1>4, <1>7, <1>10, <1>11, <1>12, <1>13 DEF NumeraBien, RegistroHasta, Crece, h, nuevos, m

-----------------------------------------------------------------------------
(* Genes and registries                                                    *)

\* the genes of a genome with nodes N, against the numbers given so far
GenesBien(c, N, hi, li) ==
    /\ c \in [DOMAIN c -> Gen]
    /\ DOMAIN c \subseteq 0 .. li - 1
    /\ \A i \in DOMAIN c :
         /\ Par(c[i]) \in DOMAIN hi /\ hi[Par(c[i])] = i
         /\ c[i].in \in N /\ c[i].out \in N

Homologo(g, hi, li, ln) ==
    /\ DOMAIN g.nodos \subseteq 0 .. ln
    /\ GenesBien(g.conex, DOMAIN g.nodos, hi, li)

\* The registries are injective and no genome holds anything they did not give.
InvGenes ==
    /\ RegistroHasta(historical_innovation, last_innovation)
    /\ RegistroHasta(historical_nodes, last_node + 1)
    /\ last_node \in Nat
    /\ \A g \in Genomas \cup {Genoma0} : Homologo(g, historical_innovation, last_innovation, last_node)

LEMMA HomologoCrece ==
    ASSUME NEW g, NEW hi, NEW li \in Nat, NEW ln \in Nat, Homologo(g, hi, li, ln),
           NEW hi2, NEW li2 \in Nat, NEW ln2 \in Nat,
           Crece(hi, hi2), li <= li2, ln <= ln2
    PROVE  Homologo(g, hi2, li2, ln2)
<1>1. DOMAIN g.nodos \subseteq 0 .. ln2
  BY DEF Homologo
<1>2. GenesBien(g.conex, DOMAIN g.nodos, hi2, li2)
  <2>1. DOMAIN g.conex \subseteq 0 .. li2 - 1
    BY DEF Homologo, GenesBien
  <2>2. ASSUME NEW i \in DOMAIN g.conex
        PROVE  Par(g.conex[i]) \in DOMAIN hi2 /\ hi2[Par(g.conex[i])] = i
    BY DEF Homologo, GenesBien, Crece
  <2> QED BY <2>1, <2>2 DEF Homologo, GenesBien
<1> QED BY <1>1, <1>2 DEF Homologo

\* A gene is added under the number of its own pair.
LEMMA AgregaBien ==
    ASSUME NEW c, NEW N, N \subseteq Nat, NEW hi, NEW li, GenesBien(c, N, hi, li),
           RegistroHasta(hi, li), NEW in \in N, NEW out \in N, <<in, out>> \in DOMAIN hi
    PROVE  /\ GenesBien(AgregaConexion(c, hi[<<in, out>>], in, out), N, hi, li)
           /\ DOMAIN AgregaConexion(c, hi[<<in, out>>], in, out) = DOMAIN c \cup {hi[<<in, out>>]}
<1> DEFINE k == hi[<<in, out>>]
           nuevo == [in |-> in, out |-> out, enable |-> TRUE]
           d == AgregaConexion(c, k, in, out)
<1>1. k \in 0 .. li - 1
  BY DEF RegistroHasta
<1>2. nuevo \in Gen /\ Par(nuevo) = <<in, out>> /\ nuevo.in = in /\ nuevo.out = out
  BY DEF Gen, Par
<1> HIDE DEF nuevo
<1>3. CASE k \in DOMAIN c
  BY <1>3 DEF AgregaConexion
<1>4. CASE k \notin DOMAIN c
  <2>1. d = [j \in DOMAIN c \cup {k} |-> IF j = k THEN nuevo ELSE c[j]]
    BY <1>4 DEF AgregaConexion, Extiende, nuevo
  <2> HIDE DEF d, k
  <2>2. DOMAIN d = DOMAIN c \cup {k} /\ d[k] = nuevo /\ \A j \in DOMAIN c : d[j] = c[j]
    BY <2>1, <1>4
  <2>3. d \in [DOMAIN d -> Gen]
    BY <2>1, <1>2 DEF GenesBien
  <2>4. ASSUME NEW i \in DOMAIN d
        PROVE  Par(d[i]) \in DOMAIN hi /\ hi[Par(d[i])] = i /\ d[i].in \in N /\ d[i].out \in N
    <3>1. CASE i = k
      BY <3>1, <2>2, <1>2 DEF k
    <3>2. CASE i \in DOMAIN c
      BY <3>2, <2>2 DEF GenesBien
    <3> QED BY <3>1, <3>2, <2>2
  <2>5. DOMAIN d \subseteq 0 .. li - 1
    BY <2>2, <1>1 DEF GenesBien
  <2>6. GenesBien(d, N, hi, li)
    BY <2>3, <2>4, <2>5 DEF GenesBien
  <2> QED BY <2>2, <2>6 DEF d, k
<1> QED BY <1>3, <1>4

LEMMA DeshabilitaBien ==
    ASSUME NEW c, NEW N, NEW hi, NEW li, GenesBien(c, N, hi, li), NEW i \in DOMAIN c
    PROVE  GenesBien(Deshabilita(c, i), N, hi, li) /\ DOMAIN Deshabilita(c, i) = DOMAIN c
<1> DEFINE d == Deshabilita(c, i)
<1>1. DOMAIN d = DOMAIN c
  BY DEF Deshabilita
<1>2. ASSUME NEW j \in DOMAIN c
      PROVE  d[j] \in Gen /\ d[j].in = c[j].in /\ d[j].out = c[j].out
  BY DEF Deshabilita, GenesBien, Gen
<1>3. d \in [DOMAIN d -> Gen]
  BY <1>1, <1>2 DEF Deshabilita
<1> HIDE DEF d
<1>4. GenesBien(d, N, hi, li)
  BY <1>1, <1>2, <1>3 DEF GenesBien, Par
<1> QED BY <1>1, <1>4 DEF d

LEMMA MasNodos ==
    ASSUME NEW c, NEW N, NEW hi, NEW li, GenesBien(c, N, hi, li), NEW M, N \subseteq M
    PROVE  GenesBien(c, M, hi, li)
  BY DEF GenesBien

LEMMA GenCruzado ==
    ASSUME NEW i, NEW c \in Gen, NEW d \in Gen, NEW G, NEW R
    PROVE  /\ CruzaGen(i, c, d, G, R) \in Gen
           /\ Par(CruzaGen(i, c, d, G, R)) \in {Par(c), Par(d)}
<1>1. CASE c.enable /\ d.enable
  BY <1>1 DEF CruzaGen
<1>2. CASE ~(c.enable /\ d.enable)
  <2>1. PICK b \in {c, d} : CruzaGen(i, c, d, G, R) = [b EXCEPT !.enable = i \in R]
    <3>1. CASE ~c.enable
      BY <3>1, <1>2 DEF CruzaGen
    <3>2. CASE c.enable
      BY <3>2, <1>2 DEF CruzaGen
    <3> QED BY <3>1, <3>2
  <2>2. [b EXCEPT !.enable = i \in R] \in Gen /\ Par([b EXCEPT !.enable = i \in R]) = Par(b)
    <3>1. b.in \in Nat /\ b.out \in Nat /\ b.enable \in BOOLEAN
          /\ b = [in |-> b.in, out |-> b.out, enable |-> b.enable]
      BY <2>1 DEF Gen
    <3>2. [b EXCEPT !.enable = i \in R] = [in |-> b.in, out |-> b.out, enable |-> i \in R]
      BY <3>1
    <3>3. (i \in R) \in BOOLEAN
      OBVIOUS
    <3> QED BY <3>1, <3>2, <3>3 DEF Gen, Par
  <2> QED BY <2>1, <2>2
<1> QED BY <1>1, <1>2

\* Crossover takes each gene from a parent, and with the genes all the nodes.
LEMMA CruceBien ==
    ASSUME NEW a, NEW b, NEW hi, NEW li, NEW ln,
           Homologo(a, hi, li, ln), Homologo(b, hi, li, ln), NEW G, NEW M, NEW R
    PROVE  /\ Homologo(Cruce(a, b, G, M, R), hi, li, ln)
           /\ DOMAIN Cruce(a, b, G, M, R).nodos = DOMAIN a.nodos \cup DOMAIN b.nodos
           /\ DOMAIN Cruce(a, b, G, M, R).conex = DOMAIN a.conex \cup DOMAIN b.conex
<1> DEFINE c == Cruce(a, b, G, M, R).conex
           n == Cruce(a, b, G, M, R).nodos
<1>1. DOMAIN n = DOMAIN a.nodos \cup DOMAIN b.nodos
  BY DEF Cruce, Une
<1>2. DOMAIN c = DOMAIN a.conex \cup DOMAIN b.conex
  BY DEF Cruce, Une
<1>3. c = [i \in DOMAIN a.conex \cup DOMAIN b.conex |->
             IF i \in DOMAIN a.conex \cap DOMAIN b.conex
             THEN CruzaGen(i, a.conex[i], b.conex[i], G, R)
             ELSE IF i \in DOMAIN a.conex THEN a.conex[i] ELSE b.conex[i]]
  BY DEF Cruce, Une
<1> HIDE DEF c, n
<1>4. ASSUME NEW i \in DOMAIN c
      PROVE  /\ c[i] \in Gen
             /\ \/ i \in DOMAIN a.conex /\ Par(c[i]) = Par(a.conex[i])
                \/ i \in DOMAIN b.conex /\ Par(c[i]) = Par(b.conex[i])
  <2>1. CASE i \notin DOMAIN b.conex
    BY <2>1, <1>2, <1>3 DEF Homologo, GenesBien
  <2>2. CASE i \notin DOMAIN a.conex
    BY <2>2, <1>2, <1>3 DEF Homologo, GenesBien
  <2>3. CASE i \in DOMAIN a.conex /\ i \in DOMAIN b.conex
    <3>1. c[i] = CruzaGen(i, a.conex[i], b.conex[i], G, R)
      BY <2>3, <1>2, <1>3
    <3>2. a.conex[i] \in Gen /\ b.conex[i] \in Gen
      BY <2>3 DEF Homologo, GenesBien
    <3>3. c[i] \in Gen /\ Par(c[i]) \in {Par(a.conex[i]), Par(b.conex[i])}
      BY <3>1, <3>2, GenCruzado
    <3> QED BY <2>3, <3>3
  <2> QED BY <2>1, <2>2, <2>3
<1>5. c \in [DOMAIN c -> Gen]
  BY <1>2, <1>3, <1>4
<1>6. ASSUME NEW i \in DOMAIN c
      PROVE  /\ Par(c[i]) \in DOMAIN hi /\ hi[Par(c[i])] = i
             /\ c[i].in \in DOMAIN n /\ c[i].out \in DOMAIN n
  BY <1>1, <1>4 DEF Homologo, GenesBien, Par
<1>7. DOMAIN c \subseteq 0 .. li - 1
  BY <1>2 DEF Homologo, GenesBien
<1>8. GenesBien(c, DOMAIN n, hi, li)
  BY <1>5, <1>6, <1>7 DEF GenesBien
<1>9. DOMAIN n \subseteq 0 .. ln
  BY <1>1 DEF Homologo
<1> QED BY <1>1, <1>2, <1>8, <1>9 DEF Homologo, c, n

LEMMA ParesFinitos == \A n \in Nat : IsFiniteSet((0 .. n) \X (0 .. n))
<1> SUFFICES ASSUME NEW n \in Nat PROVE IsFiniteSet((0 .. n) \X (0 .. n))
  OBVIOUS
<1>1. 0 \in Int /\ n \in Int
  OBVIOUS
<1>2. IsFiniteSet(0 .. n)
  BY <1>1, FS_Interval, Zenon
<1> QED BY <1>2, FS_Product, Zenon

\* The order of the genes, and that of the nodes, is one of the pairs they make.
LEMMA ParesDeGenes ==
    ASSUME NEW g, NEW hi, NEW li, NEW ln \in Nat, Homologo(g, hi, li, ln)
    PROVE  /\ ParesHabilitados(g) \subseteq Nat \X Nat /\ IsFiniteSet(ParesHabilitados(g))
           /\ OrdenTotal(OrdenDeGenes(g), ParesHabilitados(g))
<1>1. ParesHabilitados(g) \in SUBSET ((0 .. ln) \X (0 .. ln))
  BY DEF ParesHabilitados, Habilitadas, Homologo, GenesBien, Par
<1>2. IsFiniteSet((0 .. ln) \X (0 .. ln))
  BY ParesFinitos
<1>3. IsFiniteSet(ParesHabilitados(g))
  BY <1>1, <1>2, FS_Subset
<1>4. \A i \in Habilitadas(g) : i \in Int /\ hi[Par(g.conex[i])] = i
  BY DEF Habilitadas, Homologo, GenesBien
<1>5. \A p \in ParesHabilitados(g) : \E i \in Habilitadas(g) : p = Par(g.conex[i])
  BY DEF ParesHabilitados
<1>6. \A p, q \in ParesHabilitados(g) :
        <<p, q>> \in OrdenDeGenes(g) <=> hi[p] < hi[q]
  <2> SUFFICES ASSUME NEW p \in ParesHabilitados(g), NEW q \in ParesHabilitados(g)
               PROVE  <<p, q>> \in OrdenDeGenes(g) <=> hi[p] < hi[q]
    OBVIOUS
  <2>1. PICK i \in Habilitadas(g) : p = Par(g.conex[i])
    BY <1>5
  <2>2. PICK j \in Habilitadas(g) : q = Par(g.conex[j])
    BY <1>5
  <2>3. ASSUME <<p, q>> \in OrdenDeGenes(g) PROVE hi[p] < hi[q]
    <3>1. PICK k \in Habilitadas(g), m \in Habilitadas(g) :
             k < m /\ p = Par(g.conex[k]) /\ q = Par(g.conex[m])
      BY <2>3 DEF OrdenDeGenes
    <3> QED BY <3>1, <1>4
  <2>4. ASSUME hi[p] < hi[q] PROVE <<p, q>> \in OrdenDeGenes(g)
    <3>1. i < j
      BY <2>4, <2>1, <2>2, <1>4
    <3> QED BY <3>1, <2>1, <2>2 DEF OrdenDeGenes
  <2> QED BY <2>3, <2>4
<1>7. \A p, q \in ParesHabilitados(g) : hi[p] \in Int /\ (hi[p] = hi[q] => p = q)
  BY <1>4, <1>5
<1>8. OrdenTotal(OrdenDeGenes(g), ParesHabilitados(g))
  BY <1>6, <1>7 DEF OrdenTotal
<1>9. ParesHabilitados(g) \subseteq Nat \X Nat
  BY <1>1
<1> QED BY <1>3, <1>8, <1>9

LEMMA ParesOrdenados ==
    ASSUME NEW g, NEW ln \in Nat, DOMAIN g.nodos \subseteq 0 .. ln
    PROVE  /\ ParesDeNodos(g) \subseteq Nat \X Nat /\ IsFiniteSet(ParesDeNodos(g))
           /\ OrdenTotal(OrdenDeNodos(ParesDeNodos(g)), ParesDeNodos(g))
<1>1. ParesDeNodos(g) \in SUBSET ((0 .. ln) \X (0 .. ln))
  BY DEF ParesDeNodos
<1>2. IsFiniteSet((0 .. ln) \X (0 .. ln))
  BY ParesFinitos
<1>3. IsFiniteSet(ParesDeNodos(g))
  BY <1>1, <1>2, FS_Subset
<1>4. \A p \in ParesDeNodos(g) : p[1] \in Int /\ p[2] \in Int /\ p = <<p[1], p[2]>>
  BY <1>1
<1>5. \A p, q \in ParesDeNodos(g) :
        <<p, q>> \in OrdenDeNodos(ParesDeNodos(g)) <=>
          p[1] < q[1] \/ (p[1] = q[1] /\ p[2] < q[2])
  BY DEF OrdenDeNodos
<1>6. OrdenTotal(OrdenDeNodos(ParesDeNodos(g)), ParesDeNodos(g))
  BY <1>4, <1>5 DEF OrdenTotal
<1>7. ParesDeNodos(g) \subseteq Nat \X Nat
  BY <1>1
<1> QED BY <1>3, <1>6, <1>7

\* What a step has to keep: the invariant, and every number given.
Conserva ==
    /\ InvGenes'
    /\ Crece(historical_innovation, historical_innovation')
    /\ Crece(historical_nodes, historical_nodes')

\* It does with registries that grow and stay injective, and at most one genome
\* that was not there.
LEMMA GenesSeConservan ==
    ASSUME InvGenes,
           RegistroHasta(historical_innovation', last_innovation'),
           RegistroHasta(historical_nodes', last_node' + 1), last_node' \in Nat,
           Crece(historical_innovation, historical_innovation'),
           Crece(historical_nodes, historical_nodes'),
           last_innovation <= last_innovation', last_node <= last_node',
           NEW x, Genomas' \subseteq Genomas \cup {Genoma0, x},
           Homologo(x, historical_innovation', last_innovation', last_node')
    PROVE  Conserva
<1>1. ASSUME NEW g \in Genomas \cup {Genoma0}
      PROVE  Homologo(g, historical_innovation', last_innovation', last_node')
  BY HomologoCrece DEF InvGenes, RegistroHasta
<1>2. \A g \in (Genomas \cup {Genoma0})' :
        Homologo(g, historical_innovation', last_innovation', last_node')
  BY <1>1 DEF Genoma0
<1> QED BY <1>2 DEF InvGenes, Conserva

LEMMA InicioGenes == Init => InvGenes
<1> SUFFICES ASSUME Init PROVE InvGenes
  OBVIOUS
<1> USE InnovacionSupuestos
<1> DEFINE hi == historical_innovation
<1>1. DOMAIN hi = {Par(Conexiones0[i]) : i \in DOMAIN Conexiones0}
  BY DEF Init
<1>2. \A i \in DOMAIN Conexiones0 : Par(Conexiones0[i]) \in DOMAIN hi /\ hi[Par(Conexiones0[i])] = i
  <2> SUFFICES ASSUME NEW i \in DOMAIN Conexiones0
               PROVE  Par(Conexiones0[i]) \in DOMAIN hi /\ hi[Par(Conexiones0[i])] = i
    OBVIOUS
  <2>1. hi[Par(Conexiones0[i])]
          = CHOOSE j \in DOMAIN Conexiones0 : Par(Conexiones0[j]) = Par(Conexiones0[i])
    BY DEF Init
  <2> QED BY <1>1, <2>1 DEF InnovacionSupuestos
<1>3. DOMAIN Conexiones0 = 0 .. CONEXIONES0 - 1 /\ DOMAIN Nodos0 = 0 .. NODOS0 - 1
      /\ \A i \in DOMAIN Conexiones0 : Conexiones0[i] \in Gen
  BY DEF InnovacionSupuestos
<1>4. last_innovation = CONEXIONES0 /\ last_node = NODOS0 - 1 /\ last_innovation \in Nat /\ last_node \in Nat
  BY DEF Init, InnovacionSupuestos
<1>5. RegistroHasta(hi, last_innovation)
  <2>1. \A p \in DOMAIN hi : \E i \in DOMAIN Conexiones0 : p = Par(Conexiones0[i])
    BY <1>1
  <2>2. hi = [p \in DOMAIN hi |-> hi[p]]
    BY DEF Init
  <2> HIDE DEF hi
  <2>3. hi \in [DOMAIN hi -> 0 .. last_innovation - 1]
    BY <2>1, <2>2, <1>2, <1>3, <1>4
  <2>4. IsInjective(hi)
    BY <2>1, <1>2 DEF IsInjective
  <2>5. DOMAIN hi \subseteq Nat \X Nat
    BY <2>1, <1>3 DEF Par, Gen
  <2> QED BY <1>4, <2>3, <2>4, <2>5 DEF RegistroHasta
<1>6. RegistroHasta(historical_nodes, last_node + 1)
  <2>1. historical_nodes = [p \in {} |-> 0]
    BY DEF Init
  <2>2. DOMAIN historical_nodes = {} /\ historical_nodes \in [DOMAIN historical_nodes -> 0 .. (last_node + 1) - 1]
    BY <2>1
  <2> QED BY <2>2, <1>4 DEF RegistroHasta, IsInjective
<1>7. Genomas \cup {Genoma0} = {Genoma0}
  BY DEF Genomas, Init
<1>8. Homologo(Genoma0, hi, last_innovation, last_node)
  <2>1. Genoma0.nodos = Nodos0 /\ Genoma0.conex = Conexiones0
    BY DEF Genoma0
  <2> HIDE DEF hi
  <2>2. Conexiones0 \in [DOMAIN Conexiones0 -> Gen]
    BY DEF InnovacionSupuestos
  <2>3. \A i \in DOMAIN Conexiones0 :
          Conexiones0[i].in \in DOMAIN Nodos0 /\ Conexiones0[i].out \in DOMAIN Nodos0
    BY DEF InnovacionSupuestos
  <2>4. GenesBien(Conexiones0, DOMAIN Nodos0, hi, last_innovation)
    BY <1>2, <1>3, <1>4, <2>2, <2>3 DEF GenesBien
  <2> QED BY <2>1, <2>4, <1>3, <1>4 DEF Homologo
<1> QED BY <1>4, <1>5, <1>6, <1>7, <1>8 DEF InvGenes

\* The innovation registry has grown by the pairs it was asked for.
InnovaBien(pares) ==
    /\ RegistroHasta(historical_innovation', last_innovation')
    /\ Crece(historical_innovation, historical_innovation')
    /\ last_innovation <= last_innovation' /\ last_innovation' \in Nat
    /\ pares \subseteq DOMAIN historical_innovation'

LEMMA InnovacionBien ==
    ASSUME InvGenes, NEW pares, IsFiniteSet(pares), pares \subseteq Nat \X Nat,
           NEW antes, OrdenTotal(antes, pares), Innova(pares, antes)
    PROVE  InnovaBien(pares)
<1>1. Numerable(historical_innovation, last_innovation, pares, antes)
  BY DEF InvGenes, Numerable
<1>2. NumeraBien(historical_innovation, last_innovation, pares,
                 historical_innovation', last_innovation')
  BY <1>1, NumeraCorrecta DEF Innova
<1>3. last_innovation \in Nat
  BY DEF InvGenes, RegistroHasta
<1> QED BY <1>2, <1>3 DEF InnovaBien, NumeraBien

LEMMA MutacionNodoGenes ==
    ASSUME InvGenes, MutacionNodo
    PROVE  Conserva
<1> DEFINE g == hijo
           pares == ParesHabilitados(g)
           nodes == Numera(historical_nodes, pares, last_node + 1, OrdenDeGenes(g))
<1>1. Homologo(g, historical_innovation, last_innovation, last_node)
  BY DEF InvGenes, Genomas
<1>2. last_node \in Nat /\ last_innovation \in Nat
  BY DEF InvGenes, RegistroHasta
<1>3. NumeraBien(historical_nodes, last_node + 1, pares, nodes,
                 last_node + 1 + Cardinality(pares \ DOMAIN historical_nodes))
  <2>1. Numerable(historical_nodes, last_node + 1, pares, OrdenDeGenes(g))
    BY <1>1, <1>2, ParesDeGenes DEF InvGenes, Numerable
  <2> HIDE DEF pares, g
  <2> QED BY <2>1, NumeraCorrecta
<1>4. /\ historical_nodes' = nodes
      /\ last_node' = last_node + Cardinality(pares \ DOMAIN historical_nodes)
      /\ organisms' = organisms /\ prev_organisms' = prev_organisms
  BY DEF MutacionNodo, poblacion
<1>5. /\ last_node' \in Nat /\ last_node <= last_node'
      /\ RegistroHasta(historical_nodes', last_node' + 1)
      /\ Crece(historical_nodes, historical_nodes')
  <2> DEFINE k == Cardinality(pares \ DOMAIN historical_nodes)
  <2>1. last_node + 1 + k >= last_node + 1 /\ last_node + 1 + k \in Nat /\ last_node' = last_node + k
      /\ RegistroHasta(nodes, last_node + 1 + k)
    BY <1>3, <1>4 DEF NumeraBien
  <2>2. k \in Int
    <3>1. IsFiniteSet(pares \ DOMAIN historical_nodes)
      BY <1>1, <1>2, ParesDeGenes, FS_Subset
    <3> QED BY <3>1, FS_CardinalityType
  <2> HIDE DEF k
  <2>3. last_node + 1 + k = last_node' + 1
    BY <2>1, <2>2, <1>2
  <2>4. Crece(historical_nodes, historical_nodes')
    BY <1>3, <1>4 DEF NumeraBien
  <2>5. RegistroHasta(historical_nodes', last_node' + 1)
    BY <2>1, <2>3, <1>4, Zenon
  <2>6. last_node' \in Nat /\ last_node <= last_node'
    BY <2>1, <2>2, <1>2
  <2> QED BY <2>4, <2>5, <2>6
<1>6. CASE Aborta
  <2>1. Genomas' \subseteq Genomas \cup {Genoma0, g}
    BY <1>4, <1>6 DEF Aborta, Genomas
  <2>2. /\ historical_innovation' = historical_innovation /\ last_innovation' = last_innovation
    BY <1>6 DEF Aborta
  <2>3. Crece(historical_innovation, historical_innovation')
    BY <2>2 DEF Crece
  <2>4. Homologo(g, historical_innovation', last_innovation', last_node')
    BY <1>1, <1>2, <1>5, <2>2, <2>3, HomologoCrece
  <2> HIDE DEF g
  <2> QED BY <1>2, <1>5, <2>1, <2>2, <2>3, <2>4, GenesSeConservan DEF InvGenes
<1>7. ASSUME NEW i \in Partibles(g, nodes), Parte(g, i, nodes[Par(g.conex[i])])
      PROVE  Conserva
  <2> DEFINE node == nodes[Par(g.conex[i])]
             in == g.conex[i].in
             out == g.conex[i].out
             uno == <<in, node>>
             otro == <<node, out>>
             hi == historical_innovation'
  <2>1. /\ i \in DOMAIN g.conex /\ node \notin DOMAIN g.nodos /\ Par(g.conex[i]) \in pares
    BY DEF Partibles, Habilitadas, ParesHabilitados
  <2>2. in \in DOMAIN g.nodos /\ out \in DOMAIN g.nodos /\ in \in 0 .. last_node /\ out \in 0 .. last_node
    BY <2>1, <1>1 DEF Homologo, GenesBien
  <2>3. node \in 0 .. last_node'
    <3>1. node \in 0 .. (last_node' + 1) - 1
      BY <2>1, <1>3, <1>4, <1>5 DEF RegistroHasta, NumeraBien
    <3> QED BY <3>1, <1>5
  <2>4. uno # otro
    BY <2>1, <2>2
  <2>5. Innova({uno, otro}, {<<uno, otro>>})
    BY <1>7 DEF Parte
  <2>6. /\ RegistroHasta(hi, last_innovation')
        /\ Crece(historical_innovation, hi) /\ last_innovation <= last_innovation'
        /\ uno \in DOMAIN hi /\ otro \in DOMAIN hi /\ last_innovation' \in Nat
    <3>1. uno \in Nat \X Nat /\ otro \in Nat \X Nat
      BY <2>2, <2>3, <1>2, <1>5
    <3> HIDE DEF uno, otro
    <3>2. IsFiniteSet({uno, otro})
      <4>1. IsFiniteSet({uno}) /\ IsFiniteSet({otro})
        BY FS_Singleton
      <4>2. {uno, otro} = {uno} \cup {otro}
        OBVIOUS
      <4> QED BY <4>1, <4>2, FS_Union
    <3>3. OrdenTotal({<<uno, otro>>}, {uno, otro})
      BY <2>4 DEF OrdenTotal
    <3>4. RegistroHasta(historical_innovation, last_innovation)
      BY DEF InvGenes
    <3>5. {uno, otro} \subseteq Nat \X Nat
      BY <3>1
    <3>6. InnovaBien({uno, otro})
      BY <2>5, <3>2, <3>3, <3>5, InnovacionBien
    <3> QED BY <3>6 DEF InnovaBien
  <2> DEFINE nodos == Extiende(g.nodos, node, FilaObtenida(node, g.nodos[in]))
             c0 == Deshabilita(g.conex, i)
             c1 == AgregaConexion(c0, hi[uno], in, node)
             c2 == AgregaConexion(c1, hi[otro], node, out)
             N == DOMAIN nodos
  <2>7. hijo' = [nodos |-> nodos, conex |-> c2, filas |-> row_orderer_list']
    BY <1>7 DEF Parte
  <2>8. N = DOMAIN g.nodos \cup {node}
    BY DEF Extiende
  <2>9. Homologo(g, hi, last_innovation', last_node')
    BY <1>1, <1>2, <1>5, <2>6, HomologoCrece
  <2>10. N \subseteq Nat /\ N \subseteq 0 .. last_node'
    BY <2>3, <2>8, <2>9, <1>5 DEF Homologo
  <2>11. node \in N /\ in \in N /\ out \in N
    BY <2>2, <2>8
  <2> HIDE DEF nodos, c2, c1, c0, node, in, out, g, nodes, pares, hi
  <2>12. GenesBien(g.conex, DOMAIN g.nodos, hi, last_innovation')
    BY <2>9 DEF Homologo
  <2>13. GenesBien(c0, N, hi, last_innovation')
    <3>1. GenesBien(g.conex, N, hi, last_innovation')
      BY <2>8, <2>12, MasNodos
    <3> QED BY <2>1, <3>1, DeshabilitaBien DEF c0
  <2>14. GenesBien(c1, N, hi, last_innovation')
    BY <2>6, <2>10, <2>11, <2>13, AgregaBien DEF c1
  <2>15. GenesBien(c2, N, hi, last_innovation')
    BY <2>6, <2>10, <2>11, <2>14, AgregaBien DEF c2
  <2>16. Homologo(hijo', hi, last_innovation', last_node')
    BY <2>7, <2>10, <2>15 DEF Homologo
  <2>17. Genomas' \subseteq Genomas \cup {Genoma0, hijo'}
    BY <1>4 DEF Genomas
  <2> QED BY <1>5, <2>6, <2>16, <2>17, GenesSeConservan DEF hi
<1> QED BY <1>6, <1>7 DEF MutacionNodo

LEMMA MutacionConexionGenes ==
    ASSUME InvGenes, MutacionConexion
    PROVE  Conserva
<1> DEFINE g == hijo
           pares == ParesDeNodos(g)
           hi == historical_innovation'
<1>1. Homologo(g, historical_innovation, last_innovation, last_node)
  BY DEF InvGenes, Genomas
<1>2. last_node \in Nat /\ last_innovation \in Nat
  BY DEF InvGenes, RegistroHasta
<1>3. InnovaBien(pares)
  <2>1. Innova(pares, OrdenDeNodos(pares))
    BY DEF MutacionConexion
  <2>2. /\ pares \subseteq Nat \X Nat /\ IsFiniteSet(pares)
        /\ OrdenTotal(OrdenDeNodos(pares), pares)
    BY <1>1, <1>2, ParesOrdenados DEF Homologo
  <2> HIDE DEF pares
  <2> QED BY <2>1, <2>2, InnovacionBien
<1>4. last_node' = last_node /\ historical_nodes' = historical_nodes
  BY DEF MutacionConexion, Nace
<1>5. Homologo(g, hi, last_innovation', last_node')
  BY <1>1, <1>2, <1>3, <1>4, HomologoCrece DEF InnovaBien
<1>6. ASSUME NEW x, Nace(x), Homologo(x, hi, last_innovation', last_node')
      PROVE  Conserva
  <2>1. Genomas' \subseteq Genomas \cup {Genoma0, x}
    BY <1>6 DEF Nace, Genomas
  <2>2. /\ RegistroHasta(historical_nodes', last_node' + 1) /\ last_node <= last_node'
        /\ Crece(historical_nodes, historical_nodes')
    BY <1>2, <1>4 DEF InvGenes, Crece
  <2> QED BY <1>2, <1>3, <1>4, <1>6, <2>1, <2>2, GenesSeConservan DEF InnovaBien
<1>7. ASSUME NEW p \in pares,
             Nace([g EXCEPT !.conex = AgregaConexion(@, hi[p], p[1], p[2])])
      PROVE  Conserva
  <2> DEFINE c == AgregaConexion(g.conex, hi[p], p[1], p[2])
             x == [g EXCEPT !.conex = c]
  <2>1. p[1] \in DOMAIN g.nodos /\ p[2] \in DOMAIN g.nodos /\ p = <<p[1], p[2]>> /\ p \in DOMAIN hi
    BY <1>3 DEF ParesDeNodos, InnovaBien
  <2>2. DOMAIN g.nodos \subseteq Nat
    BY <1>1, <1>2 DEF Homologo
  <2>3. GenesBien(c, DOMAIN g.nodos, hi, last_innovation')
    <3>1. /\ GenesBien(g.conex, DOMAIN g.nodos, hi, last_innovation')
          /\ RegistroHasta(hi, last_innovation')
      BY <1>3, <1>5 DEF Homologo, InnovaBien
    <3> HIDE DEF g
    <3>2. PICK in \in DOMAIN g.nodos, out \in DOMAIN g.nodos : in = p[1] /\ out = p[2]
      BY <2>1
    <3>3. <<in, out>> \in DOMAIN hi /\ c = AgregaConexion(g.conex, hi[<<in, out>>], in, out)
      BY <2>1, <3>2
    <3> HIDE DEF hi, c
    <3>4. GenesBien(AgregaConexion(g.conex, hi[<<in, out>>], in, out), DOMAIN g.nodos,
                    hi, last_innovation')
      BY <3>1, <3>3, <2>2, AgregaBien
    <3> QED BY <3>3, <3>4
  <2>4. x.nodos = g.nodos /\ x.conex = c
    BY DEF ParesDeNodos
  <2> QED BY <1>5, <1>6, <1>7, <2>3, <2>4 DEF Homologo
<1> QED BY <1>5, <1>6, <1>7 DEF MutacionConexion

\* A step that leaves the registries as they are and brings one known genome.
LEMMA SinRegistrar ==
    ASSUME InvGenes, UNCHANGED registros, NEW x, Genomas' \subseteq Genomas \cup {Genoma0, x},
           Homologo(x, historical_innovation, last_innovation, last_node)
    PROVE  Conserva
<1>1. /\ historical_innovation' = historical_innovation /\ last_innovation' = last_innovation
      /\ historical_nodes' = historical_nodes /\ last_node' = last_node
  BY DEF registros
<1>2. last_node \in Nat /\ last_innovation \in Nat
  BY DEF InvGenes, RegistroHasta
<1>3. Crece(historical_innovation, historical_innovation') /\ Crece(historical_nodes, historical_nodes')
  BY <1>1 DEF Crece
<1> QED BY <1>1, <1>2, <1>3, GenesSeConservan DEF InvGenes

LEMMA PasoGenes == InvGenes /\ [Next]_vars => Conserva
<1> SUFFICES ASSUME InvGenes, [Next]_vars PROVE Conserva
  OBVIOUS
<1> DEFINE Bien(x) == Homologo(x, historical_innovation, last_innovation, last_node)
<1>1. \A x \in Genomas \cup {Genoma0} : Bien(x)
  BY DEF InvGenes
<1>2. ASSUME NEW x, Engendra(x), Bien(x) PROVE Conserva
  <2>1. UNCHANGED registros /\ Genomas' \subseteq Genomas \cup {Genoma0, x}
    BY <1>2 DEF Engendra, Genomas, poblacion
  <2> QED BY <2>1, <1>2, SinRegistrar
<1>3. CASE ComienzaEpoca
  <2>1. UNCHANGED registros /\ Genomas' \subseteq Genomas \cup {Genoma0, Genoma0}
    BY <1>3 DEF ComienzaEpoca, Genomas
  <2> QED BY <2>1, <1>1, SinRegistrar
<1>4. CASE MutacionPesos
  BY <1>1, <1>2, <1>4 DEF MutacionPesos, Genomas
<1>5. CASE Cruza
  <2>1. PICK padre \in prev_organisms, madre \in prev_organisms :
           \E G, M, R : Engendra(Cruce(padre, madre, G, M, R))
    BY <1>5 DEF Cruza
  <2>2. PICK G, M, R : Engendra(Cruce(padre, madre, G, M, R))
    BY <2>1
  <2>3. Bien(padre) /\ Bien(madre)
    BY <1>1 DEF Genomas
  <2>4. Bien(Cruce(padre, madre, G, M, R))
    BY <2>3, CruceBien
  <2> QED BY <2>2, <2>4, <1>2
<1>6. CASE MutacionNodo
  BY <1>6, MutacionNodoGenes
<1>7. CASE SinNodo
  <2>1. UNCHANGED registros /\ Genomas' \subseteq Genomas \cup {Genoma0, Genoma0}
    BY <1>7 DEF SinNodo, Genomas, poblacion
  <2> QED BY <2>1, <1>1, SinRegistrar
<1>8. CASE MutacionConexion
  BY <1>8, MutacionConexionGenes
<1>9. CASE SinConexion
  <2>1. UNCHANGED registros /\ Genomas' \subseteq Genomas \cup {Genoma0, hijo} /\ hijo \in Genomas
    BY <1>9 DEF SinConexion, Nace, Genomas, registros
  <2> QED BY <2>1, <1>1, SinRegistrar
<1>10. CASE UNCHANGED vars
  <2>1. UNCHANGED registros /\ Genomas' \subseteq Genomas \cup {Genoma0, Genoma0}
    BY <1>10 DEF vars, poblacion, Genomas
  <2> QED BY <2>1, <1>1, SinRegistrar
<1> QED BY <1>3, <1>4, <1>5, <1>6, <1>7, <1>8, <1>9, <1>10 DEF Next

LEMMA SiempreGenes == Spec => []InvGenes
<1>1. InvGenes /\ [Next]_vars => InvGenes'
  BY PasoGenes DEF Conserva
<1> QED BY <1>1, InicioGenes, PTL DEF Spec

-----------------------------------------------------------------------------
(* What follows                                                            *)

\* A gene joins, in every genome, the nodes its number is registered for.
THEOREM GenesSiempreConformes == Spec => []GenesConformes
<1>1. InvGenes => GenesConformes
  BY DEF InvGenes, Homologo, GenesBien, GenesConformes
<1> QED BY <1>1, SiempreGenes, PTL

\* Every genome has both nodes of each of its genes.
THEOREM ExtremosSiemprePresentes == Spec => []ExtremosPresentes
<1>1. InvGenes => ExtremosPresentes
  BY DEF InvGenes, Homologo, GenesBien, ExtremosPresentes
<1> QED BY <1>1, SiempreGenes, PTL

\* Both registries implement Registro: a structure keeps the number it was given
\* and no number is given twice, across mutations, crossovers and epochs.
THEOREM RegistroCorrecto == Spec => ImplementaRegistro
<1>1. InvGenes => Innovaciones!Init /\ Particiones!Init
  BY DEF InvGenes, RegistroHasta, IsInjective, Innovaciones!Init, Innovaciones!IsInjective,
         Particiones!Init, Particiones!IsInjective
<1>2. InvGenes /\ Conserva => Innovaciones!Asigna /\ Particiones!Asigna
  BY DEF InvGenes, RegistroHasta, Conserva, Crece, IsInjective,
         Innovaciones!Asigna, Innovaciones!IsInjective, Particiones!Asigna, Particiones!IsInjective
<1>3. InvGenes /\ [Next]_vars
        => [Innovaciones!Asigna]_historical_innovation /\ [Particiones!Asigna]_historical_nodes
  BY <1>2, PasoGenes
<1> QED BY <1>1, <1>3, SiempreGenes, PTL
        DEF Spec, ImplementaRegistro, Innovaciones!Spec, Particiones!Spec

-----------------------------------------------------------------------------
(* The rows                                                                *)

\* An order of the rows below n that ends with the outputs'.
OrdenBien(R, n) ==
    /\ n \in Nat \ {0}
    /\ R \in [1 .. n -> 0 .. n - 1]
    /\ IsInjective(R)
    /\ \A r \in 0 .. n - 1 : \E k \in 1 .. n : R[k] = r
    /\ R[n] = FILAS0 - 1

\* A genome's own order agrees with the order R of the rows below n.
FilasBien(g, R, n) ==
    /\ Len(g.filas) <= n
    /\ OrdenBien(g.filas, Len(g.filas))
    /\ \A x \in DOMAIN g.nodos : g.nodos[x] \in 0 .. Len(g.filas) - 1
    /\ \A j, k \in 1 .. Len(g.filas) : j < k => EnOrden(R, g.filas[j], g.filas[k])

\* Every node that is not a loaded one split a connection of the genome, whose
\* nodes are still there with the gene that enters it; its row is registered,
\* unless those nodes are on one row, and then it is on that one too.
Desciende(g, hn, hr) ==
    \A x \in DOMAIN g.nodos :
      /\ x \in DOMAIN hr => g.nodos[x] = hr[x]
      /\ x >= NODOS0 => \E p \in DOMAIN hn :
            /\ hn[p] = x /\ p[1] \in DOMAIN g.nodos /\ p[2] \in DOMAIN g.nodos
            /\ \E i \in DOMAIN g.conex : Par(g.conex[i]) = <<p[1], x>>
            /\ x \notin DOMAIN hr => g.nodos[p[1]] = g.nodos[x] /\ g.nodos[p[2]] = g.nodos[x]

\* A genome has the loaded genes, and a gene is disabled only by its split or
\* because it was loaded so.
Activo(g, hn) ==
    /\ DOMAIN Conexiones0 \subseteq DOMAIN g.conex
    /\ \A i \in DOMAIN g.conex : ~g.conex[i].enable =>
         \/ Par(g.conex[i]) \in DOMAIN hn /\ hn[Par(g.conex[i])] \in DOMAIN g.nodos
         \/ i \in DOMAIN Conexiones0 /\ ~Conexiones0[i].enable

Linaje(g, hn, hr, R, n) ==
    /\ DOMAIN g = {"nodos", "conex", "filas"}
    /\ FilasBien(g, R, n) /\ Desciende(g, hn, hr) /\ Activo(g, hn)

Coinciden(g, h) == \A x \in DOMAIN g.nodos \cap DOMAIN h.nodos : g.nodos[x] = h.nodos[x]

\* A node is numbered after the two it stands between.
NodosNuevos(hn) ==
    \A p \in DOMAIN hn : hn[p] >= NODOS0 /\ hn[p] > p[1] /\ hn[p] > p[2]

RegistroDeFilas == \A x \in DOMAIN historical_row : historical_row[x] \in 0 .. last_row - 1

InvFilas ==
    /\ OrdenBien(row_orderer_list, last_row) /\ RegistroDeFilas
    /\ NodosNuevos(historical_nodes)
    /\ \A g \in Genomas \cup {Genoma0} :
          Linaje(g, historical_nodes, historical_row, row_orderer_list, last_row)
    /\ \A g, h \in Genomas \cup {Genoma0} : Coinciden(g, h)

\* Q is R with the row n inserted at k.
Insertada(Q, R, n, k) ==
    /\ Q \in [1 .. n + 1 -> 0 .. n]
    /\ \A j \in 1 .. n + 1 :
         /\ j < k => Q[j] = R[j]
         /\ j = k => Q[j] = n
         /\ j > k => Q[j] = R[j - 1]

\* A new row goes anywhere but after the outputs', and the others keep their order.
LEMMA InsertaBien ==
    ASSUME NEW R, NEW n, OrdenBien(R, n), NEW k \in 1 .. n, NEW Q, Insertada(Q, R, n, k)
    PROVE  /\ OrdenBien(Q, n + 1)
           /\ \A a, b : EnOrden(R, a, b) => EnOrden(Q, a, b)
<1> USE DEF Insertada
<1>0. n \in Nat \ {0} /\ DOMAIN R = 1 .. n /\ DOMAIN Q = 1 .. n + 1
      /\ \A j \in 1 .. n : R[j] \in 0 .. n - 1
  BY DEF OrdenBien
<1>1. /\ \A j \in 1 .. n + 1 : j < k => Q[j] = R[j] /\ j \in 1 .. n
      /\ Q[k] = n
      /\ \A j \in 1 .. n + 1 : j > k => Q[j] = R[j - 1] /\ j - 1 \in 1 .. n
  <2>1. k \in Int /\ k \in 1 .. n + 1 /\ n \in Int
    BY <1>0
  <2>2. \A j \in 1 .. n + 1 : (j < k => j \in 1 .. n) /\ (j > k => j - 1 \in 1 .. n)
    BY <2>1, <1>0
  <2>3. Q[k] = n
    BY <2>1
  <2>4. ASSUME NEW j \in 1 .. n + 1, j < k PROVE Q[j] = R[j] /\ j \in 1 .. n
    BY <2>2, <2>4
  <2>5. ASSUME NEW j \in 1 .. n + 1, j > k PROVE Q[j] = R[j - 1] /\ j - 1 \in 1 .. n
    BY <2>2, <2>5
  <2> QED BY <2>3, <2>4, <2>5
<1> DEFINE D(j) == IF j < k THEN j ELSE j + 1
<1>3. \A j \in 1 .. n : D(j) \in 1 .. n + 1 /\ Q[D(j)] = R[j]
  <2> SUFFICES ASSUME NEW j \in 1 .. n PROVE D(j) \in 1 .. n + 1 /\ Q[D(j)] = R[j]
    OBVIOUS
  <2>1. CASE j < k
    BY <2>1, <1>0, <1>1
  <2>2. CASE ~(j < k)
    <3>1. j + 1 \in 1 .. n + 1 /\ j + 1 > k /\ (j + 1) - 1 = j
      BY <2>2, <1>0
    <3> QED BY <3>1, <2>2, <1>1
  <2> QED BY <2>1, <2>2
<1> HIDE DEF D
<1>4. \A i, j \in 1 .. n : i < j => D(i) < D(j)
  BY <1>0 DEF D
<1>5. \A j \in 1 .. n + 1 : j = k \/ \E i \in 1 .. n : j = D(i)
  <2> SUFFICES ASSUME NEW j \in 1 .. n + 1, j # k PROVE \E i \in 1 .. n : j = D(i)
    OBVIOUS
  <2>1. CASE j < k
    <3>1. j \in 1 .. n /\ D(j) = j
      BY <2>1, <1>1 DEF D
    <3> QED BY <3>1
  <2>2. CASE j > k
    <3>1. j - 1 \in 1 .. n /\ D(j - 1) = j
      BY <2>2, <1>0 DEF D
    <3> QED BY <3>1
  <2> QED BY <2>1, <2>2, <1>0
<1>6. \A j \in 1 .. n + 1 : Q[j] \in 0 .. (n + 1) - 1
  BY <1>0, <1>1, <1>3, <1>5
<1>7. Q \in [1 .. n + 1 -> 0 .. (n + 1) - 1]
  BY <1>6
<1>8. IsInjective(Q)
  <2> SUFFICES ASSUME NEW i \in 1 .. n + 1, NEW j \in 1 .. n + 1, Q[i] = Q[j] PROVE i = j
    BY <1>0 DEF IsInjective
  <2>1. ASSUME NEW x \in 1 .. n PROVE Q[D(x)] # Q[k]
    <3>1. Q[D(x)] = R[x] /\ R[x] \in 0 .. n - 1 /\ Q[k] = n /\ n \in Nat
      BY <1>0, <1>1, <1>3
    <3> QED BY <3>1
  <2>2. ASSUME NEW x \in 1 .. n, NEW y \in 1 .. n, Q[D(x)] = Q[D(y)] PROVE x = y
    <3>1. R[x] = R[y] /\ x \in DOMAIN R /\ y \in DOMAIN R
      BY <2>2, <1>0, <1>3
    <3>2. IsInjective(R)
      BY DEF OrdenBien
    <3> QED BY <3>1, <3>2 DEF IsInjective
  <2>3. CASE i = k
    BY <2>1, <2>3, <1>5
  <2>4. CASE j = k
    BY <2>1, <2>4, <1>5
  <2>5. CASE i # k /\ j # k
    <3>1. PICK x \in 1 .. n : i = D(x)
      BY <2>5, <1>5
    <3>2. PICK y \in 1 .. n : j = D(y)
      BY <2>5, <1>5
    <3> QED BY <3>1, <3>2, <2>2
  <2> QED BY <2>3, <2>4, <2>5
<1>9. \A r \in 0 .. (n + 1) - 1 : \E j \in 1 .. n + 1 : Q[j] = r
  <2> SUFFICES ASSUME NEW r \in 0 .. (n + 1) - 1 PROVE \E j \in 1 .. n + 1 : Q[j] = r
    OBVIOUS
  <2>1. CASE r = n
    BY <2>1, <1>0, <1>1
  <2>2. CASE r # n
    <3>1. PICK j \in 1 .. n : R[j] = r
      BY <2>2, <1>0 DEF OrdenBien
    <3> QED BY <3>1, <1>3
  <2> QED BY <2>1, <2>2
<1>10. Q[n + 1] = FILAS0 - 1
  <2>1. n + 1 \in 1 .. n + 1 /\ n + 1 > k /\ (n + 1) - 1 = n
    BY <1>0
  <2> QED BY <2>1, <1>1 DEF OrdenBien
<1>11. ASSUME NEW a, NEW b, EnOrden(R, a, b) PROVE EnOrden(Q, a, b)
  <2>1. PICK i \in 1 .. n, j \in 1 .. n : i < j /\ R[i] = a /\ R[j] = b
    BY <1>0, <1>11 DEF EnOrden
  <2> QED BY <2>1, <1>0, <1>3, <1>4 DEF EnOrden
<1>12. n + 1 \in Nat \ {0}
  BY <1>0
<1> QED BY <1>7, <1>8, <1>9, <1>10, <1>11, <1>12 DEF OrdenBien

\* What every step does to the rows.
CrecenFilas ==
    /\ OrdenBien(row_orderer_list', last_row') /\ last_row <= last_row'
    /\ \A a, b : EnOrden(row_orderer_list, a, b) => EnOrden(row_orderer_list', a, b)
    /\ Crece(historical_row, historical_row') /\ RegistroDeFilas'

LEMMA LargoDeOrden ==
    ASSUME NEW R, NEW n, OrdenBien(R, n)
    PROVE  Len(R) = n /\ DOMAIN R = 1 .. n
<1>1. n \in Nat /\ DOMAIN R = 1 .. n /\ R \in Seq(0 .. n - 1)
  BY DEF OrdenBien
<1> QED BY <1>1

LEMMA PosicionBien ==
    ASSUME OrdenBien(row_orderer_list, last_row), NEW row \in 0 .. last_row - 1
    PROVE  Posicion(row) \in 1 .. last_row /\ row_orderer_list[Posicion(row)] = row
<1>1. DOMAIN row_orderer_list = 1 .. last_row
  BY DEF OrdenBien
<1>2. PICK k \in 1 .. last_row : row_orderer_list[k] = row
  BY DEF OrdenBien
<1>3. \A j \in 1 .. k - 1 : row_orderer_list[j] # row
  <2> SUFFICES ASSUME NEW j \in 1 .. k - 1, row_orderer_list[j] = row PROVE FALSE
    OBVIOUS
  <2>1. j \in 1 .. last_row /\ j # k
    BY DEF OrdenBien
  <2> QED BY <2>1, <1>1, <1>2 DEF OrdenBien, IsInjective
<1> QED BY <1>1, <1>2, <1>3 DEF Posicion

LEMMA InsertaFilaBien ==
    ASSUME OrdenBien(row_orderer_list, last_row), NEW k \in 1 .. last_row, InsertaFila(k)
    PROVE  /\ OrdenBien(row_orderer_list', last_row + 1)
           /\ \A a, b : EnOrden(row_orderer_list, a, b) => EnOrden(row_orderer_list', a, b)
<1> DEFINE R == row_orderer_list
           n == last_row
           Q == row_orderer_list'
<1>1. Len(R) = n /\ n \in Nat
  BY LargoDeOrden DEF OrdenBien
<1>2. Q = [j \in 1 .. n + 1 |-> IF j < k THEN R[j] ELSE IF j = k THEN n ELSE R[j - 1]]
  BY <1>1 DEF InsertaFila
<1>3. Q \in [1 .. n + 1 -> 0 .. n]
  <2>1. \A j \in 1 .. n : R[j] \in 0 .. n
    BY <1>1 DEF OrdenBien
  <2>2. ASSUME NEW j \in 1 .. n + 1, j > k PROVE j - 1 \in 1 .. n
    BY <1>1, <2>2
  <2>3. ASSUME NEW j \in 1 .. n + 1, j < k PROVE j \in 1 .. n
    BY <1>1, <2>3
  <2>4. \A j \in 1 .. n + 1 :
          (IF j < k THEN R[j] ELSE IF j = k THEN n ELSE R[j - 1]) \in 0 .. n
    BY <1>1, <2>1, <2>2, <2>3
  <2> QED BY <1>2, <2>4
<1>4. ASSUME NEW j \in 1 .. n + 1
      PROVE  /\ j < k => Q[j] = R[j]
             /\ j = k => Q[j] = n
             /\ j > k => Q[j] = R[j - 1]
  BY <1>1, <1>2
<1>5. OrdenBien(R, n) /\ k \in 1 .. n /\ Insertada(Q, R, n, k)
  BY <1>3, <1>4 DEF Insertada
<1> HIDE DEF Q, R, n
<1>6. OrdenBien(Q, n + 1) /\ \A a, b : EnOrden(R, a, b) => EnOrden(Q, a, b)
  BY <1>5, InsertaBien
<1> QED BY <1>6 DEF Q, R, n

\* A registry of rows that gets one more node.
LEMMA RegistraBien ==
    ASSUME RegistroDeFilas, last_row \in Nat, last_row' \in Nat, last_row <= last_row',
           NEW node, node \notin DOMAIN historical_row,
           NEW row \in 0 .. last_row' - 1, RegistraFila(node, row)
    PROVE  /\ Crece(historical_row, historical_row') /\ RegistroDeFilas'
           /\ DOMAIN historical_row' = DOMAIN historical_row \cup {node}
           /\ historical_row'[node] = row
<1>1. historical_row' = [y \in DOMAIN historical_row \cup {node} |->
                            IF y = node THEN row ELSE historical_row[y]]
  BY DEF RegistraFila, Extiende
<1>2. \A x \in DOMAIN historical_row : historical_row[x] \in 0 .. last_row' - 1
  BY DEF RegistroDeFilas
<1> QED BY <1>1, <1>2 DEF Crece, RegistroDeFilas

\* The row a node of a connection between two rows gets: registered if they
\* differ, theirs if they do not.
FilaDada(node, row_in, row_out) ==
    /\ CrecenFilas
    /\ FilaObtenida(node, row_in) \in 0 .. last_row' - 1
    /\ DOMAIN historical_row' \subseteq DOMAIN historical_row \cup {node}
    /\ node \notin DOMAIN historical_row => (node \notin DOMAIN historical_row' <=> row_in = row_out)

LEMMA BuscaFilaBien ==
    ASSUME OrdenBien(row_orderer_list, last_row), RegistroDeFilas,
           NEW node, node \notin DOMAIN historical_row,
           NEW row_in \in 0 .. last_row - 1, NEW row_out \in 0 .. last_row - 1,
           BuscaFila(node, row_in, row_out)
    PROVE  FilaDada(node, row_in, row_out)
<1> DEFINE pin == Posicion(row_in)
           pout == Posicion(row_out)
           k == IF pout > pin THEN pin + 1 ELSE pin - 1
<1>1. /\ pin \in 1 .. last_row /\ row_orderer_list[pin] = row_in
      /\ pout \in 1 .. last_row /\ row_orderer_list[pout] = row_out
  BY PosicionBien
<1>2. last_row \in Nat \ {0}
  BY DEF OrdenBien
<1>3. \/ pin = pout /\ UNCHANGED filas
      \/ pout \in {pin - 1, pin + 1} /\ FilaNueva(node, pin, pout)
      \/ pout \notin pin - 1 .. pin + 1 /\ FilaVecina(node, pin, pout)
  BY DEF BuscaFila
<1>4. pin = pout <=> row_in = row_out
  <2>1. IsInjective(row_orderer_list) /\ DOMAIN row_orderer_list = 1 .. last_row
    BY DEF OrdenBien
  <2> QED BY <2>1, <1>1 DEF IsInjective
<1> HIDE DEF pin, pout
<1>5. CASE pin = pout /\ UNCHANGED filas
  <2>1. /\ historical_row' = historical_row /\ last_row' = last_row
        /\ row_orderer_list' = row_orderer_list
    BY <1>5 DEF filas
  <2> QED
    BY <2>1, <1>2, <1>4, <1>5
       DEF FilaDada, CrecenFilas, FilaObtenida, Crece, RegistroDeFilas
<1>6. CASE pout \in {pin - 1, pin + 1} /\ FilaNueva(node, pin, pout)
  <2>1. k \in 1 .. last_row /\ pin # pout
    BY <1>1, <1>2, <1>6
  <2> HIDE DEF k
  <2>2. InsertaFila(k) /\ RegistraFila(node, last_row) /\ last_row' = last_row + 1
    BY <1>6 DEF FilaNueva, k
  <2>3. /\ OrdenBien(row_orderer_list', last_row')
        /\ \A a, b : EnOrden(row_orderer_list, a, b) => EnOrden(row_orderer_list', a, b)
    BY <2>1, <2>2, InsertaFilaBien
  <2>4. last_row' \in Nat /\ last_row <= last_row' /\ last_row \in 0 .. last_row' - 1
    BY <1>2, <2>2
  <2>5. /\ Crece(historical_row, historical_row') /\ RegistroDeFilas'
        /\ DOMAIN historical_row' = DOMAIN historical_row \cup {node}
        /\ historical_row'[node] = last_row
    BY <1>2, <2>2, <2>4, RegistraBien
  <2> QED BY <1>4, <2>1, <2>3, <2>4, <2>5 DEF FilaDada, CrecenFilas, FilaObtenida
<1>7. CASE pout \notin pin - 1 .. pin + 1 /\ FilaVecina(node, pin, pout)
  <2>1. k \in 1 .. last_row /\ pin # pout
    BY <1>1, <1>2, <1>7
  <2> HIDE DEF k
  <2>2. /\ RegistraFila(node, row_orderer_list[k])
        /\ row_orderer_list' = row_orderer_list /\ last_row' = last_row
    BY <1>7 DEF FilaVecina, k
  <2>3. row_orderer_list[k] \in 0 .. last_row' - 1
    BY <2>1, <2>2 DEF OrdenBien
  <2>4. /\ Crece(historical_row, historical_row') /\ RegistroDeFilas'
        /\ DOMAIN historical_row' = DOMAIN historical_row \cup {node}
        /\ historical_row'[node] = row_orderer_list[k]
    <3>1. last_row \in Nat /\ last_row' \in Nat /\ last_row <= last_row'
      BY <1>2, <2>2
    <3> DEFINE row == row_orderer_list[k]
    <3>2. RegistraFila(node, row) /\ row \in 0 .. last_row' - 1
      BY <2>2, <2>3
    <3> HIDE DEF row
    <3>3. /\ Crece(historical_row, historical_row') /\ RegistroDeFilas'
          /\ DOMAIN historical_row' = DOMAIN historical_row \cup {node}
          /\ historical_row'[node] = row
      BY <3>1, <3>2, RegistraBien
    <3> QED BY <3>3 DEF row
  <2> QED BY <1>2, <1>4, <2>1, <2>2, <2>3, <2>4 DEF FilaDada, CrecenFilas, FilaObtenida
<1> QED BY <1>3, <1>5, <1>6, <1>7

LEMMA ObtenFilaBien ==
    ASSUME OrdenBien(row_orderer_list, last_row), RegistroDeFilas, NEW node,
           NEW row_in \in 0 .. last_row - 1, NEW row_out \in 0 .. last_row - 1,
           ObtenFila(node, row_in, row_out)
    PROVE  FilaDada(node, row_in, row_out)
<1>1. CASE node \in DOMAIN historical_row /\ UNCHANGED filas
  <2>1. /\ historical_row' = historical_row /\ last_row' = last_row
        /\ row_orderer_list' = row_orderer_list /\ last_row \in Nat
    BY <1>1 DEF filas, OrdenBien
  <2> QED
    BY <2>1, <1>1 DEF FilaDada, CrecenFilas, FilaObtenida, Crece, RegistroDeFilas
<1>2. CASE node \notin DOMAIN historical_row /\ BuscaFila(node, row_in, row_out)
  BY <1>2, BuscaFilaBien
<1> QED BY <1>1, <1>2 DEF ObtenFila

-----------------------------------------------------------------------------
(* Genomes and rows                                                        *)

\* A genome that was there keeps its place when the registries grow by numbers
\* none of its nodes has.
LEMMA LinajeCrece ==
    ASSUME NEW g, NEW hn, NEW hr, NEW R, NEW n, Linaje(g, hn, hr, R, n),
           NEW hn2, NEW hr2, NEW Q, NEW m, n <= m, n \in Nat, m \in Nat,
           Crece(hn, hn2), Crece(hr, hr2),
           \A x \in DOMAIN g.nodos : x \in DOMAIN hr2 => x \in DOMAIN hr,
           \A a, b : EnOrden(R, a, b) => EnOrden(Q, a, b)
    PROVE  Linaje(g, hn2, hr2, Q, m)
<1>1. FilasBien(g, Q, m)
  BY DEF Linaje, FilasBien, OrdenBien
<1>2. Desciende(g, hn2, hr2)
  <2> SUFFICES ASSUME NEW x \in DOMAIN g.nodos
               PROVE  /\ x \in DOMAIN hr2 => g.nodos[x] = hr2[x]
                      /\ x >= NODOS0 => \E p \in DOMAIN hn2 :
                            /\ hn2[p] = x /\ p[1] \in DOMAIN g.nodos /\ p[2] \in DOMAIN g.nodos
                            /\ \E i \in DOMAIN g.conex : Par(g.conex[i]) = <<p[1], x>>
                            /\ x \notin DOMAIN hr2 =>
                                 g.nodos[p[1]] = g.nodos[x] /\ g.nodos[p[2]] = g.nodos[x]
    BY DEF Desciende
  <2>1. x \in DOMAIN hr2 => g.nodos[x] = hr2[x]
    BY DEF Linaje, Desciende, Crece
  <2>2. ASSUME x >= NODOS0
        PROVE  \E p \in DOMAIN hn2 :
                  /\ hn2[p] = x /\ p[1] \in DOMAIN g.nodos /\ p[2] \in DOMAIN g.nodos
                  /\ \E i \in DOMAIN g.conex : Par(g.conex[i]) = <<p[1], x>>
                  /\ x \notin DOMAIN hr2 =>
                       g.nodos[p[1]] = g.nodos[x] /\ g.nodos[p[2]] = g.nodos[x]
    <3>1. PICK p \in DOMAIN hn :
             /\ hn[p] = x /\ p[1] \in DOMAIN g.nodos /\ p[2] \in DOMAIN g.nodos
             /\ \E i \in DOMAIN g.conex : Par(g.conex[i]) = <<p[1], x>>
             /\ x \notin DOMAIN hr => g.nodos[p[1]] = g.nodos[x] /\ g.nodos[p[2]] = g.nodos[x]
      BY <2>2 DEF Linaje, Desciende
    <3>2. p \in DOMAIN hn2 /\ hn2[p] = x /\ (x \in DOMAIN hr => x \in DOMAIN hr2)
      BY <3>1 DEF Crece
    <3> QED BY <3>1, <3>2
  <2> QED BY <2>1, <2>2
<1>3. Activo(g, hn2)
  BY DEF Linaje, Activo, Crece
<1> QED BY <1>1, <1>2, <1>3 DEF Linaje

\* What a step has to keep of the rows.  At most one genome is new, the old ones
\* have no node that got its row just now, and the new one agrees with them.
LEMMA FilasSeConservan ==
    ASSUME InvFilas, CrecenFilas, Crece(historical_nodes, historical_nodes'),
           NodosNuevos(historical_nodes'),
           \A g \in Genomas \cup {Genoma0} : \A x \in DOMAIN g.nodos :
              x \in DOMAIN historical_row' => x \in DOMAIN historical_row,
           NEW h, Genomas' \subseteq Genomas \cup {Genoma0, h},
           Linaje(h, historical_nodes', historical_row', row_orderer_list', last_row'),
           \A g \in Genomas \cup {Genoma0} : Coinciden(g, h)
    PROVE  InvFilas'
<1>1. ASSUME NEW g \in Genomas \cup {Genoma0}
      PROVE  Linaje(g, historical_nodes', historical_row', row_orderer_list', last_row')
  <2>1. Linaje(g, historical_nodes, historical_row, row_orderer_list, last_row)
    BY DEF InvFilas
  <2>2. last_row \in Nat /\ last_row' \in Nat
    BY DEF InvFilas, CrecenFilas, OrdenBien
  <2> QED BY <2>1, <2>2, LinajeCrece DEF CrecenFilas
<1>2. Genoma0' = Genoma0
  BY DEF Genoma0
<1>3. (Genomas \cup {Genoma0})' \subseteq Genomas \cup {Genoma0, h}
  BY <1>2
<1>4. \A g \in (Genomas \cup {Genoma0})' :
        Linaje(g, historical_nodes', historical_row', row_orderer_list', last_row')
  BY <1>1, <1>3
<1>5. \A f, g \in (Genomas \cup {Genoma0})' : Coinciden(f, g)
  <2>1. \A f, g \in Genomas \cup {Genoma0} : Coinciden(f, g)
    BY DEF InvFilas
  <2>2. \A g \in Genomas \cup {Genoma0} : Coinciden(h, g)
    BY DEF Coinciden
  <2>3. Coinciden(h, h)
    BY DEF Coinciden
  <2> QED BY <1>3, <2>1, <2>2, <2>3
<1> QED BY <1>4, <1>5 DEF InvFilas, CrecenFilas

LEMMA InicioFilas == Init => InvFilas
<1> SUFFICES ASSUME Init PROVE InvFilas
  OBVIOUS
<1>1. Genomas \cup {Genoma0} = {Genoma0}
  BY DEF Genomas, Init
<1>2. /\ Genoma0.nodos = Nodos0 /\ Genoma0.conex = Conexiones0
      /\ Genoma0.filas = [k \in 1 .. FILAS0 |-> k - 1]
      /\ DOMAIN Genoma0 = {"nodos", "conex", "filas"}
  BY DEF Genoma0
<1>3. FILAS0 \in Nat \ {0} /\ NODOS0 \in Nat \ {0}
  BY InnovacionSupuestos DEF InnovacionSupuestos
<1>4. OrdenBien(Genoma0.filas, FILAS0)
  <2> DEFINE F == [k \in 1 .. FILAS0 |-> k - 1]
  <2>1. F \in [1 .. FILAS0 -> 0 .. FILAS0 - 1] /\ IsInjective(F) /\ F[FILAS0] = FILAS0 - 1
    BY <1>3 DEF IsInjective
  <2>2. \A r \in 0 .. FILAS0 - 1 : r + 1 \in 1 .. FILAS0 /\ F[r + 1] = r
    BY <1>3
  <2>3. \A r \in 0 .. FILAS0 - 1 : \E k \in 1 .. FILAS0 : F[k] = r
    BY <2>2
  <2> QED BY <1>2, <1>3, <2>1, <2>3 DEF OrdenBien
<1>5. row_orderer_list = Genoma0.filas /\ last_row = FILAS0 /\ Len(Genoma0.filas) = FILAS0
  BY <1>4, LargoDeOrden DEF Init
<1>6. DOMAIN historical_row = {} /\ DOMAIN historical_nodes = {}
  BY DEF Init
<1>7. FilasBien(Genoma0, row_orderer_list, last_row)
  <2>1. \A x \in DOMAIN Genoma0.nodos : Genoma0.nodos[x] \in 0 .. FILAS0 - 1
    BY <1>2, InnovacionSupuestos DEF InnovacionSupuestos
  <2>2. DOMAIN Genoma0.filas = 1 .. FILAS0
    BY <1>4, LargoDeOrden
  <2>3. \A j, k \in 1 .. FILAS0 : j < k => EnOrden(row_orderer_list, Genoma0.filas[j], Genoma0.filas[k])
    BY <1>5, <2>2 DEF EnOrden
  <2> QED BY <1>3, <1>4, <1>5, <2>1, <2>3 DEF FilasBien
<1>8. Desciende(Genoma0, historical_nodes, historical_row)
  <2>1. \A x \in DOMAIN Genoma0.nodos : x \in 0 .. NODOS0 - 1
    BY <1>2, InnovacionSupuestos DEF InnovacionSupuestos
  <2> QED BY <2>1, <1>3, <1>6 DEF Desciende
<1>9. Activo(Genoma0, historical_nodes)
  BY <1>2 DEF Activo
<1>10. Coinciden(Genoma0, Genoma0)
  BY DEF Coinciden
<1> QED
  BY <1>1, <1>2, <1>4, <1>5, <1>6, <1>7, <1>8, <1>9, <1>10
     DEF InvFilas, Linaje, RegistroDeFilas, NodosNuevos

\* A step that leaves the registries as they are and brings one known genome.
LEMMA FilasQuietas ==
    ASSUME InvFilas, UNCHANGED <<historical_nodes, filas>>,
           NEW h, Genomas' \subseteq Genomas \cup {Genoma0, h},
           Linaje(h, historical_nodes, historical_row, row_orderer_list, last_row),
           \A g \in Genomas \cup {Genoma0} : Coinciden(g, h)
    PROVE  InvFilas'
<1>1. /\ historical_nodes' = historical_nodes /\ historical_row' = historical_row
      /\ row_orderer_list' = row_orderer_list /\ last_row' = last_row
  BY DEF filas
<1>2. CrecenFilas /\ Crece(historical_nodes, historical_nodes')
  BY <1>1 DEF InvFilas, CrecenFilas, Crece, RegistroDeFilas, OrdenBien
<1>3. NodosNuevos(historical_nodes')
  BY <1>1 DEF InvFilas
<1> QED BY <1>1, <1>2, <1>3, FilasSeConservan

LEMMA RegistrosBien ==
    ASSUME InvFilas
    PROVE  /\ OrdenBien(row_orderer_list, last_row) /\ last_row \in Nat
           /\ Len(row_orderer_list) = last_row /\ DOMAIN row_orderer_list = 1 .. last_row
           /\ \A g \in Genomas : \A x \in DOMAIN g.nodos : g.nodos[x] \in 0 .. last_row - 1
<1>1. OrdenBien(row_orderer_list, last_row)
  BY DEF InvFilas
<1>2. last_row \in Nat /\ Len(row_orderer_list) = last_row /\ DOMAIN row_orderer_list = 1 .. last_row
  BY <1>1, LargoDeOrden DEF OrdenBien
<1>3. ASSUME NEW g \in Genomas, NEW x \in DOMAIN g.nodos PROVE g.nodos[x] \in 0 .. last_row - 1
  <2>1. FilasBien(g, row_orderer_list, last_row)
    BY DEF InvFilas, Linaje
  <2>2. Len(g.filas) \in Nat
    BY <2>1 DEF FilasBien, OrdenBien
  <2> QED BY <1>2, <2>1, <2>2 DEF FilasBien
<1> QED BY <1>1, <1>2, <1>3

\* A genome whose order is the population's, with the rows of nodes it knows.
LEMMA FilasPropias ==
    ASSUME NEW R, NEW n, OrdenBien(R, n), NEW g, g.filas = R,
           \A x \in DOMAIN g.nodos : g.nodos[x] \in 0 .. n - 1
    PROVE  FilasBien(g, R, n)
<1>1. Len(R) = n /\ DOMAIN R = 1 .. n /\ n \in Nat
  BY LargoDeOrden DEF OrdenBien
<1> QED BY <1>1 DEF FilasBien, EnOrden

LEMMA CruceFilas ==
    ASSUME InvGenes, InvFilas, NEW a \in Genomas, NEW b \in Genomas,
           NEW G, NEW M, NEW X
    PROVE  /\ Linaje(Cruce(a, b, G, M, X), historical_nodes, historical_row, row_orderer_list, last_row)
           /\ \A g \in Genomas \cup {Genoma0} : Coinciden(g, Cruce(a, b, G, M, X))
<1> DEFINE c == Cruce(a, b, G, M, X)
           hi == historical_innovation
           hn == historical_nodes
           hr == historical_row
<1>0. /\ Homologo(a, hi, last_innovation, last_node) /\ Homologo(b, hi, last_innovation, last_node)
      /\ RegistroHasta(hi, last_innovation)
  BY DEF InvGenes
<1>1. /\ Homologo(c, hi, last_innovation, last_node)
      /\ DOMAIN c.nodos = DOMAIN a.nodos \cup DOMAIN b.nodos
      /\ DOMAIN c.conex = DOMAIN a.conex \cup DOMAIN b.conex
  BY <1>0, CruceBien
<1>2. DOMAIN c = {"nodos", "conex", "filas"} /\ c.filas = row_orderer_list
  BY DEF Cruce
<1>3. Coinciden(a, b) /\ Linaje(a, hn, hr, row_orderer_list, last_row)
                      /\ Linaje(b, hn, hr, row_orderer_list, last_row)
  BY DEF InvFilas
<1>4. /\ \A x \in DOMAIN a.nodos : c.nodos[x] = a.nodos[x]
      /\ \A x \in DOMAIN b.nodos : c.nodos[x] = b.nodos[x]
  BY <1>3 DEF Cruce, Une, Coinciden
<1>5. ASSUME NEW i \in DOMAIN c.conex, ~c.conex[i].enable
      PROVE  \/ i \in DOMAIN a.conex /\ ~a.conex[i].enable
             \/ i \in DOMAIN b.conex /\ ~b.conex[i].enable
  <2>1. CASE i \notin DOMAIN b.conex
    BY <2>1, <1>1, <1>5 DEF Cruce, Une
  <2>2. CASE i \notin DOMAIN a.conex
    BY <2>2, <1>1, <1>5 DEF Cruce, Une
  <2>3. CASE i \in DOMAIN a.conex /\ i \in DOMAIN b.conex
    <3>1. c.conex[i] = CruzaGen(i, a.conex[i], b.conex[i], G, X)
      BY <2>3 DEF Cruce, Une
    <3> QED BY <2>3, <3>1, <1>5 DEF CruzaGen
  <2> QED BY <2>1, <2>2, <2>3
<1>6. /\ \A i \in DOMAIN a.conex : Par(c.conex[i]) = Par(a.conex[i])
      /\ \A i \in DOMAIN b.conex : Par(c.conex[i]) = Par(b.conex[i])
  <2> HIDE DEF c, hi
  <2>1. ASSUME NEW g, Homologo(g, hi, last_innovation, last_node), NEW i \in DOMAIN g.conex
        PROVE  Par(g.conex[i]) \in DOMAIN hi /\ hi[Par(g.conex[i])] = i
    BY <2>1 DEF Homologo, GenesBien
  <2> QED BY <2>1, <1>0, <1>1 DEF RegistroHasta, IsInjective
<1>7. \A x \in DOMAIN c.nodos : c.nodos[x] \in 0 .. last_row - 1
  BY <1>1, <1>4, RegistrosBien
<1> HIDE DEF c
<1>8. FilasBien(c, row_orderer_list, last_row)
  BY <1>2, <1>7, RegistrosBien, FilasPropias
<1>9. Desciende(c, hn, hr)
  <2>1. ASSUME NEW g, Linaje(g, hn, hr, row_orderer_list, last_row),
               DOMAIN g.nodos \subseteq DOMAIN c.nodos, DOMAIN g.conex \subseteq DOMAIN c.conex,
               \A x \in DOMAIN g.nodos : c.nodos[x] = g.nodos[x],
               \A i \in DOMAIN g.conex : Par(c.conex[i]) = Par(g.conex[i]),
               NEW x \in DOMAIN g.nodos
        PROVE  /\ x \in DOMAIN hr => c.nodos[x] = hr[x]
               /\ x >= NODOS0 => \E p \in DOMAIN hn :
                     /\ hn[p] = x /\ p[1] \in DOMAIN c.nodos /\ p[2] \in DOMAIN c.nodos
                     /\ \E i \in DOMAIN c.conex : Par(c.conex[i]) = <<p[1], x>>
                     /\ x \notin DOMAIN hr =>
                          c.nodos[p[1]] = c.nodos[x] /\ c.nodos[p[2]] = c.nodos[x]
    <3>1. x \in DOMAIN hr => c.nodos[x] = hr[x]
      BY <2>1 DEF Linaje, Desciende
    <3>2. ASSUME x >= NODOS0
          PROVE  \E p \in DOMAIN hn :
                     /\ hn[p] = x /\ p[1] \in DOMAIN c.nodos /\ p[2] \in DOMAIN c.nodos
                     /\ \E i \in DOMAIN c.conex : Par(c.conex[i]) = <<p[1], x>>
                     /\ x \notin DOMAIN hr =>
                          c.nodos[p[1]] = c.nodos[x] /\ c.nodos[p[2]] = c.nodos[x]
      <4>1. PICK p \in DOMAIN hn :
               /\ hn[p] = x /\ p[1] \in DOMAIN g.nodos /\ p[2] \in DOMAIN g.nodos
               /\ \E i \in DOMAIN g.conex : Par(g.conex[i]) = <<p[1], x>>
               /\ x \notin DOMAIN hr => g.nodos[p[1]] = g.nodos[x] /\ g.nodos[p[2]] = g.nodos[x]
        BY <2>1, <3>2 DEF Linaje, Desciende
      <4>2. \E i \in DOMAIN c.conex : Par(c.conex[i]) = <<p[1], x>>
        BY <2>1, <4>1
      <4>3. c.nodos[p[1]] = g.nodos[p[1]] /\ c.nodos[p[2]] = g.nodos[p[2]] /\ c.nodos[x] = g.nodos[x]
        BY <2>1, <4>1
      <4> QED BY <2>1, <4>1, <4>2, <4>3
    <3> QED BY <3>1, <3>2
  <2> SUFFICES ASSUME NEW x \in DOMAIN c.nodos
               PROVE  /\ x \in DOMAIN hr => c.nodos[x] = hr[x]
                      /\ x >= NODOS0 => \E p \in DOMAIN hn :
                            /\ hn[p] = x /\ p[1] \in DOMAIN c.nodos /\ p[2] \in DOMAIN c.nodos
                            /\ \E i \in DOMAIN c.conex : Par(c.conex[i]) = <<p[1], x>>
                            /\ x \notin DOMAIN hr =>
                                 c.nodos[p[1]] = c.nodos[x] /\ c.nodos[p[2]] = c.nodos[x]
    BY DEF Desciende
  <2>2. CASE x \in DOMAIN a.nodos
    BY <2>1, <2>2, <1>1, <1>3, <1>4, <1>6
  <2>3. CASE x \in DOMAIN b.nodos
    BY <2>1, <2>3, <1>1, <1>3, <1>4, <1>6
  <2> QED BY <2>2, <2>3, <1>1
<1>10. Activo(c, hn)
  <2>1. DOMAIN Conexiones0 \subseteq DOMAIN c.conex
    BY <1>1, <1>3 DEF Linaje, Activo
  <2>2. ASSUME NEW i \in DOMAIN c.conex, ~c.conex[i].enable
        PROVE  \/ Par(c.conex[i]) \in DOMAIN hn /\ hn[Par(c.conex[i])] \in DOMAIN c.nodos
               \/ i \in DOMAIN Conexiones0 /\ ~Conexiones0[i].enable
    <3>1. CASE i \in DOMAIN a.conex /\ ~a.conex[i].enable
      BY <3>1, <1>1, <1>3, <1>6 DEF Linaje, Activo
    <3>2. CASE i \in DOMAIN b.conex /\ ~b.conex[i].enable
      BY <3>2, <1>1, <1>3, <1>6 DEF Linaje, Activo
    <3> QED BY <2>2, <3>1, <3>2, <1>5
  <2> QED BY <2>1, <2>2 DEF Activo
<1>11. ASSUME NEW g \in Genomas \cup {Genoma0} PROVE Coinciden(g, c)
  <2>1. Coinciden(g, a) /\ Coinciden(g, b)
    BY DEF InvFilas
  <2> QED BY <2>1, <1>1, <1>4 DEF Coinciden
<1> QED BY <1>2, <1>8, <1>9, <1>10, <1>11 DEF Linaje, c

\* A gene more, and enabled, changes nothing of a genome's nodes.
LEMMA AgregaFilas ==
    ASSUME NEW g, NEW hn, NEW hr, NEW R, NEW n, Linaje(g, hn, hr, R, n),
           NEW k, NEW in, NEW out, NEW h,
           h = [g EXCEPT !.conex = AgregaConexion(@, k, in, out)]
    PROVE  Linaje(h, hn, hr, R, n) /\ h.nodos = g.nodos
<1> DEFINE c == AgregaConexion(g.conex, k, in, out)
<1>1. DOMAIN h = {"nodos", "conex", "filas"} /\ h.nodos = g.nodos /\ h.filas = g.filas /\ h.conex = c
  BY DEF Linaje
<1>2. /\ DOMAIN g.conex \subseteq DOMAIN c
      /\ \A i \in DOMAIN g.conex : c[i] = g.conex[i]
      /\ \A i \in DOMAIN c : i \in DOMAIN g.conex \/ c[i].enable
  <2>1. CASE k \in DOMAIN g.conex
    BY <2>1 DEF AgregaConexion
  <2>2. CASE k \notin DOMAIN g.conex
    BY <2>2 DEF AgregaConexion, Extiende
  <2> QED BY <2>1, <2>2
<1> HIDE DEF c
<1>3. FilasBien(h, R, n)
  BY <1>1 DEF Linaje, FilasBien
<1>4. Activo(h, hn)
  BY <1>1, <1>2 DEF Linaje, Activo
<1>5. Desciende(h, hn, hr)
  <2> SUFFICES ASSUME NEW x \in DOMAIN g.nodos
               PROVE  /\ x \in DOMAIN hr => g.nodos[x] = hr[x]
                      /\ x >= NODOS0 => \E p \in DOMAIN hn :
                            /\ hn[p] = x /\ p[1] \in DOMAIN g.nodos /\ p[2] \in DOMAIN g.nodos
                            /\ \E i \in DOMAIN c : Par(c[i]) = <<p[1], x>>
                            /\ x \notin DOMAIN hr =>
                                 g.nodos[p[1]] = g.nodos[x] /\ g.nodos[p[2]] = g.nodos[x]
    BY <1>1 DEF Desciende
  <2>1. x \in DOMAIN hr => g.nodos[x] = hr[x]
    BY DEF Linaje, Desciende
  <2>2. ASSUME x >= NODOS0
        PROVE  \E p \in DOMAIN hn :
                  /\ hn[p] = x /\ p[1] \in DOMAIN g.nodos /\ p[2] \in DOMAIN g.nodos
                  /\ \E i \in DOMAIN c : Par(c[i]) = <<p[1], x>>
                  /\ x \notin DOMAIN hr => g.nodos[p[1]] = g.nodos[x] /\ g.nodos[p[2]] = g.nodos[x]
    <3>1. PICK p \in DOMAIN hn :
             /\ hn[p] = x /\ p[1] \in DOMAIN g.nodos /\ p[2] \in DOMAIN g.nodos
             /\ \E i \in DOMAIN g.conex : Par(g.conex[i]) = <<p[1], x>>
             /\ x \notin DOMAIN hr => g.nodos[p[1]] = g.nodos[x] /\ g.nodos[p[2]] = g.nodos[x]
      BY <2>2 DEF Linaje, Desciende
    <3> QED BY <3>1, <1>2
  <2> QED BY <2>1, <2>2
<1> QED BY <1>1, <1>3, <1>4, <1>5 DEF Linaje

LEMMA MutacionConexionFilas ==
    ASSUME InvGenes, InvFilas, MutacionConexion
    PROVE  InvFilas'
<1> DEFINE Bien(x) == /\ Linaje(x, historical_nodes, historical_row, row_orderer_list, last_row)
                      /\ \A g \in Genomas \cup {Genoma0} : Coinciden(g, x)
<1>1. Bien(hijo)
  BY DEF InvFilas, Genomas
<1>2. ASSUME NEW x, Nace(x), Bien(x) PROVE InvFilas'
  <2>1. UNCHANGED <<historical_nodes, filas>> /\ Genomas' \subseteq Genomas \cup {Genoma0, x}
    BY <1>2 DEF Nace, Genomas
  <2> QED BY <2>1, <1>2, FilasQuietas
<1>3. ASSUME NEW k, NEW in, NEW out, Nace([hijo EXCEPT !.conex = AgregaConexion(@, k, in, out)])
      PROVE  InvFilas'
  <2> DEFINE h == [hijo EXCEPT !.conex = AgregaConexion(@, k, in, out)]
  <2>1. /\ Linaje(h, historical_nodes, historical_row, row_orderer_list, last_row)
        /\ h.nodos = hijo.nodos
    BY <1>1, AgregaFilas
  <2>2. Nace(h)
    BY <1>3
  <2> HIDE DEF h
  <2>3. \A g \in Genomas \cup {Genoma0} : Coinciden(g, h)
    BY <1>1, <2>1 DEF Coinciden
  <2> QED BY <1>2, <2>1, <2>2, <2>3
<1>4. \/ Nace(hijo)
      \/ \E p \in ParesDeNodos(hijo) :
            Nace([hijo EXCEPT !.conex = AgregaConexion(@, historical_innovation'[p], p[1], p[2])])
  BY DEF MutacionConexion
<1> QED BY <1>1, <1>2, <1>3, <1>4

\* The numbers obtain_historical_node gives to the enabled genes of a genome.
NumeradosBien(nodes) ==
    /\ RegistroHasta(nodes, last_node + 1 + Cardinality(ParesHabilitados(hijo) \ DOMAIN historical_nodes))
    /\ Crece(historical_nodes, nodes)
    /\ DOMAIN nodes = DOMAIN historical_nodes \cup ParesHabilitados(hijo)
    /\ NodosNuevos(nodes)

LEMMA MutacionNumera ==
    ASSUME InvGenes, InvFilas
    PROVE  NumeradosBien(Numera(historical_nodes, ParesHabilitados(hijo), last_node + 1,
                                OrdenDeGenes(hijo)))
<1> DEFINE pares == ParesHabilitados(hijo)
           m == last_node + 1 + Cardinality(pares \ DOMAIN historical_nodes)
           nodes == Numera(historical_nodes, pares, last_node + 1, OrdenDeGenes(hijo))
<1>1. Homologo(hijo, historical_innovation, last_innovation, last_node) /\ last_node \in Nat
  BY DEF InvGenes, Genomas
<1>2. NumeraBien(historical_nodes, last_node + 1, pares, nodes, m)
  <2>1. Numerable(historical_nodes, last_node + 1, pares, OrdenDeGenes(hijo))
    BY <1>1, ParesDeGenes DEF InvGenes, Numerable
  <2> HIDE DEF pares
  <2> QED BY <2>1, NumeraCorrecta
<1>3. \A p \in pares : p[1] \in 0 .. last_node /\ p[2] \in 0 .. last_node
  BY <1>1 DEF ParesHabilitados, Habilitadas, Homologo, GenesBien, Par
<1>4. NODOS0 <= last_node + 1 /\ NODOS0 \in Nat
  <2>1. Homologo(Genoma0, historical_innovation, last_innovation, last_node)
    BY DEF InvGenes
  <2>2. DOMAIN Genoma0.nodos = 0 .. NODOS0 - 1 /\ NODOS0 \in Nat \ {0}
    BY InnovacionSupuestos DEF Genoma0, InnovacionSupuestos
  <2>3. NODOS0 - 1 \in 0 .. last_node
    BY <2>1, <2>2 DEF Homologo
  <2> QED BY <2>2, <2>3, <1>1
<1> HIDE DEF pares, nodes, m
<1>5. NodosNuevos(nodes)
  <2> SUFFICES ASSUME NEW p \in DOMAIN nodes
               PROVE  nodes[p] >= NODOS0 /\ nodes[p] > p[1] /\ nodes[p] > p[2]
    BY DEF NodosNuevos
  <2>1. CASE p \in DOMAIN historical_nodes
    BY <2>1, <1>2 DEF InvFilas, NodosNuevos, NumeraBien, Crece
  <2>2. CASE p \notin DOMAIN historical_nodes
    <3>1. nodes[p] >= last_node + 1 /\ p \in pares /\ nodes[p] \in 0 .. m - 1 /\ m \in Nat
      BY <2>2, <1>2 DEF NumeraBien, RegistroHasta
    <3>2. nodes[p] \in Int
      BY <3>1
    <3> QED BY <3>1, <3>2, <1>1, <1>3, <1>4
  <2> QED BY <2>1, <2>2
<1>6. NumeradosBien(nodes)
  BY <1>2, <1>5 DEF NumeraBien, NumeradosBien, pares, m
<1> QED BY <1>6 DEF nodes, pares

\* A node that splits a connection of one genome: if another has it already,
\* the connection's nodes are on one row there, and so they are here.
LEMMA NodoConocido ==
    ASSUME InvGenes, InvFilas, NEW nodes, NumeradosBien(nodes), NEW i \in DOMAIN hijo.conex,
           Par(hijo.conex[i]) \in DOMAIN nodes,
           NEW g \in Genomas \cup {Genoma0}, nodes[Par(hijo.conex[i])] \in DOMAIN g.nodos,
           nodes[Par(hijo.conex[i])] \notin DOMAIN historical_row
    PROVE  /\ hijo.nodos[hijo.conex[i].in] = g.nodos[nodes[Par(hijo.conex[i])]]
           /\ hijo.nodos[hijo.conex[i].out] = g.nodos[nodes[Par(hijo.conex[i])]]
<1> DEFINE q == Par(hijo.conex[i])
           x == nodes[q]
<1>1. /\ Desciende(g, historical_nodes, historical_row) /\ Coinciden(hijo, g)
  BY DEF InvFilas, Linaje, Genomas
<1>2. x >= NODOS0
  BY DEF NumeradosBien, NodosNuevos
<1>3. PICK p \in DOMAIN historical_nodes :
         /\ historical_nodes[p] = x /\ p[1] \in DOMAIN g.nodos /\ p[2] \in DOMAIN g.nodos
         /\ x \notin DOMAIN historical_row => g.nodos[p[1]] = g.nodos[x] /\ g.nodos[p[2]] = g.nodos[x]
  BY <1>1, <1>2 DEF Desciende
<1>4. p = q
  BY <1>3 DEF NumeradosBien, Crece, RegistroHasta, IsInjective
<1>5. p[1] = hijo.conex[i].in /\ p[2] = hijo.conex[i].out
  BY <1>4 DEF Par
<1>6. p[1] \in DOMAIN hijo.nodos /\ p[2] \in DOMAIN hijo.nodos
  BY <1>5 DEF InvGenes, Genomas, Homologo, GenesBien
<1> QED BY <1>1, <1>3, <1>5, <1>6 DEF Coinciden

\* The genes of a genome one of whose connections was split.
LEMMA GenesPartidos ==
    ASSUME NEW c, c \in [DOMAIN c -> Gen], NEW i \in DOMAIN c,
           NEW k, NEW l, NEW in, NEW node, NEW out, NEW d,
           d = AgregaConexion(AgregaConexion(Deshabilita(c, i), k, in, node), l, node, out)
    PROVE  /\ DOMAIN c \subseteq DOMAIN d /\ k \in DOMAIN d
           /\ \A j \in DOMAIN c : Par(d[j]) = Par(c[j])
           /\ \A j \in DOMAIN d : ~d[j].enable => j = i \/ (j \in DOMAIN c /\ ~c[j].enable)
<1> DEFINE c0 == Deshabilita(c, i)
           c1 == AgregaConexion(c0, k, in, node)
<1>1. /\ DOMAIN c0 = DOMAIN c
      /\ \A j \in DOMAIN c : Par(c0[j]) = Par(c[j])
      /\ \A j \in DOMAIN c : ~c0[j].enable => j = i \/ ~c[j].enable
  BY DEF Deshabilita, Gen, Par
<1> HIDE DEF c0
<1>2. /\ DOMAIN c1 = DOMAIN c0 \cup {k}
      /\ \A j \in DOMAIN c0 : c1[j] = c0[j]
      /\ \A j \in DOMAIN c1 : j \in DOMAIN c0 \/ c1[j].enable
  <2>1. CASE k \in DOMAIN c0
    BY <2>1 DEF AgregaConexion
  <2>2. CASE k \notin DOMAIN c0
    BY <2>2 DEF AgregaConexion, Extiende
  <2> QED BY <2>1, <2>2
<1>3. d = AgregaConexion(c1, l, node, out)
  BY DEF c0
<1> HIDE DEF c1
<1>4. /\ DOMAIN d = DOMAIN c1 \cup {l}
      /\ \A j \in DOMAIN c1 : d[j] = c1[j]
      /\ \A j \in DOMAIN d : j \in DOMAIN c1 \/ d[j].enable
  <2>1. CASE l \in DOMAIN c1
    BY <1>3, <2>1 DEF AgregaConexion
  <2>2. CASE l \notin DOMAIN c1
    <3> DEFINE nuevo == [in |-> node, out |-> out, enable |-> TRUE]
    <3>1. d = [y \in DOMAIN c1 \cup {l} |-> IF y = l THEN nuevo ELSE c1[y]]
      BY <1>3, <2>2 DEF AgregaConexion, Extiende
    <3>2. nuevo.enable
      OBVIOUS
    <3> HIDE DEF nuevo
    <3> QED BY <2>2, <3>1, <3>2
  <2> QED BY <2>1, <2>2
<1> QED BY <1>1, <1>2, <1>4

LEMMA ParteFilas ==
    ASSUME InvGenes, InvGenes', InvFilas, NEW nodes, NumeradosBien(nodes),
           historical_nodes' = nodes, organisms' = organisms, prev_organisms' = prev_organisms,
           NEW i \in Partibles(hijo, nodes), Par(hijo.conex[i]) \in DOMAIN nodes,
           Parte(hijo, i, nodes[Par(hijo.conex[i])])
    PROVE  InvFilas'
<1> DEFINE g == hijo
           c == hijo.conex
           p == Par(c[i])
           node == nodes[p]
           in == c[i].in
           out == c[i].out
           row_in == g.nodos[in]
           row_out == g.nodos[out]
           fila == FilaObtenida(node, row_in)
           uno == <<in, node>>
           h == hijo'
           hr == historical_row
           hi == historical_innovation'
<1>1. /\ i \in DOMAIN c /\ node \notin DOMAIN g.nodos /\ p[1] = in /\ p[2] = out
      /\ in \in DOMAIN g.nodos /\ out \in DOMAIN g.nodos /\ c \in [DOMAIN c -> Gen]
  BY DEF Partibles, Habilitadas, InvGenes, Genomas, Homologo, GenesBien, Par
<1>2. FilaDada(node, row_in, row_out)
  <2>1. row_in \in 0 .. last_row - 1 /\ row_out \in 0 .. last_row - 1
    BY <1>1, RegistrosBien DEF Genomas
  <2>2. ObtenFila(node, row_in, row_out)
    BY DEF Parte
  <2>3. RegistroDeFilas /\ OrdenBien(row_orderer_list, last_row)
    BY DEF InvFilas
  <2> HIDE DEF node, row_in, row_out
  <2> QED BY <2>1, <2>2, <2>3, ObtenFilaBien
<1>3. CrecenFilas /\ last_row \in Nat /\ last_row' \in Nat /\ last_row <= last_row'
  BY <1>2 DEF FilaDada, CrecenFilas, InvFilas, OrdenBien
<1>4. h = [nodos |-> Extiende(g.nodos, node, fila), conex |-> h.conex, filas |-> row_orderer_list']
  BY DEF Parte
<1>5. /\ DOMAIN c \subseteq DOMAIN h.conex /\ hi[uno] \in DOMAIN h.conex
      /\ \A j \in DOMAIN c : Par(h.conex[j]) = Par(c[j])
      /\ \A j \in DOMAIN h.conex : ~h.conex[j].enable => j = i \/ (j \in DOMAIN c /\ ~c[j].enable)
  <2> DEFINE k == hi[uno]
             l == hi[<<node, out>>]
             d == h.conex
  <2>1. d = AgregaConexion(AgregaConexion(Deshabilita(c, i), k, in, node), l, node, out)
    BY DEF Parte
  <2> HIDE DEF d, k, l, in, out, node, c
  <2>2. /\ DOMAIN c \subseteq DOMAIN d /\ k \in DOMAIN d
        /\ \A j \in DOMAIN c : Par(d[j]) = Par(c[j])
        /\ \A j \in DOMAIN d : ~d[j].enable => j = i \/ (j \in DOMAIN c /\ ~c[j].enable)
    BY <1>1, <2>1, GenesPartidos
  <2> QED BY <2>2 DEF d, k
<1>6. /\ DOMAIN h = {"nodos", "conex", "filas"} /\ h.filas = row_orderer_list'
      /\ DOMAIN h.nodos = DOMAIN g.nodos \cup {node}
      /\ \A x \in DOMAIN g.nodos : h.nodos[x] = g.nodos[x]
      /\ h.nodos[node] = fila
  BY <1>1, <1>4 DEF Extiende
<1>7. Crece(historical_nodes, nodes) /\ NodosNuevos(nodes) /\ p \in DOMAIN nodes /\ nodes[p] = node
  BY DEF NumeradosBien
\* the genomes that have the node already
<1>8. ASSUME NEW f \in Genomas \cup {Genoma0}, node \in DOMAIN f.nodos, node \notin DOMAIN hr
      PROVE  row_in = f.nodos[node] /\ row_out = f.nodos[node]
  BY <1>1, <1>8, NodoConocido
<1>9. ASSUME NEW f \in Genomas \cup {Genoma0}, NEW x \in DOMAIN f.nodos, x \in DOMAIN historical_row'
      PROVE  x \in DOMAIN hr
  BY <1>2, <1>8, <1>9 DEF FilaDada
<1>10. ASSUME NEW f \in Genomas \cup {Genoma0} PROVE Coinciden(f, h)
  <2>1. Coinciden(f, g)
    BY DEF InvFilas, Genomas
  <2>2. ASSUME node \in DOMAIN f.nodos PROVE f.nodos[node] = fila
    <3>1. CASE node \in DOMAIN hr
      <4>1. f.nodos[node] = hr[node]
        BY <2>2, <3>1 DEF InvFilas, Linaje, Desciende
      <4>2. node \in DOMAIN historical_row' /\ historical_row'[node] = hr[node]
        BY <1>3, <3>1 DEF CrecenFilas, Crece
      <4> QED BY <4>1, <4>2 DEF FilaObtenida
    <3>2. CASE node \notin DOMAIN hr
      <4>1. row_in = f.nodos[node] /\ row_out = f.nodos[node]
        BY <1>8, <2>2, <3>2
      <4>2. node \notin DOMAIN historical_row'
        BY <4>1, <1>2, <3>2 DEF FilaDada
      <4> QED BY <4>1, <4>2 DEF FilaObtenida
    <3> QED BY <3>1, <3>2
  <2>3. ASSUME NEW x \in DOMAIN f.nodos \cap DOMAIN h.nodos PROVE f.nodos[x] = h.nodos[x]
    BY <2>1, <2>2, <1>6 DEF Coinciden
  <2> QED BY <2>3 DEF Coinciden
<1>11. Linaje(g, nodes, historical_row', row_orderer_list', last_row')
  <2>1. Linaje(g, historical_nodes, historical_row, row_orderer_list, last_row)
    BY DEF InvFilas, Genomas
  <2>2. \A x \in DOMAIN g.nodos : x \in DOMAIN historical_row' => x \in DOMAIN historical_row
    BY <1>9 DEF Genomas
  <2> HIDE DEF g
  <2> QED BY <2>1, <2>2, <1>3, <1>7, LinajeCrece DEF CrecenFilas
<1>12. FilasBien(h, row_orderer_list', last_row')
  <2>1. \A x \in DOMAIN g.nodos : g.nodos[x] \in 0 .. last_row' - 1
    BY <1>3, RegistrosBien DEF Genomas
  <2>2. fila \in 0 .. last_row' - 1
    BY <1>2 DEF FilaDada
  <2>3. \A x \in DOMAIN h.nodos : h.nodos[x] \in 0 .. last_row' - 1
    BY <1>6, <2>1, <2>2
  <2>4. OrdenBien(row_orderer_list', last_row')
    BY <1>3 DEF CrecenFilas
  <2> HIDE DEF h
  <2> QED BY <2>3, <2>4, <1>6, FilasPropias
<1>13. Activo(h, nodes)
  <2>1. DOMAIN Conexiones0 \subseteq DOMAIN h.conex
    BY <1>5, <1>11 DEF Linaje, Activo
  <2>2. ASSUME NEW j \in DOMAIN h.conex, ~h.conex[j].enable
        PROVE  \/ Par(h.conex[j]) \in DOMAIN nodes /\ nodes[Par(h.conex[j])] \in DOMAIN h.nodos
               \/ j \in DOMAIN Conexiones0 /\ ~Conexiones0[j].enable
    <3>1. CASE j = i
      BY <3>1, <1>1, <1>5, <1>6, <1>7
    <3>2. CASE j \in DOMAIN c /\ ~c[j].enable
      BY <3>2, <1>5, <1>6, <1>11 DEF Linaje, Activo
    <3> QED BY <2>2, <3>1, <3>2, <1>5
  <2> QED BY <2>1, <2>2 DEF Activo
<1>14. \E j \in DOMAIN h.conex : Par(h.conex[j]) = uno
  <2>1. Homologo(h, hi, last_innovation', last_node') /\ RegistroHasta(hi, last_innovation')
    BY DEF InvGenes, Genomas
  <2>2. uno \in DOMAIN hi
    BY DEF Parte, Innova, Numera
  <2>3. Par(h.conex[hi[uno]]) \in DOMAIN hi /\ hi[Par(h.conex[hi[uno]])] = hi[uno]
    BY <2>1, <1>5 DEF Homologo, GenesBien
  <2> QED BY <2>1, <2>2, <2>3, <1>5 DEF RegistroHasta, IsInjective
<1>15. node \in DOMAIN historical_row' => fila = historical_row'[node]
  BY DEF FilaObtenida
<1>16. node \notin DOMAIN historical_row' => fila = row_in /\ fila = row_out
  <2> SUFFICES ASSUME node \notin DOMAIN historical_row' PROVE fila = row_in /\ fila = row_out
    OBVIOUS
  <2>1. node \notin DOMAIN hr
    BY <1>3 DEF CrecenFilas, Crece
  <2> QED BY <2>1, <1>2 DEF FilaDada, FilaObtenida
<1>17. Desciende(h, nodes, historical_row')
  <2> HIDE DEF h, g, c, p, node, in, out, row_in, row_out, fila, uno
  <2> SUFFICES ASSUME NEW x \in DOMAIN h.nodos
               PROVE  /\ x \in DOMAIN historical_row' => h.nodos[x] = historical_row'[x]
                      /\ x >= NODOS0 => \E q \in DOMAIN nodes :
                            /\ nodes[q] = x /\ q[1] \in DOMAIN h.nodos /\ q[2] \in DOMAIN h.nodos
                            /\ \E j \in DOMAIN h.conex : Par(h.conex[j]) = <<q[1], x>>
                            /\ x \notin DOMAIN historical_row' =>
                                 h.nodos[q[1]] = h.nodos[x] /\ h.nodos[q[2]] = h.nodos[x]
    BY DEF Desciende
  <2>1. CASE x = node
    <3>1. x \in DOMAIN historical_row' => h.nodos[x] = historical_row'[x]
      BY <2>1, <1>6, <1>15
    <3>2. p[1] \in DOMAIN h.nodos /\ p[2] \in DOMAIN h.nodos
      BY <1>1, <1>6
    <3>3. \E j \in DOMAIN h.conex : Par(h.conex[j]) = <<p[1], x>>
      BY <2>1, <1>1, <1>14 DEF uno
    <3>4. h.nodos[p[1]] = row_in /\ h.nodos[p[2]] = row_out
      BY <1>1, <1>6 DEF row_in, row_out
    <3> QED BY <2>1, <3>1, <3>2, <3>3, <3>4, <1>6, <1>7, <1>16
  <2>2. CASE x \in DOMAIN g.nodos
    <3>1. Desciende(g, nodes, historical_row')
      BY <1>11 DEF Linaje
    <3>2. x \in DOMAIN historical_row' => h.nodos[x] = historical_row'[x]
      BY <2>2, <3>1, <1>6 DEF Desciende
    <3>3. ASSUME x >= NODOS0
          PROVE  \E q \in DOMAIN nodes :
                   /\ nodes[q] = x /\ q[1] \in DOMAIN h.nodos /\ q[2] \in DOMAIN h.nodos
                   /\ \E j \in DOMAIN h.conex : Par(h.conex[j]) = <<q[1], x>>
                   /\ x \notin DOMAIN historical_row' =>
                        h.nodos[q[1]] = h.nodos[x] /\ h.nodos[q[2]] = h.nodos[x]
      <4>1. PICK q \in DOMAIN nodes :
               /\ nodes[q] = x /\ q[1] \in DOMAIN g.nodos /\ q[2] \in DOMAIN g.nodos
               /\ \E j \in DOMAIN g.conex : Par(g.conex[j]) = <<q[1], x>>
               /\ x \notin DOMAIN historical_row' =>
                    g.nodos[q[1]] = g.nodos[x] /\ g.nodos[q[2]] = g.nodos[x]
        BY <2>2, <3>1, <3>3 DEF Desciende
      <4>2. \E j \in DOMAIN h.conex : Par(h.conex[j]) = <<q[1], x>>
        BY <4>1, <1>5 DEF g, c
      <4>3. /\ h.nodos[q[1]] = g.nodos[q[1]] /\ h.nodos[q[2]] = g.nodos[q[2]]
            /\ h.nodos[x] = g.nodos[x]
        BY <2>2, <4>1, <1>6
      <4> QED BY <4>1, <4>2, <4>3, <1>6
    <3> QED BY <3>2, <3>3
  <2> QED BY <2>1, <2>2, <1>6
<1>18. Linaje(h, nodes, historical_row', row_orderer_list', last_row')
  BY <1>6, <1>12, <1>13, <1>17 DEF Linaje
<1>19. Genomas' \subseteq Genomas \cup {Genoma0, h}
  BY DEF Genomas
<1> HIDE DEF h, hr
<1> QED BY <1>3, <1>7, <1>9, <1>10, <1>18, <1>19, FilasSeConservan DEF hr

LEMMA MutacionNodoFilas ==
    ASSUME InvGenes, InvGenes', InvFilas, MutacionNodo
    PROVE  InvFilas'
<1> DEFINE nodes == Numera(historical_nodes, ParesHabilitados(hijo), last_node + 1, OrdenDeGenes(hijo))
<1>1. historical_nodes' = nodes /\ organisms' = organisms /\ prev_organisms' = prev_organisms
  BY DEF MutacionNodo, poblacion
<1>2. \/ Aborta
      \/ \E i \in Partibles(hijo, nodes) : Parte(hijo, i, nodes[Par(hijo.conex[i])])
  BY DEF MutacionNodo
<1>3. NumeradosBien(nodes)
  BY MutacionNumera
<1> HIDE DEF nodes
<1>4. CASE Aborta
  <2>1. /\ historical_row' = historical_row /\ row_orderer_list' = row_orderer_list
        /\ last_row' = last_row /\ Genomas' = Genomas
    BY <1>1, <1>4 DEF Aborta, filas, Genomas
  <2>2. CrecenFilas
    BY <2>1 DEF CrecenFilas, InvFilas, Crece, RegistroDeFilas, OrdenBien
  <2>3. Crece(historical_nodes, historical_nodes') /\ NodosNuevos(historical_nodes')
    BY <1>1, <1>3 DEF NumeradosBien
  <2>4. /\ Linaje(hijo, historical_nodes, historical_row, row_orderer_list, last_row)
        /\ \A g \in Genomas \cup {Genoma0} : Coinciden(g, hijo)
    BY DEF InvFilas, Genomas
  <2>5. Linaje(hijo, historical_nodes', historical_row', row_orderer_list', last_row')
    BY <2>1, <2>2, <2>3, <2>4, LinajeCrece DEF CrecenFilas, OrdenBien
  <2> QED BY <2>1, <2>2, <2>3, <2>4, <2>5, FilasSeConservan
<1>5. ASSUME NEW i \in Partibles(hijo, nodes), Parte(hijo, i, nodes[Par(hijo.conex[i])])
      PROVE  InvFilas'
  <2>1. Par(hijo.conex[i]) \in DOMAIN nodes
    BY <1>3 DEF NumeradosBien, Partibles, ParesHabilitados
  <2> QED BY <1>1, <1>3, <1>5, <2>1, ParteFilas
<1> QED BY <1>2, <1>4, <1>5

LEMMA PasoFilas == InvGenes /\ InvGenes' /\ InvFilas /\ [Next]_vars => InvFilas'
<1> SUFFICES ASSUME InvGenes, InvGenes', InvFilas, [Next]_vars PROVE InvFilas'
  OBVIOUS
<1> DEFINE Bien(x) == /\ Linaje(x, historical_nodes, historical_row, row_orderer_list, last_row)
                      /\ \A g \in Genomas \cup {Genoma0} : Coinciden(g, x)
<1>1. \A x \in Genomas \cup {Genoma0} : Bien(x)
  BY DEF InvFilas
<1>2. ASSUME NEW x, UNCHANGED <<historical_nodes, filas>>, Bien(x),
             Genomas' \subseteq Genomas \cup {Genoma0, x}
      PROVE  InvFilas'
  BY <1>2, FilasQuietas
<1>3. CASE ComienzaEpoca
  <2>1. UNCHANGED <<historical_nodes, filas>> /\ Genomas' \subseteq Genomas \cup {Genoma0, Genoma0}
    BY <1>3 DEF ComienzaEpoca, Genomas, registros
  <2> QED BY <2>1, <1>1, <1>2
<1>4. ASSUME NEW x, Engendra(x), Bien(x) PROVE InvFilas'
  <2>1. UNCHANGED <<historical_nodes, filas>> /\ Genomas' \subseteq Genomas \cup {Genoma0, x}
    BY <1>4 DEF Engendra, Genomas, registros, poblacion
  <2> QED BY <2>1, <1>4, <1>2
<1>5. CASE MutacionPesos
  BY <1>1, <1>4, <1>5 DEF MutacionPesos, Genomas
<1>6. CASE Cruza
  <2>1. PICK padre \in prev_organisms, madre \in prev_organisms :
           \E G, M, R : Engendra(Cruce(padre, madre, G, M, R))
    BY <1>6 DEF Cruza
  <2>2. PICK G, M, R : Engendra(Cruce(padre, madre, G, M, R))
    BY <2>1
  <2>3. padre \in Genomas /\ madre \in Genomas
    BY DEF Genomas
  <2>4. Bien(Cruce(padre, madre, G, M, R))
    BY <2>3, CruceFilas
  <2> QED BY <2>2, <2>4, <1>4
<1>7. CASE MutacionNodo
  BY <1>7, MutacionNodoFilas
<1>8. CASE SinNodo
  <2>1. UNCHANGED <<historical_nodes, filas>> /\ Genomas' \subseteq Genomas \cup {Genoma0, Genoma0}
    BY <1>8 DEF SinNodo, Genomas, registros, poblacion
  <2> QED BY <2>1, <1>1, <1>2
<1>9. CASE MutacionConexion
  BY <1>9, MutacionConexionFilas
<1>10. CASE SinConexion
  <2>1. UNCHANGED <<historical_nodes, filas>> /\ Genomas' \subseteq Genomas \cup {Genoma0, hijo}
        /\ hijo \in Genomas
    BY <1>10 DEF SinConexion, Nace, Genomas
  <2> QED BY <2>1, <1>1, <1>2
<1>11. CASE UNCHANGED vars
  <2>1. UNCHANGED <<historical_nodes, filas>> /\ Genomas' \subseteq Genomas \cup {Genoma0, Genoma0}
    BY <1>11 DEF vars, registros, poblacion, Genomas
  <2> QED BY <2>1, <1>1, <1>2
<1> QED BY <1>3, <1>5, <1>6, <1>7, <1>8, <1>9, <1>10, <1>11 DEF Next

LEMMA SiempreFilas == Spec => [](InvGenes /\ InvFilas)
<1>1. InvGenes /\ InvFilas /\ [Next]_vars => (InvGenes /\ InvFilas)'
  BY PasoGenes, PasoFilas DEF Conserva
<1>2. Init => InvGenes /\ InvFilas
  BY InicioGenes, InicioFilas
<1> QED BY <1>1, <1>2, PTL DEF Spec

\* The rows mean the same in every genome, whatever was crossed and mutated
\* before: a node keeps its row, each genome's order of the first rows is the
\* population's, and the outputs' row stays the last.
THEOREM FilasSiempreEnOrden == Spec => []OrdenDeFilas
<1>1. InvGenes /\ InvFilas => OrdenDeFilas
  <2> SUFFICES ASSUME InvFilas PROVE OrdenDeFilas
    OBVIOUS
  <2>1. \A g, h \in Genomas : \A n \in DOMAIN g.nodos \cap DOMAIN h.nodos : g.nodos[n] = h.nodos[n]
    BY DEF InvFilas, Coinciden
  <2>2. ASSUME NEW g \in Genomas
        PROVE  /\ IsInjective(g.filas) /\ Range(g.filas) = 0 .. Len(g.filas) - 1
               /\ Range(g.nodos) \subseteq Range(g.filas) /\ g.filas[Len(g.filas)] = FILAS0 - 1
               /\ \A j, k \in DOMAIN g.filas :
                    j < k => EnOrden(row_orderer_list, g.filas[j], g.filas[k])
    <3> DEFINE n == Len(g.filas)
    <3>1. FilasBien(g, row_orderer_list, last_row)
      BY DEF InvFilas, Linaje
    <3>2. OrdenBien(g.filas, n) /\ DOMAIN g.filas = 1 .. n
      BY <3>1, LargoDeOrden DEF FilasBien
    <3>3. Range(g.filas) = 0 .. n - 1
      BY <3>2 DEF OrdenBien, Range
    <3>4. Range(g.nodos) \subseteq 0 .. n - 1
      BY <3>1 DEF FilasBien, Range
    <3> QED BY <3>1, <3>2, <3>3, <3>4 DEF FilasBien, OrdenBien
  <2> QED BY <2>1, <2>2 DEF OrdenDeFilas
<1> QED BY <1>1, SiempreFilas, PTL

-----------------------------------------------------------------------------
(* Nothing stops the population                                            *)

\* A genome always has an enabled gene into its newest node, or the loaded one
\* that is enabled while it has no other node: only a newer node could have
\* split it.
LEMMA HayHabilitada ==
    ASSUME InvGenes, InvFilas, NEW g \in Genomas
    PROVE  \E i \in Habilitadas(g) :
             \A x \in DOMAIN g.nodos : x >= NODOS0 => x <= g.conex[i].out
<1> DEFINE hi == historical_innovation
           hn == historical_nodes
           S == {x \in DOMAIN g.nodos : x >= NODOS0}
<1>1. /\ Homologo(g, hi, last_innovation, last_node) /\ RegistroHasta(hi, last_innovation)
      /\ Homologo(Genoma0, hi, last_innovation, last_node) /\ last_node \in Nat
  BY DEF InvGenes, Genomas
<1>2. Activo(g, hn) /\ Desciende(g, hn, historical_row) /\ NodosNuevos(hn)
  BY DEF InvFilas, Linaje, Genomas
<1>3. S \in SUBSET (0 .. last_node) /\ DOMAIN g.nodos \subseteq 0 .. last_node
  BY <1>1 DEF Homologo
<1>4. NODOS0 \in Nat
  BY InnovacionSupuestos DEF InnovacionSupuestos
<1>6. CASE S = {}
  <2>1. PICK e \in DOMAIN Conexiones0 : Conexiones0[e].enable
    BY InnovacionSupuestos DEF InnovacionSupuestos
  <2>2. e \in DOMAIN g.conex
    BY <1>2 DEF Activo
  <2>3. g.conex[e].enable
    <3> SUFFICES ASSUME ~g.conex[e].enable PROVE FALSE
      OBVIOUS
    <3>1. Par(g.conex[e]) \in DOMAIN hn /\ hn[Par(g.conex[e])] \in DOMAIN g.nodos
      BY <2>1, <2>2, <1>2 DEF Activo
    <3>2. hn[Par(g.conex[e])] >= NODOS0
      BY <3>1, <1>2 DEF NodosNuevos
    <3> QED BY <3>1, <3>2, <1>6
  <2> QED BY <2>2, <2>3, <1>6 DEF Habilitadas
<1>7. CASE S # {}
  <2>1. PICK m \in S : \A x \in S : x <= m
    <3> HIDE DEF S
    <3> QED BY <1>1, <1>3, <1>7, Mayor
  <2>2. m \in DOMAIN g.nodos /\ m >= NODOS0 /\ m \in Nat
    BY <2>1, <1>3
  <2>3. PICK j \in DOMAIN g.conex : \E a : Par(g.conex[j]) = <<a, m>>
    BY <2>2, <1>2 DEF Desciende
  <2>4. g.conex[j].out = m /\ Par(g.conex[j])[2] = m
    BY <2>3 DEF Par
  <2>5. g.conex[j].enable
    <3> SUFFICES ASSUME ~g.conex[j].enable PROVE FALSE
      OBVIOUS
    <3> DEFINE q == Par(g.conex[j])
    <3>1. CASE q \in DOMAIN hn /\ hn[q] \in DOMAIN g.nodos
      <4>1. hn[q] > m /\ hn[q] >= NODOS0
        BY <3>1, <2>4, <1>2 DEF NodosNuevos
      <4>2. hn[q] \in S
        BY <4>1, <3>1
      <4>3. hn[q] <= m /\ hn[q] \in Int
        BY <4>2, <2>1, <1>3
      <4> HIDE DEF q
      <4> QED BY <4>1, <4>3, <2>2
    <3>2. CASE j \in DOMAIN Conexiones0
      <4>1. Genoma0.conex = Conexiones0
        BY DEF Genoma0
      <4>2. /\ q \in DOMAIN hi /\ hi[q] = j
            /\ Par(Conexiones0[j]) \in DOMAIN hi /\ hi[Par(Conexiones0[j])] = j
        BY <3>2, <4>1, <1>1 DEF Homologo, GenesBien
      <4>3. q = Par(Conexiones0[j])
        BY <4>2, <1>1 DEF RegistroHasta, IsInjective
      <4>4. Conexiones0[j].out = m
        BY <4>3, <2>4 DEF Par
      <4>5. Conexiones0[j].out \in 0 .. NODOS0 - 1
        BY <3>2, InnovacionSupuestos DEF InnovacionSupuestos
      <4> QED BY <4>4, <4>5, <2>2, <1>4
    <3> QED BY <3>1, <3>2, <1>2 DEF Activo
  <2>6. \A x \in DOMAIN g.nodos : x >= NODOS0 => x <= g.conex[j].out
    BY <2>1, <2>4
  <2> QED BY <2>5, <2>6 DEF Habilitadas
<1> QED BY <1>6, <1>7

\* So it always has one to split.
LEMMA SiempreHayPartibles ==
    ASSUME InvGenes, InvFilas, NEW nodes, NumeradosBien(nodes)
    PROVE  Partibles(hijo, nodes) # {}
<1>1. hijo \in Genomas
  BY DEF Genomas
<1>2. PICK i \in Habilitadas(hijo) :
        \A x \in DOMAIN hijo.nodos : x >= NODOS0 => x <= hijo.conex[i].out
  BY <1>1, HayHabilitada
<1> DEFINE q == Par(hijo.conex[i])
<1>3. q \in DOMAIN nodes /\ q[2] = hijo.conex[i].out
  BY DEF NumeradosBien, ParesHabilitados, Par
<1>4. nodes[q] \in Nat /\ q[2] \in Nat
  <2>1. DOMAIN nodes \subseteq Nat \X Nat
    BY DEF NumeradosBien, RegistroHasta
  <2> QED BY <1>3, <2>1 DEF NumeradosBien, RegistroHasta
<1>5. nodes[q] >= NODOS0 /\ nodes[q] > q[2]
  BY <1>3 DEF NumeradosBien, NodosNuevos
<1> HIDE DEF q
<1>6. nodes[q] \notin DOMAIN hijo.nodos
  BY <1>2, <1>3, <1>4, <1>5
<1> QED BY <1>6 DEF Partibles, q

\* mutation_node never gives up: the rows of the connection it splits exist too.
LEMMA NoAborta ==
    ASSUME InvGenes, InvFilas, MutacionNodo
    PROVE  paso' = "conexion"
<1> DEFINE nodes == Numera(historical_nodes, ParesHabilitados(hijo), last_node + 1, OrdenDeGenes(hijo))
<1>1. Partibles(hijo, nodes) # {}
  <2>1. NumeradosBien(nodes)
    BY MutacionNumera
  <2> HIDE DEF nodes
  <2> QED BY <2>1, SiempreHayPartibles
<1>2. \A i \in Partibles(hijo, nodes) :
        FilasExisten(hijo.nodos[hijo.conex[i].in], hijo.nodos[hijo.conex[i].out])
  <2> SUFFICES ASSUME NEW i \in Partibles(hijo, nodes)
               PROVE  FilasExisten(hijo.nodos[hijo.conex[i].in], hijo.nodos[hijo.conex[i].out])
    OBVIOUS
  <2>1. i \in DOMAIN hijo.conex
    BY DEF Partibles, Habilitadas
  <2>2. hijo.conex[i].in \in DOMAIN hijo.nodos /\ hijo.conex[i].out \in DOMAIN hijo.nodos
    BY <2>1 DEF InvGenes, Genomas, Homologo, GenesBien
  <2>3. /\ hijo.nodos[hijo.conex[i].in] \in 0 .. last_row - 1
        /\ hijo.nodos[hijo.conex[i].out] \in 0 .. last_row - 1
    BY <2>2, RegistrosBien DEF Genomas
  <2>4. \A r \in 0 .. last_row - 1 : r \in Range(row_orderer_list)
    BY RegistrosBien DEF OrdenBien, Range
  <2> QED BY <2>3, <2>4 DEF FilasExisten
<1>3. \E i \in Partibles(hijo, nodes) : Parte(hijo, i, nodes[Par(hijo.conex[i])])
  BY <1>1, <1>2 DEF MutacionNodo
<1> QED BY <1>3 DEF Parte

\* What the loop of epoch_reproduce keeps.
Marcha ==
    /\ nacidos \in 0 .. POPULATION_MAX /\ generacion \in 0 .. MAX_GENERACION
    /\ paso \in {"elige", "nodo", "conexion"}
    /\ paso # "elige" => nacidos < POPULATION_MAX

LEMMA PasoMarcha == InvGenes /\ InvFilas /\ Marcha /\ [Next]_vars => Marcha'
<1> SUFFICES ASSUME InvGenes, InvFilas, Marcha, [Next]_vars PROVE Marcha'
  OBVIOUS
<1>1. POPULATION_MAX \in Nat /\ MAX_GENERACION \in Nat
  BY InnovacionSupuestos DEF InnovacionSupuestos
<1> USE DEF Marcha
<1>2. ASSUME NEW g, Nace(g), paso = "conexion" PROVE Marcha'
  BY <1>1, <1>2 DEF Nace
<1>3. ASSUME NEW g, Engendra(g), nacidos < POPULATION_MAX PROVE Marcha'
  BY <1>3 DEF Engendra, poblacion
<1>4. CASE ComienzaEpoca
  BY <1>1, <1>4 DEF ComienzaEpoca
<1>5. CASE MutacionPesos
  BY <1>3, <1>5 DEF MutacionPesos
<1>6. CASE Cruza
  BY <1>3, <1>6 DEF Cruza
<1>7. CASE MutacionNodo
  <2>1. paso' = "conexion" /\ paso = "nodo" /\ UNCHANGED poblacion
    BY <1>7, NoAborta DEF MutacionNodo
  <2> QED BY <2>1 DEF poblacion
<1>8. CASE SinNodo
  BY <1>8 DEF SinNodo, poblacion
<1>9. CASE MutacionConexion
  BY <1>2, <1>9 DEF MutacionConexion
<1>10. CASE SinConexion
  BY <1>2, <1>10 DEF SinConexion
<1>11. CASE UNCHANGED vars
  BY <1>11 DEF vars, poblacion
<1> QED BY <1>4, <1>5, <1>6, <1>7, <1>8, <1>9, <1>10, <1>11 DEF Next

InvTodo == InvGenes /\ InvFilas /\ Marcha

LEMMA SiempreTodo == Spec => []InvTodo
<1>1. InvTodo /\ [Next]_vars => InvTodo'
  BY PasoGenes, PasoFilas, PasoMarcha DEF InvTodo, Conserva
<1>2. Init => Marcha
  BY InnovacionSupuestos DEF InnovacionSupuestos, Init, Marcha
<1>3. Init => InvTodo
  BY <1>2, InicioGenes, InicioFilas DEF InvTodo
<1> QED BY <1>1, <1>3, PTL DEF Spec

\* mutation_node always has a connection to split and obtain_row finds both rows:
\* the program does not exit in the middle of an epoch.
THEOREM NoSeAborta == Spec => []NuncaAborta
<1>1. InvTodo => NuncaAborta
  BY DEF InvTodo, Marcha, NuncaAborta
<1> QED BY <1>1, SiempreTodo, PTL

\* The registries hold numbers already given, and every genome is made of them.
THEOREM TiposCorrectos == Spec => []TypeOK
<1>1. InvTodo => TypeOK
  <2> SUFFICES ASSUME InvTodo PROVE TypeOK
    OBVIOUS
  <2> USE DEF InvTodo
  <2>1. /\ RegistroHasta(historical_innovation, last_innovation)
        /\ RegistroHasta(historical_nodes, last_node + 1)
        /\ last_node \in Nat /\ last_row \in Nat /\ RegistroDeFilas
    BY DEF InvGenes, InvFilas, OrdenBien
  <2>2. /\ last_innovation \in Nat
        /\ \A p \in DOMAIN historical_innovation :
             p \in Nat \X Nat /\ historical_innovation[p] \in 0 .. last_innovation - 1
    BY <2>1 DEF RegistroHasta
  <2>3. \A p \in DOMAIN historical_nodes :
          p \in Nat \X Nat /\ historical_nodes[p] \in 0 .. last_node
    BY <2>1 DEF RegistroHasta
  <2>4. ASSUME NEW g \in Genomas PROVE Genoma(g)
    <3>1. /\ Linaje(g, historical_nodes, historical_row, row_orderer_list, last_row)
          /\ Homologo(g, historical_innovation, last_innovation, last_node)
      BY DEF InvGenes, InvFilas
    <3>2. \A n \in DOMAIN g.nodos : g.nodos[n] \in 0 .. last_row - 1
      BY RegistrosBien
    <3>3. Len(g.filas) \in 1 .. last_row
      BY <3>1, <2>1 DEF Linaje, FilasBien, OrdenBien
    <3> QED BY <3>1, <3>2, <3>3 DEF Genoma, Linaje, Homologo, GenesBien
  <2> QED BY <2>1, <2>2, <2>3, <2>4 DEF TypeOK, Marcha, RegistroDeFilas
<1> QED BY <1>1, SiempreTodo, PTL

-----------------------------------------------------------------------------
(* What a genome loads as                                                  *)

\* No genome ever loses a node of the loaded one.
ConIniciales(g) == DOMAIN Nodos0 \subseteq DOMAIN g.nodos
Iniciales == \A g \in Genomas \cup {Genoma0} : ConIniciales(g)

LEMMA PasoIniciales == Iniciales /\ [Next]_vars => Iniciales'
<1> SUFFICES ASSUME Iniciales, [Next]_vars PROVE Iniciales'
  OBVIOUS
<1>1. \A g : (g \in Genomas \/ g = Genoma0) => ConIniciales(g)
  BY DEF Iniciales
<1>2. ASSUME NEW h, ConIniciales(h), Genomas' \subseteq Genomas \cup {Genoma0, h}
      PROVE  Iniciales'
  BY <1>1, <1>2 DEF Iniciales, Genoma0, ConIniciales
<1>3. ConIniciales(Genoma0)
  BY <1>1
<1>4. CASE ComienzaEpoca
  <2>1. Genomas' \subseteq Genomas \cup {Genoma0, Genoma0}
    BY <1>4 DEF ComienzaEpoca, Genomas
  <2> QED BY <2>1, <1>2, <1>3
<1>5. ASSUME NEW g, Engendra(g), ConIniciales(g) PROVE Iniciales'
  <2>1. Genomas' \subseteq Genomas \cup {Genoma0, g}
    BY <1>5 DEF Engendra, Genomas, poblacion
  <2> QED BY <2>1, <1>2, <1>5
<1>6. ASSUME NEW g, Nace(g), ConIniciales(g) PROVE Iniciales'
  <2>1. Genomas' \subseteq Genomas \cup {Genoma0, g}
    BY <1>6 DEF Nace, Genomas
  <2> QED BY <2>1, <1>2, <1>6
<1>7. CASE MutacionPesos
  BY <1>7, <1>5, <1>1 DEF MutacionPesos, Genomas
<1>8. CASE Cruza
  <2>1. PICK padre \in prev_organisms, madre \in prev_organisms :
          \E genesMadre, nodosMadre, rehabilitados :
            Engendra(Cruce(padre, madre, genesMadre, nodosMadre, rehabilitados))
    BY <1>8 DEF Cruza
  <2>2. PICK genesMadre, nodosMadre, rehabilitados :
            Engendra(Cruce(padre, madre, genesMadre, nodosMadre, rehabilitados))
    BY <2>1
  <2>3. ConIniciales(padre)
    BY <1>1 DEF Genomas
  <2>4. ConIniciales(Cruce(padre, madre, genesMadre, nodosMadre, rehabilitados))
    BY <2>3 DEF ConIniciales, Cruce, Une
  <2> QED BY <2>2, <2>4, <1>5
<1>9. CASE MutacionNodo
  <2>1. ConIniciales(hijo')
    <3>1. ConIniciales(hijo)
      BY <1>1 DEF Genomas
    <3>2. CASE hijo' = hijo
      BY <3>1, <3>2 DEF ConIniciales
    <3>3. ASSUME NEW i, NEW node, Parte(hijo, i, node) PROVE ConIniciales(hijo')
      BY <3>1, <3>3 DEF Parte, ConIniciales, Extiende
    <3> QED BY <1>9, <3>2, <3>3 DEF MutacionNodo, Aborta
  <2>2. Genomas' \subseteq Genomas \cup {Genoma0, hijo'}
    BY <1>9 DEF MutacionNodo, poblacion, Genomas
  <2>3. PICK h : h = hijo'
    OBVIOUS
  <2> QED BY <2>1, <2>2, <2>3, <1>2 DEF ConIniciales
<1>10. CASE SinNodo
  <2>1. Genomas' \subseteq Genomas \cup {Genoma0, Genoma0}
    BY <1>10 DEF SinNodo, poblacion, Genomas
  <2> QED BY <2>1, <1>2, <1>3
<1>11. CASE MutacionConexion
  <2>1. PICK g : Nace(g) /\ DOMAIN g.nodos = DOMAIN hijo.nodos
    <3>1. \/ Nace(hijo)
          \/ \E c : Nace([hijo EXCEPT !.conex = c])
      BY <1>11 DEF MutacionConexion
    <3>2. CASE Nace(hijo)
      BY <3>2
    <3>3. CASE \E c : Nace([hijo EXCEPT !.conex = c])
      <4>1. PICK c : Nace([hijo EXCEPT !.conex = c])
        BY <3>3
      <4>2. [hijo EXCEPT !.conex = c].nodos = hijo.nodos
        OBVIOUS
      <4>3. PICK g : g = [hijo EXCEPT !.conex = c]
        OBVIOUS
      <4>4. g.nodos = hijo.nodos
        BY <4>2, <4>3
      <4> QED BY <4>1, <4>3, <4>4
    <3> QED BY <3>1, <3>2, <3>3
  <2>2. ConIniciales(g)
    BY <2>1, <1>1 DEF ConIniciales, Genomas
  <2> QED BY <2>1, <2>2, <1>6
<1>12. CASE SinConexion
  <2>1. ConIniciales(hijo)
    BY <1>1 DEF Genomas
  <2> QED BY <2>1, <1>12, <1>6 DEF SinConexion
<1>13. CASE UNCHANGED vars
  <2>1. Genomas' \subseteq Genomas \cup {Genoma0, Genoma0}
    BY <1>13 DEF vars, poblacion, Genomas
  <2> QED BY <2>1, <1>2, <1>3
<1> QED BY <1>4, <1>7, <1>8, <1>9, <1>10, <1>11, <1>12, <1>13 DEF Next

\* Numbering the members of a finite set from 0 keeps their order and misses no
\* number.
LEMMA Renumera ==
    ASSUME NEW S \in SUBSET Nat, IsFiniteSet(S)
    PROVE  /\ Cardinality(S) \in Nat
           /\ \A x \in S : Renumerado(x, S) \in Numeros(S)
           /\ \A x, y \in S : Renumerado(x, S) = Renumerado(y, S) => x = y
           /\ \A x, y \in S : x <= y <=> Renumerado(x, S) <= Renumerado(y, S)
           /\ \A x \in S : Original(Renumerado(x, S), S) = x
           /\ \A k \in Numeros(S) : Original(k, S) \in S /\ Renumerado(Original(k, S), S) = k
<1> DEFINE R == {xy \in S \X S : xy[1] < xy[2]}
<1>1. Cardinality(S) \in Nat
  BY FS_CardinalityType
<1>2. \A x, y \in S : <<x, y>> \in R <=> x < y
  OBVIOUS
<1>3. OrdenTotal(R, S)
  <2>1. \A x, y \in S : x \in Nat /\ y \in Nat
    OBVIOUS
  <2> HIDE DEF R
  <2> QED BY <1>2, <2>1 DEF OrdenTotal
<1>4. \A x \in S : {y \in S : <<y, x>> \in R} = {y \in S : y < x}
  <2> HIDE DEF R
  <2> QED BY <1>2
<1> HIDE DEF R
<1>5. \A x \in S : Rango(x, S, R) = Renumerado(x, S)
  BY <1>4 DEF Renumerado, Rango
<1>6. \A x \in S : Renumerado(x, S) \in Numeros(S)
  <2>1. \A x \in S : Rango(x, S, R) \in 0 .. Cardinality(S) - 1
    BY <1>3, RangosPropios
  <2> QED BY <2>1, <1>5 DEF Numeros
<1>7. \A x, y \in S : Renumerado(x, S) = Renumerado(y, S) => x = y
  BY <1>3, <1>5, RangosPropios
<1>8. \A k \in Numeros(S) : \E x \in S : Renumerado(x, S) = k
  <2>1. Tomados(S, R)
    BY <1>3, RangosTomados
  <2> QED BY <2>1, <1>5 DEF Tomados, Numeros
<1>9. ASSUME NEW x \in S, NEW y \in S, x <= y PROVE Renumerado(x, S) <= Renumerado(y, S)
  <2> DEFINE A == {z \in S : z < x}
             B == {z \in S : z < y}
  <2>1. A \in SUBSET B /\ B \in SUBSET S
    <3>1. x \in Nat /\ y \in Nat
      OBVIOUS
    <3>2. \A z \in S : z < x => z < y
      <4>1. \A z \in Nat : z < x => z < y
        BY <3>1, <1>9
      <4> QED BY <4>1
    <3> QED BY <3>2
  <2> HIDE DEF A, B
  <2>2. IsFiniteSet(B)
    BY <2>1, FS_Subset
  <2>3. Cardinality(A) <= Cardinality(B)
    BY <2>1, <2>2, FS_Subset
  <2> QED BY <2>3 DEF Renumerado, A, B
<1>10. ASSUME NEW x \in S, NEW y \in S, Renumerado(x, S) <= Renumerado(y, S) PROVE x <= y
  <2>1. CASE y <= x
    <3>1. Renumerado(y, S) <= Renumerado(x, S)
      BY <2>1, <1>9
    <3>2. Renumerado(y, S) \in Int /\ Renumerado(x, S) \in Int
      BY <1>6, <1>1 DEF Numeros
    <3>3. Renumerado(y, S) = Renumerado(x, S)
      BY <3>1, <3>2, <1>10
    <3> QED BY <3>3, <1>7
  <2> QED BY <2>1
<1>11. \A k \in Numeros(S) : Original(k, S) \in S /\ Renumerado(Original(k, S), S) = k
  BY <1>8 DEF Original
<1>12. ASSUME NEW x \in S PROVE Original(Renumerado(x, S), S) = x
  BY <1>6, <1>7, <1>11
<1> QED BY <1>1, <1>6, <1>7, <1>9, <1>10, <1>11, <1>12

\* Those of an interval from 0, or from 1, keep their places.
LEMMA RenumeraIntervalo ==
    ASSUME NEW S \in SUBSET Nat, IsFiniteSet(S), NEW a \in Nat, NEW n \in S,
           a <= n, \A x \in S : a <= x, a .. n \subseteq S
    PROVE  Renumerado(n, S) = n - a
<1>1. n \in Nat /\ \A x \in S : x \in Nat
  OBVIOUS
<1>2. {y \in S : y < n} = a .. n - 1
  <2>1. \A y \in a .. n - 1 : y \in a .. n /\ y < n
    BY <1>1
  <2>2. ASSUME NEW y \in S, y < n PROVE y \in a .. n - 1
    <3>1. y \in Nat /\ a <= y
      OBVIOUS
    <3> QED BY <3>1, <2>2, <1>1
  <2> QED BY <2>1, <2>2
<1>3. n - 1 \in Int /\ a \in Int
  BY <1>1
<1>4. Cardinality(a .. n - 1) = n - a
  <2>1. Cardinality(a .. n - 1) = IF a > n - 1 THEN 0 ELSE (n - 1) - a + 1
    BY <1>3, FS_Interval
  <2> QED BY <2>1, <1>1, <1>3
<1> QED BY <1>2, <1>4 DEF Renumerado

\* what a genome is that can be written down and loaded
Sano(g) ==
    /\ DOMAIN g.nodos \in SUBSET Nat /\ IsFiniteSet(DOMAIN g.nodos)
    /\ DOMAIN g.conex \in SUBSET Nat /\ IsFiniteSet(DOMAIN g.conex)
    /\ Len(g.filas) \in Nat /\ DOMAIN g.filas = 1 .. Len(g.filas)
    /\ \A k \in DOMAIN g.filas : g.filas[k] \in 0 .. Len(g.filas) - 1
    /\ \A r \in 0 .. Len(g.filas) - 1 : \E k \in DOMAIN g.filas : g.filas[k] = r
    /\ \A j, k \in DOMAIN g.filas : g.filas[j] = g.filas[k] => j = k
    /\ \A n \in DOMAIN g.nodos : g.nodos[n] \in 0 .. Len(g.filas) - 1
    /\ \A i \in DOMAIN g.conex : /\ g.conex[i] \in Gen
                                 /\ g.conex[i].in \in DOMAIN g.nodos /\ g.conex[i].out \in DOMAIN g.nodos
    /\ \A i, j \in DOMAIN g.conex : Par(g.conex[i]) = Par(g.conex[j]) => i = j
    /\ \E i \in DOMAIN g.conex : g.conex[i].enable
    /\ ConIniciales(g)

\* the positions of the rows with nodes
ConNodos(g) == {k \in DOMAIN g.filas : g.filas[k] \in Range(g.nodos)}

\* F is the rows with nodes of g, each once, in their order
EnumeraFilas(F, g) ==
    /\ Len(F) \in Nat /\ DOMAIN F = 1 .. Len(F) /\ F \in Seq(Nat)
    /\ \A k \in 1 .. Len(F) : F[k] \in Range(g.nodos)
    /\ \A j, k \in 1 .. Len(F) : F[j] = F[k] => j = k
    /\ \A r \in Range(g.nodos) : \E k \in 1 .. Len(F) : F[k] = r
    /\ \A p, q \in DOMAIN g.filas : \A j, k \in 1 .. Len(F) :
         g.filas[p] = F[j] /\ g.filas[q] = F[k] => (p <= q <=> j <= k)

LEMMA FilasEnumeradas ==
    ASSUME NEW g, Sano(g)
    PROVE  EnumeraFilas(FilasConNodos(g), g)
<1> DEFINE S == ConNodos(g)
           L == Cardinality(S)
           F == FilasConNodos(g)
           n == Len(g.filas)
<1>1. n \in Nat /\ DOMAIN g.filas = 1 .. n
  BY DEF Sano
<1>2. S \in SUBSET (1 .. n) /\ S \in SUBSET Nat
  BY <1>1 DEF ConNodos
<1>3. IsFiniteSet(S)
  <2>1. IsFiniteSet(1 .. n)
    BY <1>1, FS_Interval
  <2> HIDE DEF S
  <2> QED BY <1>2, <2>1, FS_Subset
<1>4. F = [k \in 1 .. L |-> g.filas[Original(k - 1, S)]]
  BY DEF FilasConNodos, ConNodos
<1>5. \A k \in S : g.filas[k] \in Range(g.nodos) /\ k \in DOMAIN g.filas
  BY DEF ConNodos
<1>6. \A k \in DOMAIN g.filas : g.filas[k] \in Range(g.nodos) => k \in S
  BY DEF ConNodos
<1> HIDE DEF S, F
<1>7. /\ L \in Nat
      /\ \A x \in S : Renumerado(x, S) \in Numeros(S)
      /\ \A x, y \in S : x <= y <=> Renumerado(x, S) <= Renumerado(y, S)
      /\ \A x \in S : Original(Renumerado(x, S), S) = x
      /\ \A k \in Numeros(S) : Original(k, S) \in S /\ Renumerado(Original(k, S), S) = k
  BY <1>2, <1>3, Renumera
<1> HIDE DEF L
<1>8. Numeros(S) = 0 .. L - 1
  BY DEF Numeros, L
<1>9. \A k \in 1 .. L : k - 1 \in Numeros(S)
  BY <1>7, <1>8
<1>10. ASSUME NEW k \in 1 .. L
       PROVE  /\ F[k] \in Range(g.nodos) /\ F[k] \in Nat
              /\ \A p \in DOMAIN g.filas : g.filas[p] = F[k] => p \in S /\ Renumerado(p, S) = k - 1
  <2>1. Original(k - 1, S) \in S /\ Renumerado(Original(k - 1, S), S) = k - 1
    BY <1>7, <1>9
  <2>2. F[k] = g.filas[Original(k - 1, S)]
    BY <1>4
  <2>3. F[k] \in Range(g.nodos) /\ Original(k - 1, S) \in DOMAIN g.filas
    BY <2>1, <2>2, <1>5
  <2>4. F[k] \in Nat
    <3>1. g.filas[Original(k - 1, S)] \in 0 .. n - 1
      BY <2>3 DEF Sano
    <3> QED BY <3>1, <2>2, <1>1
  <2>5. \A p \in DOMAIN g.filas : g.filas[p] = F[k] => p = Original(k - 1, S)
    BY <2>2, <2>3 DEF Sano
  <2> QED BY <2>1, <2>3, <2>4, <2>5
<1>11. DOMAIN F = 1 .. L /\ F \in Seq(Nat) /\ Len(F) = L
  <2>1. F \in [1 .. L -> Nat]
    BY <1>4, <1>10
  <2> QED BY <2>1, <1>7
<1>12. \A p, q \in DOMAIN g.filas : \A j, k \in 1 .. L :
         g.filas[p] = F[j] /\ g.filas[q] = F[k] => (p <= q <=> j <= k)
  <2> SUFFICES ASSUME NEW p \in DOMAIN g.filas, NEW q \in DOMAIN g.filas,
                      NEW j \in 1 .. L, NEW k \in 1 .. L,
                      g.filas[p] = F[j], g.filas[q] = F[k]
               PROVE  p <= q <=> j <= k
    OBVIOUS
  <2>1. p \in S /\ Renumerado(p, S) = j - 1 /\ q \in S /\ Renumerado(q, S) = k - 1
    BY <1>10
  <2>2. p <= q <=> j - 1 <= k - 1
    BY <2>1, <1>7
  <2> QED BY <2>2, <1>7
<1>13. ASSUME NEW j \in 1 .. L, NEW k \in 1 .. L, F[j] = F[k] PROVE j = k
  <2>1. PICK p \in DOMAIN g.filas : g.filas[p] = F[j]
    <3>1. F[j] = g.filas[Original(j - 1, S)] /\ Original(j - 1, S) \in DOMAIN g.filas
      BY <1>4, <1>5, <1>7, <1>9
    <3> QED BY <3>1
  <2>2. Renumerado(p, S) = j - 1 /\ Renumerado(p, S) = k - 1
    BY <2>1, <1>10, <1>13
  <2> QED BY <2>2, <1>7
<1>14. ASSUME NEW r \in Range(g.nodos) PROVE \E k \in 1 .. L : F[k] = r
  <2>1. r \in 0 .. n - 1
    BY DEF Sano, Range
  <2>2. PICK p \in DOMAIN g.filas : g.filas[p] = r
    BY <2>1 DEF Sano
  <2>3. p \in S
    BY <2>2, <1>6
  <2>4. Renumerado(p, S) + 1 \in 1 .. L /\ Renumerado(p, S) \in 0 .. L - 1
    BY <2>3, <1>7, <1>8
  <2>5. F[Renumerado(p, S) + 1] = g.filas[Original((Renumerado(p, S) + 1) - 1, S)]
    BY <2>4, <1>4
  <2>6. (Renumerado(p, S) + 1) - 1 = Renumerado(p, S)
    BY <2>4
  <2>7. Original((Renumerado(p, S) + 1) - 1, S) = p
    BY <2>3, <2>6, <1>7
  <2> QED BY <2>2, <2>4, <2>5, <2>7
<1> QED BY <1>7, <1>10, <1>11, <1>12, <1>13, <1>14 DEF EnumeraFilas, F

LEMMA FilaCargadaBien ==
    ASSUME NEW g, Sano(g)
    PROVE  /\ \A k \in 1 .. Len(FilasConNodos(g)) : FilaCargada(FilasConNodos(g)[k], g) = k - 1
           /\ \A n \in DOMAIN g.nodos :
                /\ FilaCargada(g.nodos[n], g) \in 0 .. Len(FilasConNodos(g)) - 1
                /\ FilasConNodos(g)[FilaCargada(g.nodos[n], g) + 1] = g.nodos[n]
<1> DEFINE F == FilasConNodos(g)
           L == Len(F)
<1>1. EnumeraFilas(F, g)
  BY FilasEnumeradas
<1>2. \A r : FilaCargada(r, g) = CHOOSE k \in 0 .. L - 1 : F[k + 1] = r
  BY DEF FilaCargada
<1> HIDE DEF F
<1>3. L \in Nat
  BY <1>1 DEF EnumeraFilas
<1>4. ASSUME NEW k \in 1 .. L
      PROVE  /\ FilaCargada(F[k], g) \in 0 .. L - 1 /\ F[FilaCargada(F[k], g) + 1] = F[k]
             /\ FilaCargada(F[k], g) = k - 1
  <2>1. k - 1 \in 0 .. L - 1 /\ F[(k - 1) + 1] = F[k]
    BY <1>3
  <2>2. FilaCargada(F[k], g) \in 0 .. L - 1 /\ F[FilaCargada(F[k], g) + 1] = F[k]
    BY <2>1, <1>2
  <2>3. FilaCargada(F[k], g) + 1 \in 1 .. L
    BY <2>2, <1>3
  <2>4. FilaCargada(F[k], g) + 1 = k
    BY <2>2, <2>3, <1>1 DEF EnumeraFilas
  <2>5. FilaCargada(F[k], g) = k - 1
    BY <2>4, <2>2, <1>3
  <2> QED BY <2>2, <2>5
<1>5. ASSUME NEW n \in DOMAIN g.nodos
      PROVE  FilaCargada(g.nodos[n], g) \in 0 .. L - 1 /\ F[FilaCargada(g.nodos[n], g) + 1] = g.nodos[n]
  <2>1. g.nodos[n] \in Range(g.nodos)
    BY DEF Range
  <2>2. PICK k \in 1 .. L : F[k] = g.nodos[n]
    BY <2>1, <1>1 DEF EnumeraFilas
  <2> QED BY <2>2, <1>4
<1> QED BY <1>4, <1>5 DEF F

\* h is g with its nodes, genes and rows numbered again.
Copiado(h, g) ==
    LET N == DOMAIN g.nodos
        I == DOMAIN g.conex
        F == FilasConNodos(g)
    IN  /\ DOMAIN h.nodos = Numeros(N) /\ DOMAIN h.conex = Numeros(I)
        /\ \A n \in N : h.nodos[Renumerado(n, N)] = FilaCargada(g.nodos[n], g)
        /\ \A i \in I : /\ h.conex[Renumerado(i, I)].in = Renumerado(g.conex[i].in, N)
                        /\ h.conex[Renumerado(i, I)].out = Renumerado(g.conex[i].out, N)
                        /\ h.conex[Renumerado(i, I)].enable = g.conex[i].enable
        /\ h.filas = [k \in 1 .. Len(F) |-> k - 1]

LEMMA CargaCopia ==
    ASSUME NEW g, Sano(g)
    PROVE  Copiado(Carga(g), g)
<1> DEFINE N == DOMAIN g.nodos
           I == DOMAIN g.conex
           F == FilasConNodos(g)
           h == Carga(g)
           gen(k) == [g.conex[Original(k, I)] EXCEPT !.in = Renumerado(@, N), !.out = Renumerado(@, N)]
<1>1. /\ h.nodos = [k \in Numeros(N) |-> FilaCargada(g.nodos[Original(k, N)], g)]
      /\ h.conex = [k \in Numeros(I) |-> gen(k)]
      /\ h.filas = [k \in DOMAIN F |-> k - 1]
  BY DEF Carga
<1>2. N \in SUBSET Nat /\ IsFiniteSet(N) /\ I \in SUBSET Nat /\ IsFiniteSet(I)
  BY DEF Sano
<1>3. DOMAIN F = 1 .. Len(F)
  BY FilasEnumeradas DEF EnumeraFilas
<1>4. /\ \A x \in N : Renumerado(x, N) \in Numeros(N) /\ Original(Renumerado(x, N), N) = x
      /\ \A x \in I : Renumerado(x, I) \in Numeros(I) /\ Original(Renumerado(x, I), I) = x
  BY <1>2, Renumera
<1>5. \A i \in I : g.conex[i] \in Gen
  BY DEF Sano
<1> HIDE DEF h, F
<1>6. ASSUME NEW i \in I
      PROVE  /\ h.conex[Renumerado(i, I)].in = Renumerado(g.conex[i].in, N)
             /\ h.conex[Renumerado(i, I)].out = Renumerado(g.conex[i].out, N)
             /\ h.conex[Renumerado(i, I)].enable = g.conex[i].enable
  <2>1. Original(Renumerado(i, I), I) = i /\ Renumerado(i, I) \in Numeros(I)
    BY <1>4
  <2>2. h.conex[Renumerado(i, I)] = gen(Renumerado(i, I))
    BY <2>1, <1>1
  <2>3. gen(Renumerado(i, I)) = [g.conex[i] EXCEPT !.in = Renumerado(@, N), !.out = Renumerado(@, N)]
    BY <2>1
  <2>4. DOMAIN g.conex[i] = {"in", "out", "enable"}
    BY <1>5 DEF Gen
  <2> HIDE DEF gen
  <2> QED BY <2>2, <2>3, <2>4
<1>7. ASSUME NEW n \in N PROVE h.nodos[Renumerado(n, N)] = FilaCargada(g.nodos[n], g)
  BY <1>1, <1>4
<1>8. DOMAIN h.nodos = Numeros(N) /\ DOMAIN h.conex = Numeros(I)
      /\ h.filas = [k \in 1 .. Len(F) |-> k - 1]
  BY <1>1, <1>3
<1> QED BY <1>6, <1>7, <1>8 DEF Copiado, h, F

\* Every row of the copy has nodes.
LEMMA FilasDeLaCopia ==
    ASSUME NEW g, Sano(g), NEW h, Copiado(h, g)
    PROVE  /\ Range(h.nodos) = 0 .. Len(FilasConNodos(g)) - 1
           /\ Len(h.filas) = Len(FilasConNodos(g))
           /\ FilasConNodos(h) = h.filas
           /\ \A r \in 0 .. Len(FilasConNodos(g)) - 1 : Inversa(h)[r] = r + 1
<1> DEFINE N == DOMAIN g.nodos
           F == FilasConNodos(g)
           L == Len(F)
<1>1. EnumeraFilas(F, g)
  BY FilasEnumeradas
<1>2. /\ \A k \in 1 .. L : FilaCargada(F[k], g) = k - 1
      /\ \A n \in N : FilaCargada(g.nodos[n], g) \in 0 .. L - 1
  BY FilaCargadaBien
<1>3. /\ DOMAIN h.nodos = Numeros(N) /\ h.filas = [k \in 1 .. L |-> k - 1]
      /\ \A n \in N : h.nodos[Renumerado(n, N)] = FilaCargada(g.nodos[n], g)
  BY DEF Copiado
<1>4. /\ \A x \in N : Renumerado(x, N) \in Numeros(N)
      /\ \A k \in Numeros(N) : Original(k, N) \in N /\ Renumerado(Original(k, N), N) = k
  BY Renumera DEF Sano
<1> HIDE DEF F
<1>5. L \in Nat
  BY <1>1 DEF EnumeraFilas
<1> HIDE DEF L
<1>6. ASSUME NEW r \in Range(h.nodos) PROVE r \in 0 .. L - 1
  <2>1. PICK k \in Numeros(N) : r = h.nodos[k]
    BY <1>3 DEF Range
  <2>2. r = h.nodos[Renumerado(Original(k, N), N)] /\ Original(k, N) \in N
    BY <2>1, <1>4
  <2> QED BY <2>2, <1>2, <1>3
<1>7. ASSUME NEW r \in 0 .. L - 1 PROVE r \in Range(h.nodos)
  <2>1. r + 1 \in 1 .. L /\ (r + 1) - 1 = r
    BY <1>5
  <2>2. F[r + 1] \in Range(g.nodos) /\ FilaCargada(F[r + 1], g) = r
    BY <2>1, <1>1, <1>2 DEF EnumeraFilas, L
  <2>3. PICK n \in N : F[r + 1] = g.nodos[n]
    BY <2>2 DEF Range
  <2>4. h.nodos[Renumerado(n, N)] = r /\ Renumerado(n, N) \in DOMAIN h.nodos
    BY <2>2, <2>3, <1>3, <1>4
  <2> QED BY <2>4 DEF Range
<1>8. Range(h.nodos) = 0 .. L - 1
  BY <1>6, <1>7
<1>9. Len(h.filas) = L /\ DOMAIN h.filas = 1 .. L /\ \A k \in 1 .. L : h.filas[k] = k - 1
  <2>1. h.filas \in [1 .. L -> Int]
    BY <1>3, <1>5
  <2>2. h.filas \in Seq(Int)
    BY <2>1, <1>5
  <2> QED BY <2>1, <2>2, <1>3, <1>5
<1>10. FilasConNodos(h) = h.filas
  <2> DEFINE S == ConNodos(h)
  <2>1. S = 1 .. L
    <3>1. \A k \in 1 .. L : h.filas[k] \in 0 .. L - 1
      BY <1>5, <1>9
    <3> QED BY <3>1, <1>8, <1>9 DEF ConNodos
  <2>2. FilasConNodos(h) = [k \in 1 .. Cardinality(S) |-> h.filas[Original(k - 1, S)]]
    BY DEF FilasConNodos, ConNodos
  <2> HIDE DEF S
  <2>3. Cardinality(S) = L /\ IsFiniteSet(S) /\ S \in SUBSET Nat
    <3>1. Cardinality(1 .. L) = (IF 1 > L THEN 0 ELSE L - 1 + 1) /\ IsFiniteSet(1 .. L)
      BY <1>5, FS_Interval
    <3>2. \A k \in 1 .. L : k \in Nat
      BY <1>5
    <3> QED BY <3>1, <3>2, <2>1, <1>5
  <2>4. ASSUME NEW k \in 1 .. L PROVE Original(k - 1, S) = k
    <3>1. k \in S /\ 1 \in Nat /\ 1 <= k /\ (\A x \in S : 1 <= x) /\ 1 .. k \subseteq S
      BY <2>1, <1>5
    <3>2. Renumerado(k, S) = k - 1
      BY <3>1, <2>3, RenumeraIntervalo
    <3>3. Original(Renumerado(k, S), S) = k
      BY <3>1, <2>3, Renumera
    <3> QED BY <3>2, <3>3
  <2>5. FilasConNodos(h) = [k \in 1 .. L |-> h.filas[k]]
    BY <2>2, <2>3, <2>4
  <2>6. [k \in 1 .. L |-> h.filas[k]] = [k \in 1 .. L |-> k - 1]
    BY <1>9
  <2> QED BY <2>5, <2>6, <1>3
<1>11. ASSUME NEW r \in 0 .. L - 1 PROVE Inversa(h)[r] = r + 1
  <2>1. r + 1 \in DOMAIN h.filas /\ h.filas[r + 1] = r
    BY <1>5, <1>9
  <2>2. r \in Range(h.filas)
    BY <2>1 DEF Range
  <2>3. Inversa(h)[r] = CHOOSE k \in DOMAIN h.filas : h.filas[k] = r
    BY <2>2 DEF Inversa
  <2>4. \A k \in DOMAIN h.filas : h.filas[k] = r => k = r + 1
    BY <1>5, <1>9
  <2> QED BY <2>1, <2>3, <2>4
<1> QED BY <1>8, <1>9, <1>10, <1>11 DEF L, F

\* A genome that can be written down is the same network when it is loaded.
LEMMA MismaRedCargada ==
    ASSUME NEW g, Sano(g), NEW h, Copiado(h, g)
    PROVE  MismaRed(g, h)
<1> DEFINE N == DOMAIN g.nodos
           I == DOMAIN g.conex
           F == FilasConNodos(g)
           H == FilasConNodos(h)
           L == Len(F)
<1>1. EnumeraFilas(F, g)
  BY FilasEnumeradas
<1>2. /\ \A k \in 1 .. L : FilaCargada(F[k], g) = k - 1
      /\ \A n \in N : /\ FilaCargada(g.nodos[n], g) \in 0 .. L - 1
                      /\ F[FilaCargada(g.nodos[n], g) + 1] = g.nodos[n]
  BY FilaCargadaBien
<1>3. /\ DOMAIN h.nodos = Numeros(N) /\ DOMAIN h.conex = Numeros(I)
      /\ h.filas = [k \in 1 .. L |-> k - 1]
      /\ \A n \in N : h.nodos[Renumerado(n, N)] = FilaCargada(g.nodos[n], g)
      /\ \A i \in I : /\ h.conex[Renumerado(i, I)].in = Renumerado(g.conex[i].in, N)
                      /\ h.conex[Renumerado(i, I)].out = Renumerado(g.conex[i].out, N)
                      /\ h.conex[Renumerado(i, I)].enable = g.conex[i].enable
  BY DEF Copiado
<1>4. N \in SUBSET Nat /\ IsFiniteSet(N) /\ I \in SUBSET Nat /\ IsFiniteSet(I)
  BY DEF Sano
<1>5. /\ \A x \in N : Renumerado(x, N) \in Numeros(N)
      /\ \A x, y \in N : Renumerado(x, N) = Renumerado(y, N) => x = y
      /\ \A k \in Numeros(N) : Original(k, N) \in N /\ Renumerado(Original(k, N), N) = k
  BY <1>4, Renumera
<1>6. /\ \A x \in I : Renumerado(x, I) \in Numeros(I)
      /\ \A k \in Numeros(I) : Original(k, I) \in I /\ Renumerado(Original(k, I), I) = k
  BY <1>4, Renumera
<1>7. /\ Len(h.filas) = L /\ H = h.filas /\ \A r \in 0 .. L - 1 : Inversa(h)[r] = r + 1
  BY FilasDeLaCopia
<1>8. L \in Nat /\ F \in Seq(Nat)
  BY <1>1 DEF EnumeraFilas
<1>9. L >= 1
  <2>1. 0 \in N
    <3>1. 0 \in DOMAIN Nodos0
      BY InnovacionSupuestos DEF InnovacionSupuestos
    <3> QED BY <3>1 DEF Sano, ConIniciales
  <2>2. g.nodos[0] \in Range(g.nodos)
    BY <2>1 DEF Range
  <2>3. \E k \in 1 .. L : F[k] = g.nodos[0]
    BY <2>2, <1>1 DEF EnumeraFilas
  <2> QED BY <2>3, <1>8
<1> HIDE DEF F, H
<1>10. /\ Len(Tail(F)) = L - 1 /\ DOMAIN Tail(F) = 1 .. L - 1
       /\ \A k \in 1 .. L - 1 : Tail(F)[k] = F[k + 1]
  BY <1>8, <1>9
<1>11. /\ Len(Tail(H)) = L - 1 /\ \A k \in 1 .. L - 1 : Tail(H)[k] = k
  <2>1. H \in [1 .. L -> Int]
    BY <1>3, <1>7, <1>8
  <2>2. H \in Seq(Int) /\ Len(H) = L
    <3>1. H \in Seq(Int)
      BY <2>1, <1>8
    <3> QED BY <3>1, <1>7
  <2>3. \A k \in 1 .. L : H[k] = k - 1
    BY <1>3, <1>7
  <2>4. \A k \in 1 .. L - 1 : Tail(H)[k] = H[k + 1] /\ k + 1 \in 1 .. L
    BY <2>2, <1>8, <1>9
  <2>5. \A k \in 1 .. L - 1 : (k + 1) - 1 = k
    BY <1>8
  <2>6. Len(Tail(H)) = L - 1
    BY <2>2, <1>9
  <2> QED BY <2>3, <2>4, <2>5, <2>6
<1> HIDE DEF L
<1>12. ASSUME NEW n \in Entradas PROVE Renumerado(n, N) = n
  <2>1. DOMAIN Nodos0 = 0 .. NODOS0 - 1 /\ NODOS0 \in Nat
    BY InnovacionSupuestos DEF InnovacionSupuestos
  <2>2. n \in 0 .. NODOS0 - 1
    BY <2>1 DEF Entradas
  <2>3. n \in N /\ 0 .. n \subseteq N
    BY <2>1, <2>2 DEF Sano, ConIniciales
  <2>4. 0 \in Nat /\ n \in Nat /\ 0 <= n /\ \A x \in N : 0 <= x
    BY <2>1, <2>2, <1>4
  <2>5. Renumerado(n, N) = n - 0
    BY <2>3, <2>4, <1>4, RenumeraIntervalo
  <2> QED BY <2>4, <2>5
<1>13. ASSUME NEW k \in 1 .. L - 1
       PROVE  {Renumerado(n, N) : n \in NodosDe(g, Tail(F)[k])} = NodosDe(h, Tail(H)[k])
  <2>1. Tail(F)[k] = F[k + 1] /\ Tail(H)[k] = k
    BY <1>10, <1>11
  <2>2. k + 1 \in 1 .. L /\ (k + 1) - 1 = k
    BY <1>8
  <2>3. ASSUME NEW n \in N PROVE g.nodos[n] = F[k + 1] <=> h.nodos[Renumerado(n, N)] = k
    <3>1. h.nodos[Renumerado(n, N)] = FilaCargada(g.nodos[n], g)
      BY <1>3
    <3>2. FilaCargada(F[k + 1], g) = k
      BY <2>2, <1>2
    <3>3. F[FilaCargada(g.nodos[n], g) + 1] = g.nodos[n]
      BY <1>2
    <3> QED BY <3>1, <3>2, <3>3
  <2>4. \A m \in DOMAIN h.nodos : \E n \in N : m = Renumerado(n, N)
    BY <1>3, <1>5
  <2>5. \A n \in N : Renumerado(n, N) \in DOMAIN h.nodos
    BY <1>3, <1>5
  <2>6. \A m : m \in NodosDe(h, k) <=> m \in DOMAIN h.nodos /\ h.nodos[m] = k
    BY DEF NodosDe
  <2>7. \A n : n \in NodosDe(g, F[k + 1]) <=> n \in N /\ g.nodos[n] = F[k + 1]
    BY DEF NodosDe
  <2>8. {Renumerado(n, N) : n \in NodosDe(g, F[k + 1])} = NodosDe(h, k)
    <3>1. \A n \in NodosDe(g, F[k + 1]) : Renumerado(n, N) \in NodosDe(h, k)
      BY <2>3, <2>5, <2>6, <2>7
    <3>2. \A m \in NodosDe(h, k) : \E n \in NodosDe(g, F[k + 1]) : m = Renumerado(n, N)
      BY <2>3, <2>4, <2>6, <2>7
    <3> QED BY <3>1, <3>2
  <2> QED BY <2>1, <2>8
<1>14. ASSUME NEW n \in N
       PROVE  {Renumerado(i, I) : i \in Recibe(g, n)} = Recibe(h, Renumerado(n, N))
  <2>1. \A i : i \in Recibe(g, n) <=> i \in I /\ g.conex[i].enable /\ g.conex[i].out = n
    BY DEF Recibe, Habilitadas
  <2>2. \A j : j \in Recibe(h, Renumerado(n, N))
                 <=> j \in DOMAIN h.conex /\ h.conex[j].enable /\ h.conex[j].out = Renumerado(n, N)
    BY DEF Recibe, Habilitadas
  <2>3. ASSUME NEW i \in I
        PROVE  i \in Recibe(g, n) <=> Renumerado(i, I) \in Recibe(h, Renumerado(n, N))
    <3>1. Renumerado(i, I) \in DOMAIN h.conex /\ g.conex[i].out \in N
      BY <1>3, <1>6 DEF Sano
    <3>2. g.conex[i].out = n <=> Renumerado(g.conex[i].out, N) = Renumerado(n, N)
      BY <3>1, <1>5
    <3> QED BY <3>1, <3>2, <2>1, <2>2, <1>3
  <2>4. \A j \in DOMAIN h.conex : \E i \in I : j = Renumerado(i, I)
    BY <1>3, <1>6
  <2> QED BY <2>1, <2>2, <2>3, <2>4
<1>15. ASSUME NEW i \in I
       PROVE  /\ Renumerado(g.conex[i].in, N) = h.conex[Renumerado(i, I)].in
              /\ Pasada(g, i) <=> Pasada(h, Renumerado(i, I))
  <2> DEFINE a == g.nodos[g.conex[i].in]
             b == g.nodos[g.conex[i].out]
  <2>1. g.conex[i].in \in N /\ g.conex[i].out \in N
    BY DEF Sano
  <2>2. Pasada(g, i) <=> Inversa(g)[a] >= Inversa(g)[b]
    BY DEF Pasada
  <2>3. Pasada(h, Renumerado(i, I)) <=> Inversa(h)[FilaCargada(a, g)] >= Inversa(h)[FilaCargada(b, g)]
    BY <2>1, <1>3 DEF Pasada
  <2>4. /\ FilaCargada(a, g) \in 0 .. L - 1 /\ F[FilaCargada(a, g) + 1] = a
        /\ FilaCargada(b, g) \in 0 .. L - 1 /\ F[FilaCargada(b, g) + 1] = b
    BY <2>1, <1>2
  <2>5. a \in 0 .. Len(g.filas) - 1 /\ b \in 0 .. Len(g.filas) - 1
    BY <2>1 DEF Sano
  <2> HIDE DEF a, b
  <2>6. ASSUME NEW r \in 0 .. Len(g.filas) - 1
        PROVE  Inversa(g)[r] \in DOMAIN g.filas /\ g.filas[Inversa(g)[r]] = r
    <3>1. \E k \in DOMAIN g.filas : g.filas[k] = r
      BY DEF Sano
    <3>2. r \in Range(g.filas)
      BY <3>1 DEF Range
    <3> QED BY <3>1, <3>2 DEF Inversa
  <2> DEFINE p == Inversa(g)[a]
             q == Inversa(g)[b]
             j == FilaCargada(a, g) + 1
             k == FilaCargada(b, g) + 1
  <2>7. p \in DOMAIN g.filas /\ g.filas[p] = a /\ q \in DOMAIN g.filas /\ g.filas[q] = b
    BY <2>5, <2>6
  <2>8. j \in 1 .. L /\ F[j] = a /\ k \in 1 .. L /\ F[k] = b
    BY <2>4, <1>8
  <2>9. Inversa(h)[FilaCargada(a, g)] = j /\ Inversa(h)[FilaCargada(b, g)] = k
    BY <2>4, <1>7
  <2> HIDE DEF p, q, j, k
  <2>10. q <= p <=> k <= j
    BY <2>7, <2>8, <1>1 DEF EnumeraFilas, L
  <2>11. Pasada(g, i) <=> q <= p
    <3>1. DOMAIN g.filas = 1 .. Len(g.filas)
      BY DEF Sano
    <3>2. p \in Int /\ q \in Int
      BY <3>1, <2>7
    <3> QED BY <3>2, <2>2 DEF p, q
  <2>12. Pasada(h, Renumerado(i, I)) <=> k <= j
    <3>1. k \in Int /\ j \in Int
      BY <2>8
    <3> QED BY <3>1, <2>3, <2>9
  <2>13. Renumerado(g.conex[i].in, N) = h.conex[Renumerado(i, I)].in
    BY <1>3
  <2> QED BY <2>10, <2>11, <2>12, <2>13
<1> QED BY <1>10, <1>11, <1>12, <1>13, <1>14, <1>15 DEF MismaRed, FilasEvaluadas, F, H

LEMMA SiembraCargada ==
    ASSUME NEW g, Sano(g), NEW h, Copiado(h, g)
    PROVE  Siembra(h)
<1> DEFINE N == DOMAIN g.nodos
           I == DOMAIN g.conex
<1>1. /\ DOMAIN h.conex = Numeros(I)
      /\ \A i \in I : /\ h.conex[Renumerado(i, I)].in = Renumerado(g.conex[i].in, N)
                      /\ h.conex[Renumerado(i, I)].out = Renumerado(g.conex[i].out, N)
                      /\ h.conex[Renumerado(i, I)].enable = g.conex[i].enable
  BY DEF Copiado
<1>2. \A x, y \in N : Renumerado(x, N) = Renumerado(y, N) => x = y
  BY Renumera DEF Sano
<1>3. /\ \A x \in I : Renumerado(x, I) \in Numeros(I)
      /\ \A k \in Numeros(I) : Original(k, I) \in I /\ Renumerado(Original(k, I), I) = k
  BY Renumera DEF Sano
<1>4. Range(h.nodos) = 0 .. Len(h.filas) - 1
  BY FilasDeLaCopia
<1>5. ASSUME NEW k \in DOMAIN h.conex, NEW m \in DOMAIN h.conex, Par(h.conex[k]) = Par(h.conex[m])
      PROVE  k = m
  <2> DEFINE i == Original(k, I)
             j == Original(m, I)
  <2>1. i \in I /\ Renumerado(i, I) = k /\ j \in I /\ Renumerado(j, I) = m
    BY <1>1, <1>3
  <2>2. h.conex[k].in = h.conex[m].in /\ h.conex[k].out = h.conex[m].out
    BY <1>5 DEF Par
  <2> HIDE DEF i, j
  <2>3. /\ Renumerado(g.conex[i].in, N) = Renumerado(g.conex[j].in, N)
        /\ Renumerado(g.conex[i].out, N) = Renumerado(g.conex[j].out, N)
    BY <2>1, <2>2, <1>1
  <2>4. /\ g.conex[i].in \in N /\ g.conex[i].out \in N
        /\ g.conex[j].in \in N /\ g.conex[j].out \in N
    BY <2>1 DEF Sano
  <2>5. Par(g.conex[i]) = Par(g.conex[j])
    BY <2>3, <2>4, <1>2 DEF Par
  <2>6. i = j
    BY <2>1, <2>5 DEF Sano
  <2> QED BY <2>1, <2>6
<1>6. \E k \in DOMAIN h.conex : h.conex[k].enable
  <2>1. PICK i \in I : g.conex[i].enable
    BY DEF Sano
  <2> QED BY <2>1, <1>1, <1>3
<1> QED BY <1>4, <1>5, <1>6 DEF Siembra

LEMMA SanoEsCargable ==
    ASSUME NEW g, Sano(g)
    PROVE  Cargable(g)
<1>1. EnumeraFilas(FilasConNodos(g), g)
  BY FilasEnumeradas
<1>2. Range(g.nodos) \subseteq 0 .. Len(g.filas) - 1
  BY DEF Sano, Range
<1>3. Range(g.filas) = 0 .. Len(g.filas) - 1
  <2>1. /\ \A k \in DOMAIN g.filas : g.filas[k] \in 0 .. Len(g.filas) - 1
        /\ \A r \in 0 .. Len(g.filas) - 1 : \E k \in DOMAIN g.filas : g.filas[k] = r
    BY DEF Sano
  <2> QED BY <2>1 DEF Range
<1>4. Range(FilasConNodos(g)) \subseteq Range(g.nodos)
  <2> DEFINE F == FilasConNodos(g)
  <2>1. DOMAIN F = 1 .. Len(F) /\ \A k \in 1 .. Len(F) : F[k] \in Range(g.nodos)
    BY <1>1 DEF EnumeraFilas
  <2>2. Range(F) = {F[k] : k \in DOMAIN F}
    BY DEF Range
  <2> QED BY <2>1, <2>2
<1>5. \A i \in DOMAIN g.conex : {g.conex[i].in, g.conex[i].out} \subseteq DOMAIN g.nodos
  BY DEF Sano
<1> QED BY <1>2, <1>3, <1>4, <1>5 DEF Cargable

LEMMA TodosSanos ==
    ASSUME InvGenes, InvFilas, Iniciales, NEW g \in Genomas
    PROVE  Sano(g)
<1> DEFINE n == Len(g.filas)
           hi == historical_innovation
<1>1. /\ Homologo(g, hi, last_innovation, last_node) /\ last_node \in Nat
      /\ last_innovation \in Nat
  BY DEF InvGenes, RegistroHasta
<1>2. FilasBien(g, row_orderer_list, last_row)
  BY DEF InvFilas, Linaje
<1>3. OrdenBien(g.filas, n) /\ DOMAIN g.filas = 1 .. n /\ n \in Nat
  BY <1>2, LargoDeOrden DEF FilasBien, OrdenBien
<1>4. /\ \A k \in DOMAIN g.filas : g.filas[k] \in 0 .. n - 1
      /\ \A r \in 0 .. n - 1 : \E k \in DOMAIN g.filas : g.filas[k] = r
      /\ \A j, k \in DOMAIN g.filas : g.filas[j] = g.filas[k] => j = k
  BY <1>3 DEF OrdenBien, IsInjective
<1>5. DOMAIN g.nodos \subseteq 0 .. last_node /\ DOMAIN g.conex \subseteq 0 .. last_innovation - 1
  BY <1>1 DEF Homologo, GenesBien
<1>6. DOMAIN g.nodos \in SUBSET Nat /\ IsFiniteSet(DOMAIN g.nodos)
  <2>1. IsFiniteSet(0 .. last_node)
    BY <1>1, FS_Interval
  <2>2. IsFiniteSet(DOMAIN g.nodos)
    BY <2>1, <1>5, FS_Subset
  <2> QED BY <2>2, <1>1, <1>5
<1>7. DOMAIN g.conex \in SUBSET Nat /\ IsFiniteSet(DOMAIN g.conex)
  <2>1. last_innovation - 1 \in Int
    BY <1>1
  <2>2. IsFiniteSet(0 .. last_innovation - 1)
    BY <2>1, FS_Interval
  <2>3. IsFiniteSet(DOMAIN g.conex)
    BY <2>2, <1>5, FS_Subset
  <2> QED BY <2>1, <2>3, <1>5
<1>8. \A x \in DOMAIN g.nodos : g.nodos[x] \in 0 .. n - 1
  BY <1>2 DEF FilasBien
<1>9. \A i \in DOMAIN g.conex :
        /\ g.conex[i] \in Gen /\ g.conex[i].in \in DOMAIN g.nodos /\ g.conex[i].out \in DOMAIN g.nodos
        /\ hi[Par(g.conex[i])] = i
  BY <1>1 DEF Homologo, GenesBien
<1>10. \A i, j \in DOMAIN g.conex : Par(g.conex[i]) = Par(g.conex[j]) => i = j
  BY <1>9
<1>11. \E i \in DOMAIN g.conex : g.conex[i].enable
  BY HayHabilitada DEF Habilitadas
<1>12. ConIniciales(g)
  BY DEF Iniciales
<1> QED BY <1>3, <1>4, <1>6, <1>7, <1>8, <1>9, <1>10, <1>11, <1>12 DEF Sano

\* Every genome of the population, of any epoch, can be written down and loaded: no
\* table of load is indexed out of its range, and what comes out is the same
\* network, from which another evolution may start.
THEOREM LaCargaEsFiel == Spec => []CargaFiel
<1>1. Init => Iniciales
  BY DEF Init, Iniciales, ConIniciales, Genomas, Genoma0
<1>2. Iniciales /\ [Next]_vars => Iniciales'
  BY PasoIniciales
<1>3. InvTodo /\ Iniciales => CargaFiel
  <2> SUFFICES ASSUME InvTodo, Iniciales, NEW g \in organisms
               PROVE  Cargable(g) /\ MismaRed(g, Carga(g)) /\ Siembra(Carga(g))
    BY DEF CargaFiel
  <2>1. Sano(g)
    BY TodosSanos DEF InvTodo, Genomas
  <2>2. Copiado(Carga(g), g)
    BY <2>1, CargaCopia
  <2> QED BY <2>1, <2>2, SanoEsCargable, MismaRedCargada, SiembraCargada
<1> QED BY <1>1, <1>2, <1>3, SiempreTodo, PTL DEF Spec

=============================================================================
