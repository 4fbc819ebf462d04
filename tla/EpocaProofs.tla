----------------------------- MODULE EpocaProofs -----------------------------
(***************************************************************************)
(* Theorems about Epoca, for any population, fitness and relation between  *)
(* genomes.                                                                *)
(***************************************************************************)
EXTENDS Epoca, Ordenes

-----------------------------------------------------------------------------
(* Vectors filled by push_back                                             *)

\* What copying the positions S of v, in the order "antes", has to give.
Copiado(c, v, S, antes) ==
    /\ \A p \in S : Lugar(p, S, antes) \in DOMAIN c /\ c[Lugar(p, S, antes)] = v[p]
    /\ \A p, q \in S : Lugar(p, S, antes) = Lugar(q, S, antes) => p = q
    /\ \A k \in DOMAIN c : \E p \in S : Lugar(p, S, antes) = k

\* A vector has each copied element once, at its place.
LEMMA CopiaBien ==
    ASSUME NEW S, IsFiniteSet(S), NEW antes, OrdenTotal(antes, S),
           NEW T, NEW v, \A p \in S : v[p] \in T
    PROVE  /\ Copia(v, S, antes) \in Seq(T)
           /\ Len(Copia(v, S, antes)) = Cardinality(S) /\ Cardinality(S) \in Nat
           /\ Copiado(Copia(v, S, antes), v, S, antes)
<1> DEFINE n == Cardinality(S)
           rango(p) == Cardinality({q \in S : <<q, p>> \in antes})
           lugar(p) == Lugar(p, S, antes)
           c == Copia(v, S, antes)
<1>1. n \in Nat
  BY FS_CardinalityType
<1>2. /\ \A p \in S : rango(p) \in 0 .. n - 1
      /\ \A p, r \in S : rango(p) = rango(r) => p = r
  BY Rangos
<1>3. \A k \in 0 .. n - 1 : \E p \in S : rango(p) = k
  BY RangosTodos
<1>4. \A p : lugar(p) = 1 + rango(p)
  BY DEF Lugar
<1>5. c = [k \in 1 .. n |-> v[CHOOSE p \in S : lugar(p) = k]]
  BY DEF Copia
<1> HIDE DEF rango, lugar, n
<1>6. \A p \in S : lugar(p) \in 1 .. n
  BY <1>1, <1>2, <1>4
<1>7. \A p, r \in S : lugar(p) = lugar(r) => p = r
  <2> SUFFICES ASSUME NEW p \in S, NEW r \in S, lugar(p) = lugar(r) PROVE p = r
    OBVIOUS
  <2>1. rango(p) \in Int /\ rango(r) \in Int
    BY <1>1, <1>2
  <2> QED BY <2>1, <1>2, <1>4
<1>8. \A k \in 1 .. n : \E p \in S : lugar(p) = k
  <2> SUFFICES ASSUME NEW k \in 1 .. n PROVE \E p \in S : lugar(p) = k
    OBVIOUS
  <2>1. k - 1 \in 0 .. n - 1 /\ 1 + (k - 1) = k
    BY <1>1
  <2>2. PICK p \in S : rango(p) = k - 1
    BY <2>1, <1>3
  <2> QED BY <2>1, <2>2, <1>4
<1>9. \A p \in S : (CHOOSE q \in S : lugar(q) = lugar(p)) = p
  BY <1>7
<1> HIDE DEF c
<1>10. \A p \in S : c[lugar(p)] = v[p]
  BY <1>5, <1>6, <1>9
<1>11. \A k \in 1 .. n : c[k] \in T
  BY <1>8, <1>10
<1>12. c \in [1 .. n -> T] /\ DOMAIN c = 1 .. n
  BY <1>5, <1>11
<1>13. c \in Seq(T) /\ Len(c) = n
  BY <1>1, <1>12
<1>14. Copiado(c, v, S, antes)
  BY <1>6, <1>7, <1>8, <1>10, <1>12 DEF Copiado, lugar
<1> QED BY <1>1, <1>13, <1>14 DEF c, n

LEMMA MenorTotal ==
    ASSUME NEW S, S \subseteq Int PROVE OrdenTotal(Menor(S), S)
  BY DEF OrdenTotal, Menor

\* Those of a vector that pass a test, in their order.
LEMMA FiltraBien ==
    ASSUME NEW n \in Nat, NEW S \in SUBSET (1 .. n), NEW T, NEW v, \A p \in S : v[p] \in T
    PROVE  /\ Filtra(v, S) \in Seq(T)
           /\ Len(Filtra(v, S)) = Cardinality(S) /\ Cardinality(S) \in Nat
           /\ Copiado(Filtra(v, S), v, S, Menor(S))
<1>1. IsFiniteSet(1 .. n)
  BY FS_Interval
<1>2. IsFiniteSet(S)
  BY <1>1, FS_Subset
<1>3. OrdenTotal(Menor(S), S)
  <2>1. \A p \in S : p \in Int
    OBVIOUS
  <2> QED BY <2>1, MenorTotal
<1> QED BY <1>2, <1>3, CopiaBien DEF Filtra

LEMMA OrdenDeCopiaTotal ==
    ASSUME NEW S, S \subseteq Int, \A p \in S : organisms[p].niche \in Int
    PROVE  OrdenTotal(OrdenDeCopia(S), S)
<1>1. \A p, q \in S : <<p, q>> \in OrdenDeCopia(S) <=>
        \/ organisms[p].niche < organisms[q].niche
        \/ organisms[p].niche = organisms[q].niche /\ p < q
  BY DEF OrdenDeCopia
<1>2. \A p \in S : p \in Int
  OBVIOUS
<1> QED BY <1>1, <1>2 DEF OrdenTotal

\* Maximo finds the greatest of some numbers.
LEMMA MaximoBien ==
    ASSUME NEW n \in Nat, NEW S \in SUBSET (0 .. n), S # {}
    PROVE  /\ Maximo(S) \in S /\ \A y \in S : y <= Maximo(S)
           /\ \A x \in S : (\A y \in S : y <= x) => Maximo(S) = x
<1>1. \E x \in S : \A y \in S : y <= x
  BY Mayor
<1>2. Maximo(S) \in S /\ \A y \in S : y <= Maximo(S)
  BY <1>1 DEF Maximo
<1> DEFINE m == Maximo(S)
<1> HIDE DEF m
<1>3. ASSUME NEW x \in S, \A y \in S : y <= x PROVE m = x
  <2>1. m \in S /\ m <= x /\ x <= m
    BY <1>2, <1>3 DEF m
  <2>2. m \in Int /\ x \in Int
    BY <2>1
  <2> QED BY <2>1, <2>2
<1> QED BY <1>2, <1>3 DEF m

-----------------------------------------------------------------------------
(* The inductive invariant                                                 *)

Completa == Len(organisms) = POPULATION_MAX

Vivas == \A i \in DOMAIN current_niches : current_niches[i].miembros # {}

\* Between generations the species are still those of the last one.
AntesDeRepartir ==
    paso = "especies" =>
        /\ Completa
        /\ \A i \in DOMAIN current_niches :
             current_niches[i].miembros \subseteq DOMAIN prev_organisms

\* While the organisms are sorted: each species has its representative, in one
\* generation or the other, and an organism is in one species at most.
Repartiendo ==
    paso = "reparte" =>
        /\ Completa
        /\ Len(representante) = Len(current_niches) /\ heredados <= Len(current_niches)
        /\ \A j \in DOMAIN current_niches :
             /\ j <= heredados => representante[j] \in DOMAIN prev_organisms
             /\ j > heredados => representante[j] \in DOMAIN organisms
             /\ current_niches[j].miembros \subseteq DOMAIN organisms
             /\ current_niches[j].exist <=> current_niches[j].miembros # {}
        /\ \A j, k \in DOMAIN current_niches : \A p \in current_niches[j].miembros :
             p \in current_niches[k].miembros => j = k

Repartida ==
    /\ paso \in {"evalua", "epoch"} => Completa /\ Vivas
    /\ paso = "epoch" =>
         /\ \A p \in DOMAIN organisms : organisms[p].fitness \in Aptitudes
         /\ current_generation < MAX_GENERACION

Hueco == paso \in {"reproduce", "cruza"} => Len(organisms) < POPULATION_MAX

\* Where no mean rounded, the best organism survives the selection.
Campeon ==
    redondeadas = {} =>
        /\ paso # "epoch" => fitness_champion = mejor
        /\ paso = "epoch" =>
             mejor = Maximo({fitness_champion} \cup {organisms[p].fitness : p \in DOMAIN organisms})

\* ... and of each species, its best.
Vaciadas ==
    paso \in {"nacen", "reproduce", "cruza"} =>
        /\ current_niches # <<>>
        /\ \A i \in DOMAIN current_niches :
             current_niches[i].miembros = {} => <<current_generation, i>> \in redondeadas

SinPadre == paso \notin {"reproduce", "cruza", "aborta"} => random_organism = 0

Abortos == Vaciadas /\ SinPadre /\ AbortoExplicado

Inv ==
    /\ Tipos
    /\ AntesDeRepartir /\ Repartiendo /\ EspeciesDistintas
    /\ Repartida /\ EspeciesParticionan
    /\ Hueco /\ Campeon /\ Abortos

LEMMA Supuestos ==
    /\ POPULATION_MAX \in Nat \ {0} /\ MAX_APTITUD \in Nat /\ MIN_APTITUD \in Nat
    /\ MAX_GENERACION \in Nat /\ NREDONDEO \in Nat /\ Azares \subseteq {"cero", "medio", "tope"}
    /\ Genomas # {} /\ \A g \in Genomas : <<g, g>> \in Cercanos
    /\ \A g \in Genomas : Cria(g) \in Organismo
<1>1. \A g \in Genomas : Cria(g) \in Organismo
  BY EpocaSupuestos DEF EpocaSupuestos, Cria, Organismo
<1> QED BY <1>1, EpocaSupuestos DEF EpocaSupuestos

\* a generation is a vector over the positions
LEMMA Vector ==
    ASSUME NEW T, NEW v \in Seq(T), Len(v) <= POPULATION_MAX
    PROVE  /\ Len(v) \in Nat /\ DOMAIN v = 1 .. Len(v) /\ DOMAIN v \in SUBSET Posiciones
           /\ IsFiniteSet(DOMAIN v) /\ Cardinality(DOMAIN v) = Len(v)
           /\ \A p \in DOMAIN v : v[p] \in T /\ p \in Int
<1>1. Len(v) \in Nat /\ DOMAIN v = 1 .. Len(v)
  OBVIOUS
<1>2. DOMAIN v \in SUBSET Posiciones
  BY <1>1, Supuestos DEF Posiciones
<1> DEFINE n == Len(v)
<1> HIDE DEF n
<1>3. IsFiniteSet(1 .. n) /\ Cardinality(1 .. n) = n
  <2>1. n \in Nat
    BY <1>1 DEF n
  <2> QED BY <2>1, FS_Interval
<1>4. \A p \in DOMAIN v : v[p] \in T /\ p \in Int
  BY <1>1
<1> QED BY <1>1, <1>2, <1>3, <1>4 DEF n

LEMMA InicioInv == Init => Inv
<1> SUFFICES ASSUME Init PROVE Inv
  OBVIOUS
<1>1. /\ organisms \in [1 .. POPULATION_MAX -> Organismo]
      /\ Len(organisms) = POPULATION_MAX /\ organisms \in Seq(Organismo)
  <2>1. organisms \in [1 .. POPULATION_MAX -> Organismo]
    BY Supuestos DEF Init, Posiciones
  <2> QED BY <2>1, Supuestos
<1>2. prev_organisms \in Seq(Organismo) /\ Len(prev_organisms) = 1 /\ DOMAIN prev_organisms = {1}
  BY Supuestos DEF Init
<1>3. current_niches \in Seq(Nicho) /\ DOMAIN current_niches = {1} /\ current_niches[1].miembros = {1}
  BY Supuestos DEF Init, Nicho, Posiciones
<1>4. /\ paso = "especies" /\ fitness_champion = 0 /\ mejor = 0 /\ random_organism = 0
      /\ redondeadas = {} /\ azar = "medio"
  BY DEF Init
<1>5. Tipos
  BY <1>1, <1>2, <1>3, <1>4, Supuestos DEF Init, Tipos
<1>6. AntesDeRepartir
  BY <1>1, <1>2, <1>3 DEF AntesDeRepartir, Completa
<1> QED
  BY <1>4, <1>5, <1>6 DEF Inv, Repartiendo, EspeciesDistintas, Repartida, EspeciesParticionan,
                          Hueco, Campeon, Abortos, Vaciadas, SinPadre, AbortoExplicado

-----------------------------------------------------------------------------
(* spatiation                                                              *)

LEMMA TraspasaBien == Inv /\ Traspasa => Inv'
<1> SUFFICES ASSUME Inv, Traspasa PROVE Inv'
  OBVIOUS
<1> DEFINE real == Filtra(current_niches, Reales)
<1>1. /\ Tipos /\ Completa /\ paso = "especies"
      /\ \A i \in DOMAIN current_niches :
           current_niches[i].miembros \subseteq DOMAIN prev_organisms
  BY DEF Inv, Traspasa, AntesDeRepartir
<1>2. /\ current_niches \in Seq(Nicho) /\ Len(current_niches) \in Nat
      /\ DOMAIN current_niches = 1 .. Len(current_niches)
  BY <1>1 DEF Tipos
<1>3. /\ real \in Seq(Nicho) /\ Len(real) \in Nat
      /\ Copiado(real, current_niches, Reales, Menor(Reales))
  <2>1. Reales \in SUBSET (1 .. Len(current_niches)) /\ \A i \in Reales : current_niches[i] \in Nicho
    BY <1>2 DEF Reales
  <2> QED BY <2>1, <1>2, FiltraBien
<1> HIDE DEF real
<1>4. DOMAIN real = 1 .. Len(real)
  BY <1>3
<1>5. PICK r \in [DOMAIN real -> DOMAIN prev_organisms] : representante' = r
  BY DEF Traspasa, real
<1>6. /\ heredados' = Len(real) /\ paso' = "reparte"
      /\ current_niches' = [j \in DOMAIN real |-> [miembros |-> {}, exist |-> FALSE]]
      /\ organisms' = organisms /\ prev_organisms' = prev_organisms
      /\ fitness_champion' = fitness_champion /\ mejor' = mejor
      /\ random_organism' = random_organism /\ random_mother' = random_mother
      /\ current_generation' = current_generation /\ redondeadas' = redondeadas /\ azar' = azar
  BY DEF Traspasa, real, campeon, padres, historia
<1>7. DOMAIN prev_organisms \in SUBSET Posiciones
  BY <1>1, Vector DEF Tipos
<1>8. representante' \in Seq(Posiciones) /\ Len(representante') = Len(real) /\ DOMAIN representante' = DOMAIN real
  BY <1>3, <1>4, <1>5, <1>7
<1>9. current_niches' \in Seq(Nicho) /\ Len(current_niches') = Len(real)
      /\ DOMAIN current_niches' = DOMAIN real
      /\ \A j \in DOMAIN real : current_niches'[j].miembros = {} /\ ~current_niches'[j].exist
  <2>1. [miembros |-> {}, exist |-> FALSE] \in Nicho
    BY DEF Nicho
  <2> QED BY <2>1, <1>3, <1>4, <1>6
<1>10. Tipos'
  BY <1>1, <1>3, <1>6, <1>8, <1>9 DEF Tipos
<1>11. Repartiendo'
  BY <1>1, <1>3, <1>4, <1>5, <1>6, <1>9, <1>8 DEF Repartiendo, Completa
<1>12. EspeciesDistintas'
  BY <1>3, <1>4, <1>6, <1>9 DEF EspeciesDistintas
<1>13. Campeon' /\ Abortos'
  BY <1>1, <1>6 DEF Inv, Campeon, Abortos, Vaciadas, SinPadre, AbortoExplicado
<1> QED
  BY <1>6, <1>10, <1>11, <1>12, <1>13
     DEF Inv, AntesDeRepartir, Repartida, EspeciesParticionan, Hueco

LEMMA UbicaBien == ASSUME Inv, NEW i \in DOMAIN organisms, Ubica(i) PROVE Inv'
<1>1. /\ Tipos /\ Completa /\ paso = "reparte" /\ EspeciesDistintas
      /\ i \notin Repartidos
  BY DEF Inv, Ubica, Repartiendo
<1>2. /\ current_niches \in Seq(Nicho) /\ Len(current_niches) \in Nat
      /\ DOMAIN current_niches = 1 .. Len(current_niches)
      /\ representante \in Seq(Posiciones) /\ Len(representante) = Len(current_niches)
      /\ DOMAIN representante = DOMAIN current_niches
      /\ heredados \in Nat /\ heredados <= Len(current_niches)
  BY <1>1 DEF Inv, Tipos, Repartiendo
<1>3. /\ \A j \in DOMAIN current_niches :
           /\ j <= heredados => representante[j] \in DOMAIN prev_organisms
           /\ j > heredados => representante[j] \in DOMAIN organisms
           /\ current_niches[j].miembros \subseteq DOMAIN organisms
           /\ current_niches[j].exist <=> current_niches[j].miembros # {}
      /\ \A j, k \in DOMAIN current_niches : \A p \in current_niches[j].miembros :
           p \in current_niches[k].miembros => j = k
  BY <1>1 DEF Inv, Repartiendo
<1>4. /\ \A j \in DOMAIN current_niches : \A p \in current_niches[j].miembros :
           <<organisms[p].genoma, Modelo(j)>> \in Cercanos
      /\ \A j \in DOMAIN current_niches : j > heredados =>
           \A k \in 1 .. j - 1 : <<Modelo(j), Modelo(k)>> \notin Cercanos
  BY <1>1 DEF EspeciesDistintas
<1>5. /\ organisms' = organisms /\ prev_organisms' = prev_organisms /\ paso' = "reparte"
      /\ heredados' = heredados
      /\ fitness_champion' = fitness_champion /\ mejor' = mejor
      /\ random_organism' = random_organism /\ random_mother' = random_mother
      /\ current_generation' = current_generation /\ redondeadas' = redondeadas /\ azar' = azar
  BY <1>1 DEF Ubica, campeon, padres, historia
<1>6. \A j \in DOMAIN current_niches : i \notin current_niches[j].miembros
  BY <1>1 DEF Repartidos
<1>7. DOMAIN organisms \in SUBSET Posiciones /\ organisms[i] \in Organismo
  BY <1>1, Vector DEF Tipos
<1>8. Campeon' /\ Abortos'
  BY <1>1, <1>5 DEF Inv, Campeon, Abortos, Vaciadas, SinPadre, AbortoExplicado
<1>9. ASSUME Tipos', Repartiendo', EspeciesDistintas' PROVE Inv'
  BY <1>5, <1>8, <1>9 DEF Inv, AntesDeRepartir, Repartida, EspeciesParticionan, Hueco
<1>10. ASSUME NEW j \in Afines(i), UNCHANGED representante,
              current_niches' = [current_niches EXCEPT ![j].miembros = @ \cup {i}, ![j].exist = TRUE]
       PROVE  Inv'
  <2>1. j \in DOMAIN current_niches /\ <<organisms[i].genoma, Modelo(j)>> \in Cercanos
    BY DEF Afines
  <2>2. /\ DOMAIN current_niches' = DOMAIN current_niches
        /\ \A k \in DOMAIN current_niches : k # j => current_niches'[k] = current_niches[k]
        /\ current_niches'[j] = [miembros |-> current_niches[j].miembros \cup {i}, exist |-> TRUE]
    <3>1. current_niches[j] \in Nicho
      BY <1>2, <2>1
    <3> QED BY <3>1, <2>1, <1>10 DEF Nicho
  <2>3. current_niches'[j] \in Nicho
    <3>1. current_niches[j].miembros \subseteq Posiciones /\ i \in Posiciones
      BY <1>3, <1>7, <2>1
    <3> QED BY <3>1, <2>2 DEF Nicho
  <2>4. current_niches' \in Seq(Nicho) /\ Len(current_niches') = Len(current_niches)
    <3>1. \A k \in DOMAIN current_niches : current_niches'[k] \in Nicho
      BY <1>2, <2>2, <2>3
    <3>2. current_niches' \in [1 .. Len(current_niches) -> Nicho]
      BY <1>2, <1>10, <3>1
    <3> QED BY <3>2, <1>2
  <2>5. Tipos'
    BY <1>1, <1>5, <1>10, <2>4 DEF Tipos
  <2>6. /\ current_niches'[j].miembros = current_niches[j].miembros \cup {i}
        /\ current_niches'[j].exist
    BY <2>2
  <2>7. Repartiendo'
    <3>1. \A k \in DOMAIN current_niches :
             /\ current_niches'[k].miembros \subseteq DOMAIN organisms
             /\ current_niches'[k].exist <=> current_niches'[k].miembros # {}
      BY <1>3, <2>2, <2>6
    <3>2. \A l, k \in DOMAIN current_niches : \A p \in current_niches'[l].miembros :
             p \in current_niches'[k].miembros => l = k
      BY <1>3, <1>6, <2>2, <2>6
    <3> QED BY <3>1, <3>2, <1>1, <1>2, <1>3, <1>5, <1>10, <2>2, <2>4 DEF Repartiendo, Completa
  <2>8. EspeciesDistintas'
    <3>1. \A k : Modelo(k)' = Modelo(k)
      BY <1>5, <1>10 DEF Modelo
    <3>2. ASSUME NEW k \in DOMAIN current_niches, NEW p \in current_niches'[k].miembros
          PROVE  <<organisms[p].genoma, Modelo(k)>> \in Cercanos
      BY <1>4, <2>1, <2>2, <2>6, <3>2
    <3> QED BY <3>1, <3>2, <1>4, <1>5, <2>2 DEF EspeciesDistintas
  <2> QED BY <2>5, <2>7, <2>8, <1>9
<1>11. ASSUME Afines(i) = {}, representante' = Append(representante, i),
              current_niches' = Append(current_niches, [miembros |-> {i}, exist |-> TRUE])
       PROVE  Inv'
  <2>0. PICK n \in Nat : n = Len(current_niches)
    BY <1>2
  <2> DEFINE nicho == [miembros |-> {i}, exist |-> TRUE]
  <2>1. nicho \in Nicho /\ nicho.miembros = {i} /\ nicho.exist
    BY <1>7 DEF Nicho
  <2> HIDE DEF nicho
  <2>2. current_niches' = Append(current_niches, nicho)
    BY <1>11 DEF nicho
  <2>3. /\ current_niches' \in Seq(Nicho) /\ Len(current_niches') = n + 1
        /\ DOMAIN current_niches' = 1 .. n + 1
        /\ \A k \in DOMAIN current_niches : current_niches'[k] = current_niches[k]
        /\ current_niches'[n + 1] = nicho
    BY <1>2, <2>0, <2>1, <2>2
  <2>4. /\ representante' \in Seq(Posiciones) /\ Len(representante') = n + 1
        /\ \A k \in DOMAIN current_niches : representante'[k] = representante[k]
        /\ representante'[n + 1] = i
    BY <1>2, <1>7, <1>11, <2>0
  <2>5. Tipos'
    BY <1>1, <1>5, <2>3, <2>4 DEF Tipos
  <2>6. n \in Nat /\ DOMAIN current_niches = 1 .. n /\ heredados \in Nat /\ heredados <= n
        /\ n + 1 > heredados /\ ~(n + 1 <= heredados) /\ n + 1 \in 1 .. n + 1
    BY <1>2, <2>0
  <2>7. \A k \in 1 .. n + 1 : k \in DOMAIN current_niches \/ k = n + 1
    BY <2>6
  <2>8. Repartiendo'
    <3>1. \A k \in 1 .. n + 1 :
             /\ k <= heredados => representante'[k] \in DOMAIN prev_organisms
             /\ k > heredados => representante'[k] \in DOMAIN organisms
             /\ current_niches'[k].miembros \subseteq DOMAIN organisms
             /\ current_niches'[k].exist <=> current_niches'[k].miembros # {}
      <4> SUFFICES ASSUME NEW k \in 1 .. n + 1
                   PROVE  /\ k <= heredados => representante'[k] \in DOMAIN prev_organisms
                          /\ k > heredados => representante'[k] \in DOMAIN organisms
                          /\ current_niches'[k].miembros \subseteq DOMAIN organisms
                          /\ current_niches'[k].exist <=> current_niches'[k].miembros # {}
        OBVIOUS
      <4>1. CASE k \in DOMAIN current_niches
        BY <4>1, <1>3, <2>3, <2>4
      <4>2. CASE k = n + 1
        BY <4>2, <2>1, <2>3, <2>4, <2>6
      <4> QED BY <4>1, <4>2, <2>7
    <3>2. \A l, k \in 1 .. n + 1 : \A p \in current_niches'[l].miembros :
             p \in current_niches'[k].miembros => l = k
      <4> SUFFICES ASSUME NEW l \in 1 .. n + 1, NEW k \in 1 .. n + 1,
                          NEW p \in current_niches'[l].miembros, p \in current_niches'[k].miembros
                   PROVE  l = k
        OBVIOUS
      <4>1. CASE l \in DOMAIN current_niches /\ k \in DOMAIN current_niches
        BY <4>1, <1>3, <2>3
      <4>2. CASE l = n + 1 \/ k = n + 1
        BY <4>2, <1>6, <2>1, <2>3, <2>7
      <4> QED BY <4>1, <4>2, <2>7
    <3> QED BY <3>1, <3>2, <1>1, <1>5, <2>3, <2>4, <2>6 DEF Repartiendo, Completa
  <2>9. EspeciesDistintas'
    <3>1. \A k \in DOMAIN current_niches : Modelo(k)' = Modelo(k)
      BY <1>5, <2>4 DEF Modelo
    <3>2. Modelo(n + 1)' = organisms[i].genoma
      BY <1>5, <2>4, <2>6 DEF Modelo
    <3>3. ASSUME NEW k \in 1 .. n + 1, NEW p \in current_niches'[k].miembros
          PROVE  <<organisms[p].genoma, Modelo(k)'>> \in Cercanos
      <4>1. CASE k \in DOMAIN current_niches
        BY <4>1, <1>4, <2>3, <3>1, <3>3
      <4>2. CASE k = n + 1
        <5>1. p = i /\ organisms[i].genoma \in Genomas
          BY <4>2, <3>3, <2>1, <2>3, <1>7 DEF Organismo
        <5> QED BY <5>1, <4>2, <3>2, Supuestos
      <4> QED BY <4>1, <4>2, <2>7
    <3>4. ASSUME NEW k \in 1 .. n + 1, k > heredados, NEW l \in 1 .. k - 1
          PROVE  <<Modelo(k)', Modelo(l)'>> \notin Cercanos
      <4>1. l \in DOMAIN current_niches /\ Modelo(l)' = Modelo(l)
        BY <2>6, <3>1
      <4>2. CASE k \in DOMAIN current_niches
        BY <4>1, <4>2, <1>4, <3>1, <3>4
      <4>3. CASE k = n + 1
        BY <4>1, <4>3, <3>2, <1>11 DEF Afines
      <4> QED BY <4>2, <4>3, <2>7
    <3>5. \A k \in DOMAIN current_niches' : k > heredados' =>
             \A l \in 1 .. k - 1 : <<Modelo(k)', Modelo(l)'>> \notin Cercanos
      BY <3>4, <1>5, <2>3
    <3>6. \A k \in DOMAIN current_niches' : \A p \in current_niches'[k].miembros :
             <<organisms'[p].genoma, Modelo(k)'>> \in Cercanos
      BY <3>3, <1>5, <2>3
    <3> QED BY <3>5, <3>6 DEF EspeciesDistintas
  <2> QED BY <2>5, <2>8, <2>9, <1>9
<1> QED BY <1>10, <1>11 DEF Ubica

LEMMA CierraEspeciesBien == Inv /\ CierraEspecies => Inv'
<1> SUFFICES ASSUME Inv, CierraEspecies PROVE Inv'
  OBVIOUS
<1> DEFINE E == {i \in DOMAIN current_niches : current_niches[i].exist}
           Q == Filtra(current_niches, E)
<1>1. /\ Tipos /\ Completa /\ paso = "reparte" /\ DOMAIN organisms \subseteq Repartidos
      /\ \A j \in DOMAIN current_niches :
           /\ current_niches[j].miembros \subseteq DOMAIN organisms
           /\ current_niches[j].exist <=> current_niches[j].miembros # {}
      /\ \A j, k \in DOMAIN current_niches : \A p \in current_niches[j].miembros :
           p \in current_niches[k].miembros => j = k
  BY DEF Inv, CierraEspecies, Repartiendo
<1>2. /\ current_niches \in Seq(Nicho) /\ Len(current_niches) \in Nat
      /\ DOMAIN current_niches = 1 .. Len(current_niches)
  BY <1>1 DEF Tipos
<1>3. /\ Q \in Seq(Nicho) /\ Len(Q) \in Nat
      /\ Copiado(Q, current_niches, E, Menor(E))
  <2>1. E \in SUBSET (1 .. Len(current_niches)) /\ \A i \in E : current_niches[i] \in Nicho
    BY <1>2
  <2> HIDE DEF E
  <2> QED BY <2>1, <1>2, FiltraBien
<1>4. /\ current_niches' = Q /\ paso' = "evalua" /\ representante' = <<>> /\ heredados' = 0
      /\ organisms' = [p \in DOMAIN organisms |->
           [organisms[p] EXCEPT !.niche = CHOOSE i \in DOMAIN Q : p \in Q[i].miembros]]
      /\ prev_organisms' = prev_organisms
      /\ fitness_champion' = fitness_champion /\ mejor' = mejor
      /\ random_organism' = random_organism /\ random_mother' = random_mother
      /\ current_generation' = current_generation /\ redondeadas' = redondeadas /\ azar' = azar
  BY DEF CierraEspecies, Marca, campeon, padres, historia
<1>5. /\ \A i \in E : \E k \in DOMAIN Q : Q[k] = current_niches[i]
      /\ \A k \in DOMAIN Q : \E i \in E : Q[k] = current_niches[i] /\ Lugar(i, E, Menor(E)) = k
  BY <1>3 DEF Copiado
<1> HIDE DEF Q
<1>6. \A k \in DOMAIN Q : Q[k].miembros # {} /\ Q[k].miembros \subseteq DOMAIN organisms
  <2>1. \A i \in E : /\ current_niches[i].miembros # {}
                     /\ current_niches[i].miembros \subseteq DOMAIN organisms
    BY <1>1
  <2> HIDE DEF E
  <2> QED BY <2>1, <1>5
<1>7. ASSUME NEW p \in DOMAIN organisms PROVE \E k \in DOMAIN Q : p \in Q[k].miembros
  <2>1. PICK i \in DOMAIN current_niches : p \in current_niches[i].miembros
    BY <1>1 DEF Repartidos
  <2>2. i \in E
    BY <2>1, <1>1
  <2> QED BY <2>1, <2>2, <1>5
<1>8. ASSUME NEW k \in DOMAIN Q, NEW l \in DOMAIN Q, NEW p \in Q[k].miembros, p \in Q[l].miembros
      PROVE  k = l
  <2>1. PICK i \in E : Q[k] = current_niches[i] /\ Lugar(i, E, Menor(E)) = k
    BY <1>5
  <2>2. PICK j \in E : Q[l] = current_niches[j] /\ Lugar(j, E, Menor(E)) = l
    BY <1>5
  <2>3. i = j
    BY <1>1, <1>8, <2>1, <2>2
  <2> QED BY <2>1, <2>2, <2>3
<1> HIDE DEF E
<1>9. /\ organisms \in Seq(Organismo) /\ Len(organisms) = POPULATION_MAX
      /\ DOMAIN organisms = 1 .. POPULATION_MAX /\ \A p \in DOMAIN organisms : organisms[p] \in Organismo
  BY <1>1, Vector, Supuestos DEF Tipos, Completa
\* no more species than organisms
<1>10. Len(Q) <= POPULATION_MAX /\ DOMAIN Q = 1 .. Len(Q)
  <2> DEFINE f == [k \in DOMAIN Q |-> CHOOSE p \in DOMAIN organisms : p \in Q[k].miembros]
             n == Len(Q)
  <2>1. DOMAIN Q = 1 .. n /\ n \in Nat
    BY <1>3
  <2>2. \A k \in DOMAIN Q : f[k] \in DOMAIN organisms /\ f[k] \in Q[k].miembros
    BY <1>6
  <2>3. f \in [1 .. n -> 1 .. POPULATION_MAX]
    BY <2>1, <2>2, <1>9
  <2>4. \A k, l \in DOMAIN Q : f[k] = f[l] => k = l
    BY <2>2, <1>8
  <2> HIDE DEF f, n
  <2>5. f \in Injection(1 .. n, 1 .. POPULATION_MAX)
    BY <2>1, <2>3, <2>4 DEF Injection, IsInjective
  <2>6. /\ Cardinality(1 .. n) = n
        /\ IsFiniteSet(1 .. POPULATION_MAX) /\ Cardinality(1 .. POPULATION_MAX) = POPULATION_MAX
    BY <2>1, Supuestos, FS_Interval
  <2>7. n <= POPULATION_MAX
    BY <2>5, <2>6, FS_Injection
  <2> QED BY <2>1, <2>7 DEF n
<1>11. ASSUME NEW p \in DOMAIN organisms
       PROVE  /\ organisms'[p] \in Organismo
              /\ organisms'[p].niche \in DOMAIN Q
              /\ \A i \in DOMAIN Q : p \in Q[i].miembros <=> i = organisms'[p].niche
  <2> DEFINE k == CHOOSE i \in DOMAIN Q : p \in Q[i].miembros
  <2>1. k \in DOMAIN Q /\ p \in Q[k].miembros
    BY <1>7
  <2>2. organisms'[p] = [organisms[p] EXCEPT !.niche = k]
    BY <1>4
  <2> HIDE DEF k
  <2>3. k \in 0 .. POPULATION_MAX
    BY <2>1, <1>3, <1>10, Supuestos
  <2>4. organisms'[p] \in Organismo /\ organisms'[p].niche = k
    BY <2>2, <2>3, <1>9 DEF Organismo
  <2> QED BY <2>1, <2>4, <1>8
<1>12. /\ organisms' \in Seq(Organismo) /\ Len(organisms') = POPULATION_MAX
       /\ DOMAIN organisms' = DOMAIN organisms
  <2>1. organisms' \in [1 .. POPULATION_MAX -> Organismo]
    BY <1>4, <1>9, <1>11
  <2> QED BY <2>1, <1>9, Supuestos
<1>13. Tipos'
  BY <1>1, <1>3, <1>4, <1>12 DEF Tipos
<1>14. Particion(Q, organisms')
  BY <1>6, <1>11, <1>12 DEF Particion
<1>15. Repartida' /\ EspeciesParticionan'
  BY <1>4, <1>6, <1>12, <1>14 DEF Repartida, Completa, Vivas, EspeciesParticionan
<1>16. Campeon' /\ Abortos'
  BY <1>1, <1>4 DEF Inv, Campeon, Abortos, Vaciadas, SinPadre, AbortoExplicado
<1> QED
  BY <1>4, <1>13, <1>15, <1>16 DEF Inv, AntesDeRepartir, Repartiendo, EspeciesDistintas, Hueco

-----------------------------------------------------------------------------
(* epoch                                                                   *)

LEMMA EvaluaBien == Inv /\ Evalua => Inv'
<1> SUFFICES ASSUME Inv, Evalua PROVE Inv'
  OBVIOUS
<1>1. /\ Tipos /\ Completa /\ Vivas /\ paso = "evalua" /\ Particion(current_niches, organisms)
      /\ current_generation < MAX_GENERACION
  BY DEF Inv, Evalua, Repartida, EspeciesParticionan
<1>2. PICK f \in [DOMAIN organisms -> Aptitudes] :
        /\ organisms' = [p \in DOMAIN organisms |-> [organisms[p] EXCEPT !.fitness = f[p]]]
        /\ mejor' = Maximo({mejor} \cup {f[p] : p \in DOMAIN organisms})
  BY DEF Evalua
<1>3. /\ paso' = "epoch" /\ prev_organisms' = prev_organisms /\ current_niches' = current_niches
      /\ representante' = representante /\ heredados' = heredados
      /\ fitness_champion' = fitness_champion
      /\ random_organism' = random_organism /\ random_mother' = random_mother
      /\ current_generation' = current_generation /\ redondeadas' = redondeadas /\ azar' = azar
  BY DEF Evalua, especies, padres, historia
<1>4. /\ organisms \in Seq(Organismo) /\ Len(organisms) = POPULATION_MAX
      /\ DOMAIN organisms = 1 .. POPULATION_MAX /\ \A p \in DOMAIN organisms : organisms[p] \in Organismo
  BY <1>1, Vector, Supuestos DEF Tipos, Completa
<1>5. \A a \in Aptitudes : a \in 0 .. MAX_APTITUD
  BY Supuestos DEF Aptitudes
<1>6. ASSUME NEW p \in DOMAIN organisms
      PROVE  /\ organisms'[p] \in Organismo /\ organisms'[p].fitness = f[p]
             /\ organisms'[p].niche = organisms[p].niche /\ f[p] \in Aptitudes
  BY <1>2, <1>4, <1>5 DEF Organismo
<1>7. /\ organisms' \in Seq(Organismo) /\ Len(organisms') = POPULATION_MAX
      /\ DOMAIN organisms' = DOMAIN organisms
  <2>1. organisms' \in [1 .. POPULATION_MAX -> Organismo]
    BY <1>2, <1>4, <1>6
  <2> QED BY <2>1, <1>4, Supuestos
<1> DEFINE S == {mejor} \cup {f[p] : p \in DOMAIN organisms}
<1>8. S \in SUBSET (0 .. MAX_APTITUD) /\ S # {}
  BY <1>1, <1>5 DEF Tipos
<1>9. mejor' \in 0 .. MAX_APTITUD
  <2>1. mejor' = Maximo(S)
    BY <1>2
  <2> HIDE DEF S
  <2> QED BY <2>1, <1>8, MaximoBien, Supuestos
<1>10. Tipos'
  BY <1>1, <1>3, <1>7, <1>9 DEF Tipos
<1>11. Repartida'
  BY <1>1, <1>3, <1>6, <1>7 DEF Repartida, Completa, Vivas
<1>12. EspeciesParticionan'
  BY <1>1, <1>3, <1>6, <1>7 DEF EspeciesParticionan, Particion
<1>13. Campeon'
  <2>1. S = {mejor} \cup {organisms'[p].fitness : p \in DOMAIN organisms'}
    BY <1>6, <1>7
  <2>2. redondeadas = {} => fitness_champion = mejor
    BY <1>1 DEF Inv, Campeon
  <2> QED BY <2>1, <2>2, <1>2, <1>3 DEF Campeon
<1>14. Abortos'
  BY <1>1, <1>3 DEF Inv, Abortos, Vaciadas, SinPadre, AbortoExplicado
<1> QED
  BY <1>3, <1>10, <1>11, <1>12, <1>13, <1>14
     DEF Inv, AntesDeRepartir, Repartiendo, EspeciesDistintas, Hueco

LEMMA SeleccionaBien == Inv /\ Selecciona => Inv'
<1> SUFFICES ASSUME Inv, Selecciona PROVE Inv'
  OBVIOUS
<1>1. /\ Tipos /\ Completa /\ Vivas /\ paso = "epoch" /\ Particion(current_niches, organisms)
      /\ \A p \in DOMAIN organisms : organisms[p].fitness \in Aptitudes
      /\ current_generation < MAX_GENERACION
  BY DEF Inv, Selecciona, Repartida, EspeciesParticionan
<1>2. PICK media \in [DOMAIN current_niches -> 0 .. MAX_APTITUD + 1],
           basura \in [DOMAIN current_niches -> BOOLEAN] :
         LET quedan == {p \in DOMAIN organisms : Alcanza(p, media[organisms[p].niche])}
         IN  /\ \A i \in DOMAIN current_niches : media[i] \in Medias(current_niches[i].miembros)
             /\ prev_organisms' = Copia(organisms, quedan, OrdenDeCopia(quedan))
             /\ current_niches' =
                  [i \in DOMAIN current_niches |->
                     [miembros |-> Renumera(current_niches[i].miembros, quedan), exist |-> basura[i]]]
             /\ Corona(quedan)
             /\ redondeadas' = redondeadas \cup {<<current_generation + 1, i>> : i \in SobreTodos(media)}
  BY DEF Selecciona
<1> DEFINE Q == {p \in DOMAIN organisms : Alcanza(p, media[organisms[p].niche])}
           orden == OrdenDeCopia(Q)
           c == Copia(organisms, Q, orden)
           lugar(p) == Lugar(p, Q, orden)
<1>3. /\ \A i \in DOMAIN current_niches : media[i] \in Medias(current_niches[i].miembros)
      /\ prev_organisms' = c
      /\ current_niches' =
           [i \in DOMAIN current_niches |->
              [miembros |-> Renumera(current_niches[i].miembros, Q), exist |-> basura[i]]]
      /\ Corona(Q)
      /\ redondeadas' = redondeadas \cup {<<current_generation + 1, i>> : i \in SobreTodos(media)}
  BY <1>2
<1>4. /\ organisms' = <<>> /\ current_generation' = current_generation + 1 /\ paso' = "nacen"
      /\ representante' = representante /\ heredados' = heredados /\ mejor' = mejor
      /\ random_organism' = random_organism /\ random_mother' = random_mother /\ azar' = azar
  BY DEF Selecciona, especies, padres
<1>5. /\ organisms \in Seq(Organismo) /\ Len(organisms) = POPULATION_MAX
      /\ DOMAIN organisms = 1 .. POPULATION_MAX
      /\ \A p \in DOMAIN organisms : organisms[p] \in Organismo /\ p \in Int
      /\ IsFiniteSet(DOMAIN organisms) /\ Cardinality(DOMAIN organisms) = POPULATION_MAX
  BY <1>1, Vector, Supuestos DEF Tipos, Completa
<1>6. \A p \in DOMAIN organisms :
        /\ organisms[p].fitness \in 0 .. MAX_APTITUD /\ organisms[p].niche \in Int
        /\ organisms[p].niche \in DOMAIN current_niches
        /\ \A i \in DOMAIN current_niches :
             p \in current_niches[i].miembros <=> i = organisms[p].niche
  BY <1>1, <1>5 DEF Organismo, Particion
<1>7. Q \in SUBSET (DOMAIN organisms) /\ \A p \in Q : organisms[p] \in Organismo
  BY <1>5
\* an organism as good as its mean stays
<1>8. ASSUME NEW p \in DOMAIN organisms, NEW i \in DOMAIN current_niches,
             p \in current_niches[i].miembros, organisms[p].fitness >= media[i]
      PROVE  p \in Q
  BY <1>6, <1>8 DEF Alcanza
<1>9. prev_organisms' = c
  BY <1>3
<1> HIDE DEF Q
<1>10. /\ c \in Seq(Organismo) /\ Len(c) = Cardinality(Q) /\ Cardinality(Q) \in Nat
       /\ Copiado(c, organisms, Q, orden)
  <2>1. IsFiniteSet(Q)
    BY <1>5, <1>7, FS_Subset
  <2>2. OrdenTotal(orden, Q)
    <3>1. Q \subseteq Int /\ \A p \in Q : organisms[p].niche \in Int
      BY <1>5, <1>6, <1>7
    <3> QED BY <3>1, OrdenDeCopiaTotal
  <2> HIDE DEF orden
  <2> QED BY <2>1, <2>2, <1>7, CopiaBien
<1>11. Len(c) \in Nat /\ Len(c) <= POPULATION_MAX
  BY <1>5, <1>7, <1>10, FS_Subset
<1>12. /\ \A p \in Q : lugar(p) \in DOMAIN c /\ c[lugar(p)] = organisms[p]
       /\ \A p, q \in Q : lugar(p) = lugar(q) => p = q
       /\ \A k \in DOMAIN c : \E p \in Q : lugar(p) = k
  BY <1>10 DEF Copiado
<1> HIDE DEF c
<1>13. \A i \in DOMAIN current_niches :
         /\ \A k : k \in current_niches'[i].miembros
                    <=> \E p \in Q : p \in current_niches[i].miembros /\ lugar(p) = k
         /\ current_niches'[i].miembros \subseteq Posiciones => current_niches'[i] \in Nicho
  BY <1>3 DEF Renumera, Nicho
<1>14. DOMAIN current_niches' = DOMAIN current_niches
  BY <1>3
<1> HIDE DEF lugar
<1>15. DOMAIN c \in SUBSET Posiciones /\ DOMAIN c = 1 .. Len(c)
  BY <1>10, <1>11, Vector
<1>16. current_niches' \in Seq(Nicho)
  <2>1. /\ Len(current_niches) \in Nat /\ DOMAIN current_niches = 1 .. Len(current_niches)
    BY <1>1 DEF Tipos
  <2>2. \A i \in DOMAIN current_niches : current_niches'[i].miembros \in SUBSET Posiciones
    BY <1>12, <1>13, <1>15
  <2>3. \A i \in DOMAIN current_niches : current_niches'[i] \in Nicho
    BY <2>2, <1>13
  <2>4. current_niches' \in [1 .. Len(current_niches) -> Nicho]
    BY <2>1, <2>3, <1>3
  <2> QED BY <2>1, <2>4
<1>17. Particion(current_niches', c)
  <2>1. \A i \in DOMAIN current_niches : current_niches'[i].miembros \subseteq DOMAIN c
    BY <1>12, <1>13
  <2>2. ASSUME NEW k \in DOMAIN c
        PROVE  /\ c[k].niche \in DOMAIN current_niches
               /\ \A i \in DOMAIN current_niches :
                    k \in current_niches'[i].miembros <=> i = c[k].niche
    <3>1. PICK p \in Q : lugar(p) = k
      BY <1>12
    <3>2. c[k] = organisms[p] /\ p \in DOMAIN organisms
      BY <3>1, <1>7, <1>12
    <3>3. ASSUME NEW i \in DOMAIN current_niches
          PROVE  k \in current_niches'[i].miembros <=> p \in current_niches[i].miembros
      BY <3>1, <1>12, <1>13
    <3> QED BY <3>2, <3>3, <1>6
  <2> QED BY <2>1, <2>2, <1>14 DEF Particion
<1> DEFINE S == {fitness_champion} \cup {organisms[p].fitness : p \in Q}
<1>18. S \in SUBSET (0 .. MAX_APTITUD) /\ S # {}
  BY <1>1, <1>6, <1>7 DEF Tipos
<1>19. fitness_champion' = Maximo(S)
  BY <1>3 DEF Corona
<1>20. fitness_champion' \in 0 .. MAX_APTITUD
  <2> HIDE DEF S
  <2> QED BY <1>18, <1>19, MaximoBien, Supuestos
<1>21. Tipos'
  <2>1. current_generation' \in 0 .. MAX_GENERACION
    BY <1>1, <1>4, Supuestos DEF Tipos
  <2>2. prev_organisms' \in Seq(Organismo) /\ Len(prev_organisms') <= POPULATION_MAX
    BY <1>9, <1>10, <1>11
  <2>3. organisms' \in Seq(Organismo) /\ Len(organisms') <= POPULATION_MAX
    BY <1>4, Supuestos
  <2>4. redondeadas' \in SUBSET (Nat \X Nat)
    <3>1. SobreTodos(media) \subseteq Nat /\ current_generation + 1 \in Nat
      BY <1>1 DEF SobreTodos, Tipos
    <3>2. redondeadas \in SUBSET (Nat \X Nat)
      BY <1>1 DEF Tipos
    <3> QED BY <3>1, <3>2, <1>3
  <2> QED BY <2>1, <2>2, <2>3, <2>4, <1>1, <1>4, <1>16, <1>20 DEF Tipos
<1>22. EspeciesParticionan'
  BY <1>4, <1>9, <1>17 DEF EspeciesParticionan
\* a species whose mean did not round keeps whoever is as good as its best
<1>23. ASSUME NEW i \in DOMAIN current_niches, <<current_generation + 1, i>> \notin redondeadas'
       PROVE  \E q \in Q : q \in current_niches[i].miembros /\ organisms[q].fitness >= media[i]
  <2>1. i \notin SobreTodos(media)
    BY <1>3, <1>23
  <2>2. PICK q \in current_niches[i].miembros : ~(media[i] > organisms[q].fitness)
    BY <2>1 DEF SobreTodos
  <2>3. q \in DOMAIN organisms
    BY <1>1 DEF Particion
  <2>4. organisms[q].fitness >= media[i]
    <3>1. media[i] \in Int /\ organisms[q].fitness \in Int
      BY <2>3, <1>2, <1>6
    <3> QED BY <3>1, <2>2
  <2> QED BY <2>2, <2>3, <2>4, <1>8
<1>24. Campeon'
  <2> SUFFICES ASSUME redondeadas' = {} PROVE fitness_champion' = mejor
    BY <1>4 DEF Campeon
  <2> DEFINE U == {fitness_champion} \cup {organisms[p].fitness : p \in DOMAIN organisms}
  <2>1. mejor = Maximo(U)
    <3>1. redondeadas = {}
      BY <1>3
    <3> QED BY <3>1, <1>1 DEF Inv, Campeon
  <2>2. U \in SUBSET (0 .. MAX_APTITUD) /\ U # {} /\ S \subseteq U
    BY <1>1, <1>6, <1>7 DEF Tipos
  <2>3. mejor \in U /\ \A y \in U : y <= mejor
    <3> HIDE DEF U
    <3> QED BY <2>1, <2>2, MaximoBien, Supuestos
  <2>4. mejor \in S
    <3>1. CASE mejor = fitness_champion
      BY <3>1
    <3>2. ASSUME NEW p \in DOMAIN organisms, mejor = organisms[p].fitness PROVE mejor \in S
      <4>1. PICK i \in DOMAIN current_niches : p \in current_niches[i].miembros
        BY <1>6
      <4>2. PICK q \in Q : q \in current_niches[i].miembros /\ organisms[q].fitness >= media[i]
        BY <1>23
      <4>3. organisms[q].fitness \in U /\ q \in DOMAIN organisms
        BY <4>2, <1>7
      <4>4. organisms[q].fitness <= organisms[p].fitness
        BY <4>3, <2>3, <3>2
      <4>5. organisms[p].fitness >= media[i]
        <5>1. media[i] \in Int /\ organisms[q].fitness \in Int /\ organisms[p].fitness \in Int
          BY <4>3, <1>2, <1>6
        <5> QED BY <5>1, <4>2, <4>4
      <4>6. p \in Q
        BY <4>1, <4>5, <1>8
      <4> QED BY <4>6, <3>2
    <3> QED BY <3>1, <3>2, <2>3
  <2>5. \A y \in S : y <= mejor
    BY <2>2, <2>3
  <2> HIDE DEF S, U
  <2> QED BY <2>4, <2>5, <1>18, <1>19, MaximoBien, Supuestos
<1>25. Abortos'
  <2>1. current_niches' # <<>>
    <3>1. 1 \in DOMAIN organisms
      BY <1>5, Supuestos
    <3>2. DOMAIN current_niches # {}
      BY <3>1, <1>6
    <3> QED BY <3>2, <1>14
  <2>2. ASSUME NEW i \in DOMAIN current_niches, current_niches'[i].miembros = {}
        PROVE  <<current_generation', i>> \in redondeadas'
    <3>1. ~ \E q \in Q : q \in current_niches[i].miembros
      BY <2>2, <1>13
    <3> QED BY <3>1, <1>4, <1>23
  <2>3. Vaciadas'
    BY <2>1, <2>2, <1>14 DEF Vaciadas
  <2> QED BY <2>3, <1>1, <1>4 DEF Inv, Abortos, SinPadre, AbortoExplicado
<1> QED
  BY <1>4, <1>21, <1>22, <1>24, <1>25
     DEF Inv, AntesDeRepartir, Repartiendo, EspeciesDistintas, Repartida, Hueco

-----------------------------------------------------------------------------
(* epoch_reproduce                                                         *)

\* A draw returns one of those drawn from, or nobody: if none of them weighs, or
\* if rand() gave RAND_MAX and two of them do.
SinNadie(P, peso, a) ==
    \/ \A p \in P : ~(peso[p] > 0)
    \/ a = "tope" /\ \E p, q \in P : p # q /\ peso[p] > 0 /\ peso[q] > 0

LEMMA SorteoBien ==
    ASSUME NEW P \in SUBSET Nat, IsFiniteSet(P), NADIE \notin P, NEW peso, NEW a,
           NEW x \in Sorteo(P, peso, a)
    PROVE  IF x = NADIE THEN SinNadie(P, peso, a) ELSE x \in P
<1> DEFINE pesan == {p \in P : peso[p] > 0}
           m == CHOOSE p \in P : \A q \in P : p <= q
<1>1. CASE pesan = {}
  <2>1. x = NADIE
    BY <1>1 DEF Sorteo
  <2> QED BY <1>1, <2>1 DEF SinNadie
<1>2. CASE pesan # {} /\ a = "cero"
  <2>1. \E p \in P : \A q \in P : p <= q
    BY <1>2, Primero
  <2>2. x = m /\ m \in P
    BY <1>2, <2>1 DEF Sorteo
  <2> QED BY <2>2
<1>3. CASE pesan # {} /\ a # "cero" /\ x \in pesan
  BY <1>3
<1>4. CASE x = NADIE /\ a = "tope" /\ Cardinality(pesan) > 1
  <2>1. PICK p : p \in pesan
    <3>1. pesan # {}
      BY <1>4, FS_EmptySet
    <3> QED BY <3>1
  <2>2. \E q \in pesan : q # p
    <3> SUFFICES ASSUME pesan = {p} PROVE FALSE
      BY <2>1
    <3>1. Cardinality({p}) = 1
      BY FS_Singleton
    <3> QED BY <3>1, <1>4
  <2> QED BY <2>1, <2>2, <1>4 DEF SinNadie
<1> QED BY <1>1, <1>2, <1>3, <1>4 DEF Sorteo

\* What the draws read: the survivors, and the organisms of each species.
LEMMA Sobrevivientes ==
    ASSUME Inv, paso \in {"nacen", "reproduce", "cruza"}
    PROVE  /\ Tipos /\ Particion(current_niches, prev_organisms)
           /\ DOMAIN prev_organisms \in SUBSET Nat /\ DOMAIN prev_organisms \in SUBSET (0 .. POPULATION_MAX)
           /\ IsFiniteSet(DOMAIN prev_organisms) /\ NADIE \notin DOMAIN prev_organisms
           /\ \A p \in DOMAIN prev_organisms : prev_organisms[p].fitness \in Nat
           /\ \A i \in DOMAIN current_niches :
                current_niches[i].miembros \in SUBSET (DOMAIN prev_organisms)
           /\ paso # "nacen" => random_organism \in DOMAIN prev_organisms
<1>1. Tipos /\ EspeciesParticionan
  BY DEF Inv
<1>2. /\ DOMAIN prev_organisms = 1 .. Len(prev_organisms) /\ IsFiniteSet(DOMAIN prev_organisms)
      /\ Len(prev_organisms) \in Nat /\ Len(prev_organisms) <= POPULATION_MAX
  BY <1>1, Vector DEF Tipos
<1>3. Particion(current_niches, prev_organisms)
  BY <1>1 DEF EspeciesParticionan
<1>4. \A p \in DOMAIN prev_organisms : prev_organisms[p].fitness \in Nat
  <2>1. \A p \in DOMAIN prev_organisms : prev_organisms[p] \in Organismo
    BY <1>1, <1>2 DEF Tipos
  <2> QED BY <2>1, Supuestos DEF Organismo
<1> QED BY <1>1, <1>2, <1>3, <1>4, Supuestos DEF EspeciesParticionan, Particion, NADIE

\* What explains an end of the process at the draw of value a.
Causas(a) ==
    \/ \E i \in DOMAIN current_niches :
         current_niches[i].miembros = {} /\ <<current_generation, i>> \in redondeadas
    \/ Candidatas # {} /\ \A p \in Candidatas : prev_organisms[p].fitness = 0
    \/ a = "tope" /\ \E p, q \in Candidatas : p # q /\ prev_organisms[p].fitness > 0
                                              /\ prev_organisms[q].fitness > 0

\* A species left empty because its mean rounded explains it, whatever is drawn.
LEMMA VaciaExplica ==
    ASSUME Inv, paso \in {"nacen", "reproduce", "cruza"},
           NEW i \in DOMAIN current_niches, current_niches[i].miembros = {}, NEW a
    PROVE  Causas(a)
<1>1. <<current_generation, i>> \in redondeadas
  BY DEF Inv, Abortos, Vaciadas
<1> QED BY <1>1 DEF Causas

\* A step of epoch_reproduce that ends the process, of which everything else is
\* as it was.
LEMMA AbortoBien ==
    ASSUME Inv, paso \in {"nacen", "reproduce"}, paso' = "aborta",
           azar' \in {"cero", "medio", "tope"}, Causas(azar'),
           UNCHANGED <<organisms, prev_organisms, current_niches, especies, campeon, padres,
                       current_generation, redondeadas>>
    PROVE  Inv'
<1>1. Tipos
  BY DEF Inv
<1>2. /\ organisms' = organisms /\ prev_organisms' = prev_organisms
      /\ current_niches' = current_niches /\ representante' = representante
      /\ heredados' = heredados /\ fitness_champion' = fitness_champion /\ mejor' = mejor
      /\ random_organism' = random_organism /\ random_mother' = random_mother
      /\ current_generation' = current_generation /\ redondeadas' = redondeadas
  BY DEF especies, campeon, padres
<1>3. Tipos'
  BY <1>1, <1>2 DEF Tipos
<1>4. Campeon'
  BY <1>2 DEF Inv, Campeon
<1>5. Abortos'
  <2>1. Candidatas' = Candidatas
    BY <1>2 DEF Candidatas
  <2>2. AbortoExplicado'
    BY <2>1, <1>2 DEF AbortoExplicado, Causas
  <2> QED BY <2>2 DEF Abortos, Vaciadas, SinPadre
<1> QED
  BY <1>3, <1>4, <1>5
     DEF Inv, AntesDeRepartir, Repartiendo, EspeciesDistintas, Repartida, EspeciesParticionan, Hueco

LEMMA PadreBien == Inv /\ Padre => Inv'
<1> SUFFICES ASSUME Inv, Padre PROVE Inv'
  OBVIOUS
<1> DEFINE peso == [p \in DOMAIN prev_organisms |-> prev_organisms[p].fitness]
<1>1. /\ paso = "nacen" /\ Tipos /\ Particion(current_niches, prev_organisms)
      /\ DOMAIN prev_organisms \in SUBSET Nat /\ DOMAIN prev_organisms \in SUBSET (0 .. POPULATION_MAX)
      /\ IsFiniteSet(DOMAIN prev_organisms) /\ NADIE \notin DOMAIN prev_organisms
      /\ \A p \in DOMAIN prev_organisms : prev_organisms[p].fitness \in Nat
      /\ \A i \in DOMAIN current_niches :
           current_niches[i].miembros \in SUBSET (DOMAIN prev_organisms)
  BY Sobrevivientes DEF Padre
<1>2. Len(organisms) < POPULATION_MAX /\ Sortea(random_organism, DOMAIN prev_organisms, peso, "reproduce")
  BY DEF Padre
<1>3. /\ organisms' = organisms /\ prev_organisms' = prev_organisms
      /\ current_niches' = current_niches /\ representante' = representante
      /\ heredados' = heredados /\ fitness_champion' = fitness_champion /\ mejor' = mejor
      /\ random_mother' = random_mother /\ current_generation' = current_generation
      /\ redondeadas' = redondeadas
  BY DEF Padre, especies, campeon
<1>4. PICK a \in Azares : \E x \in Sorteo(DOMAIN prev_organisms, peso, a) :
        IF x = NADIE THEN paso' = "aborta" /\ azar' = a /\ random_organism' = random_organism
        ELSE paso' = "reproduce" /\ random_organism' = x /\ azar' = azar
  <2> HIDE DEF peso
  <2> QED BY <1>2 DEF Sortea
<1>5. PICK x \in Sorteo(DOMAIN prev_organisms, peso, a) :
        IF x = NADIE THEN paso' = "aborta" /\ azar' = a /\ random_organism' = random_organism
        ELSE paso' = "reproduce" /\ random_organism' = x /\ azar' = azar
  BY <1>4
<1>6. IF x = NADIE THEN SinNadie(DOMAIN prev_organisms, peso, a) ELSE x \in DOMAIN prev_organisms
  <2> HIDE DEF peso
  <2> QED BY <1>1, SorteoBien
<1>7. CASE x = NADIE
  <2>1. SinNadie(DOMAIN prev_organisms, peso, a) /\ Candidatas = DOMAIN prev_organisms
    BY <1>1, <1>6, <1>7 DEF Inv, Abortos, SinPadre, Candidatas
  <2>2. Causas(a)
    <3>1. CASE DOMAIN prev_organisms = {}
      <4>1. current_niches # <<>> /\ current_niches \in Seq(Nicho)
        BY <1>1 DEF Inv, Abortos, Vaciadas, Tipos
      <4>2. 1 \in DOMAIN current_niches
        BY <4>1
      <4>3. current_niches[1].miembros = {}
        BY <3>1, <4>2, <1>1
      <4> QED BY <4>2, <4>3, <1>1, VaciaExplica
    <3>2. CASE DOMAIN prev_organisms # {} /\ \A p \in DOMAIN prev_organisms : ~(peso[p] > 0)
      BY <3>2, <2>1, <1>1 DEF Causas
    <3>3. CASE a = "tope" /\ \E p, q \in DOMAIN prev_organisms : p # q /\ peso[p] > 0 /\ peso[q] > 0
      BY <3>3, <2>1 DEF Causas
    <3> QED BY <3>1, <3>2, <3>3, <2>1 DEF SinNadie
  <2>3. /\ paso' = "aborta" /\ azar' = a /\ random_organism' = random_organism
        /\ azar' \in {"cero", "medio", "tope"}
    BY <1>5, <1>7, Supuestos
  <2> QED BY <2>2, <2>3, <1>1, <1>3, AbortoBien DEF especies, campeon, padres
<1>8. CASE x # NADIE
  <2>1. /\ paso' = "reproduce" /\ random_organism' \in DOMAIN prev_organisms /\ azar' = azar
        /\ random_organism' \in 0 .. POPULATION_MAX
    BY <1>1, <1>5, <1>6, <1>8
  <2>2. Tipos'
    BY <1>1, <1>3, <2>1 DEF Tipos
  <2>3. Abortos' /\ Campeon'
    BY <1>1, <1>3, <2>1 DEF Inv, Abortos, Vaciadas, SinPadre, AbortoExplicado, Campeon
  <2>4. EspeciesParticionan' /\ Hueco'
    BY <1>1, <1>2, <1>3, <2>1 DEF EspeciesParticionan, Particion, Hueco
  <2> QED
    BY <2>1, <2>2, <2>3, <2>4 DEF Inv, AntesDeRepartir, Repartiendo, EspeciesDistintas, Repartida
<1> QED BY <1>7, <1>8

\* A mother was found.
LEMMA MadreBien ==
    ASSUME Inv, paso = "reproduce",
           random_mother' \in DOMAIN prev_organisms, paso' = "cruza",
           UNCHANGED <<organisms, prev_organisms, current_niches, especies, campeon,
                       random_organism, current_generation, redondeadas, azar>>
    PROVE  Inv'
<1>1. /\ Tipos /\ Particion(current_niches, prev_organisms)
      /\ DOMAIN prev_organisms \in SUBSET (0 .. POPULATION_MAX)
      /\ random_organism \in DOMAIN prev_organisms
  BY Sobrevivientes
<1>2. /\ organisms' = organisms /\ prev_organisms' = prev_organisms
      /\ current_niches' = current_niches /\ representante' = representante
      /\ heredados' = heredados /\ fitness_champion' = fitness_champion /\ mejor' = mejor
      /\ random_organism' = random_organism /\ current_generation' = current_generation
      /\ redondeadas' = redondeadas /\ azar' = azar
  BY DEF especies, campeon
<1>3. random_mother' \in 0 .. POPULATION_MAX
  BY <1>1
<1>4. Tipos'
  BY <1>1, <1>2, <1>3 DEF Tipos
<1>5. Abortos' /\ Campeon'
  BY <1>1, <1>2 DEF Inv, Abortos, Vaciadas, SinPadre, AbortoExplicado, Campeon
<1>6. EspeciesParticionan' /\ Hueco'
  BY <1>1, <1>2, <1>3 DEF Inv, EspeciesParticionan, Particion, Hueco
<1> QED
  BY <1>4, <1>5, <1>6
     DEF Inv, AntesDeRepartir, Repartiendo, EspeciesDistintas, Repartida

LEMMA MadreDeOtraBien == Inv /\ MadreDeOtra => Inv'
<1> SUFFICES ASSUME Inv, MadreDeOtra PROVE Inv'
  OBVIOUS
<1>1. paso = "reproduce"
      /\ UNCHANGED <<organisms, prev_organisms, current_niches, especies, campeon,
                     random_organism, current_generation, redondeadas, azar>>
  BY DEF MadreDeOtra, historia
<1>2. PICK i \in DOMAIN current_niches :
        \/ \E m \in current_niches[i].miembros : random_mother' = m /\ paso' = "cruza"
        \/ current_niches[i].miembros = {} /\ paso' = "aborta" /\ random_mother' = random_mother
  BY DEF MadreDeOtra
<1>3. current_niches[i].miembros \in SUBSET (DOMAIN prev_organisms)
  BY <1>1, Sobrevivientes
<1>4. ASSUME current_niches[i].miembros = {}, paso' = "aborta", random_mother' = random_mother
      PROVE  Inv'
  <2>1. Causas(azar')
    BY <1>1, <1>4, VaciaExplica
  <2>2. azar' \in {"cero", "medio", "tope"}
    BY <1>1 DEF Inv, Tipos
  <2> QED BY <2>1, <2>2, <1>1, <1>4, AbortoBien DEF padres
<1> QED BY <1>1, <1>2, <1>3, <1>4, MadreBien

LEMMA MadreDeLaEspecieBien == Inv /\ MadreDeLaEspecie => Inv'
<1> SUFFICES ASSUME Inv, MadreDeLaEspecie PROVE Inv'
  OBVIOUS
<1> DEFINE M == current_niches[prev_organisms[random_organism].niche].miembros
           peso == [m \in M |-> PesoDeMadre(m)]
<1>1. paso = "reproduce" /\ Cardinality(M) # 1
      /\ UNCHANGED <<organisms, prev_organisms, current_niches, especies, campeon,
                     random_organism, current_generation, redondeadas>>
      /\ Sortea(random_mother, M, peso, "cruza")
  BY DEF MadreDeLaEspecie
<1>2. /\ random_organism \in DOMAIN prev_organisms /\ IsFiniteSet(DOMAIN prev_organisms)
      /\ Particion(current_niches, prev_organisms) /\ DOMAIN prev_organisms \in SUBSET Nat
      /\ NADIE \notin DOMAIN prev_organisms
      /\ \A p \in DOMAIN prev_organisms : prev_organisms[p].fitness \in Nat
      /\ \A i \in DOMAIN current_niches :
           current_niches[i].miembros \in SUBSET (DOMAIN prev_organisms)
  BY <1>1, Sobrevivientes
<1>3. M \in SUBSET (DOMAIN prev_organisms) /\ random_organism \in M
  BY <1>2 DEF Particion
<1>4. PICK a \in Azares : \E x \in Sorteo(M, peso, a) :
        IF x = NADIE THEN paso' = "aborta" /\ azar' = a /\ random_mother' = random_mother
        ELSE paso' = "cruza" /\ random_mother' = x /\ azar' = azar
  <2> HIDE DEF M, peso
  <2> QED BY <1>1 DEF Sortea
<1>5. PICK x \in Sorteo(M, peso, a) :
        IF x = NADIE THEN paso' = "aborta" /\ azar' = a /\ random_mother' = random_mother
        ELSE paso' = "cruza" /\ random_mother' = x /\ azar' = azar
  <2> HIDE DEF M, peso
  <2> QED BY <1>4
<1>6. IF x = NADIE THEN SinNadie(M, peso, a) ELSE x \in M
  <2>1. M \in SUBSET Nat /\ IsFiniteSet(M) /\ NADIE \notin M
    BY <1>2, <1>3, FS_Subset
  <2> HIDE DEF M, peso
  <2> QED BY <2>1, SorteoBien
<1>7. CASE x = NADIE
  <2>1. SinNadie(M, peso, a)
    BY <1>6, <1>7
  <2>2. Candidatas = M \ {random_organism}
    BY <1>2, NADIE # random_organism DEF Candidatas, NADIE
  <2>3. \E m \in M : m # random_organism
    <3> HIDE DEF M
    <3> SUFFICES ASSUME \A m \in M : m = random_organism PROVE FALSE
      OBVIOUS
    <3>1. M = {random_organism}
      BY <1>3
    <3>2. Cardinality(M) = 1
      BY <3>1, FS_Singleton
    <3> QED BY <3>2, <1>1
  <2>4. \A m \in M : peso[m] = IF m = random_organism THEN 0 ELSE prev_organisms[m].fitness
    BY DEF PesoDeMadre
  <2> HIDE DEF M, peso
  <2>5. Causas(a)
    <3>1. CASE \A m \in M : ~(peso[m] > 0)
      <4>1. Candidatas # {}
        BY <2>2, <2>3
      <4>2. \A p \in Candidatas : prev_organisms[p].fitness = 0
        BY <3>1, <2>2, <2>4, <1>2, <1>3
      <4> QED BY <4>1, <4>2 DEF Causas
    <3>2. CASE a = "tope" /\ \E p, q \in M : p # q /\ peso[p] > 0 /\ peso[q] > 0
      <4>1. PICK p \in M, q \in M : p # q /\ peso[p] > 0 /\ peso[q] > 0
        BY <3>2
      <4>2. /\ p \in Candidatas /\ prev_organisms[p].fitness > 0
            /\ q \in Candidatas /\ prev_organisms[q].fitness > 0
        BY <4>1, <2>2, <2>4
      <4> QED BY <4>1, <4>2, <3>2 DEF Causas
    <3> QED BY <3>1, <3>2, <2>1 DEF SinNadie
  <2>6. /\ paso' = "aborta" /\ azar' = a /\ random_mother' = random_mother
        /\ azar' \in {"cero", "medio", "tope"}
    BY <1>5, <1>7, Supuestos
  <2> QED BY <2>5, <2>6, <1>1, AbortoBien DEF padres
<1>8. CASE x # NADIE
  <2> HIDE DEF M, peso
  <2> QED BY <1>1, <1>3, <1>5, <1>6, <1>8, MadreBien
<1> QED BY <1>7, <1>8

LEMMA NaceBien == Inv /\ Nace => Inv'
<1> SUFFICES ASSUME Inv, Nace PROVE Inv'
  OBVIOUS
<1>1. /\ Tipos /\ Len(organisms) < POPULATION_MAX /\ paso \in {"reproduce", "cruza"}
      /\ Particion(current_niches, prev_organisms)
  BY Sobrevivientes DEF Inv, Nace, Hueco
<1>2. PICK g \in Genomas : organisms' = Append(organisms, Cria(g))
  BY DEF Nace
<1>3. /\ prev_organisms' = prev_organisms
      /\ current_niches' = current_niches /\ representante' = representante
      /\ heredados' = heredados /\ fitness_champion' = fitness_champion /\ mejor' = mejor
      /\ random_organism' = 0 /\ random_mother' = 0 /\ paso' = "nacen"
      /\ current_generation' = current_generation /\ redondeadas' = redondeadas /\ azar' = azar
  BY DEF Nace, especies, campeon, historia
<1> DEFINE h == Cria(g)
<1>4. h \in Organismo /\ organisms' = Append(organisms, h)
  BY <1>2, Supuestos
<1> HIDE DEF h
<1>5. organisms' \in Seq(Organismo) /\ Len(organisms') <= POPULATION_MAX
  BY <1>1, <1>4, Supuestos DEF Tipos
<1>6. Tipos'
  BY <1>1, <1>3, <1>5, Supuestos DEF Tipos
<1>7. Abortos' /\ Campeon'
  BY <1>1, <1>3 DEF Inv, Abortos, Vaciadas, SinPadre, AbortoExplicado, Campeon
<1>8. EspeciesParticionan'
  BY <1>1, <1>3 DEF EspeciesParticionan, Particion
<1> QED
  BY <1>3, <1>6, <1>7, <1>8
     DEF Inv, AntesDeRepartir, Repartiendo, EspeciesDistintas, Repartida, Hueco

LEMMA NacieronBien == Inv /\ Nacieron => Inv'
<1> SUFFICES ASSUME Inv, Nacieron PROVE Inv'
  OBVIOUS
<1>1. /\ Tipos /\ Particion(current_niches, prev_organisms) /\ paso = "nacen" /\ Completa
  BY Sobrevivientes DEF Nacieron, Completa
<1>2. /\ organisms' = organisms /\ prev_organisms' = prev_organisms
      /\ current_niches' = current_niches /\ representante' = representante
      /\ heredados' = heredados /\ fitness_champion' = fitness_champion /\ mejor' = mejor
      /\ random_organism' = random_organism /\ random_mother' = random_mother
      /\ paso' = "especies" /\ current_generation' = current_generation
      /\ redondeadas' = redondeadas /\ azar' = azar
  BY DEF Nacieron, especies, campeon, padres, historia
<1>3. Tipos'
  BY <1>1, <1>2 DEF Tipos
<1>4. AntesDeRepartir'
  BY <1>1, <1>2 DEF AntesDeRepartir, Completa, Particion
<1>5. Abortos' /\ Campeon'
  BY <1>1, <1>2 DEF Inv, Abortos, Vaciadas, SinPadre, AbortoExplicado, Campeon
<1> QED
  BY <1>2, <1>3, <1>4, <1>5
     DEF Inv, Repartiendo, EspeciesDistintas, Repartida, EspeciesParticionan, Hueco

LEMMA PasoInv == Inv /\ [Next]_vars => Inv'
<1> SUFFICES ASSUME Inv, [Next]_vars PROVE Inv'
  OBVIOUS
<1>1. ASSUME UNCHANGED vars PROVE Inv'
  <2>1. /\ organisms' = organisms /\ prev_organisms' = prev_organisms
        /\ current_niches' = current_niches /\ representante' = representante
        /\ heredados' = heredados /\ fitness_champion' = fitness_champion /\ mejor' = mejor
        /\ random_organism' = random_organism /\ random_mother' = random_mother
        /\ paso' = paso /\ current_generation' = current_generation
        /\ redondeadas' = redondeadas /\ azar' = azar
    BY <1>1 DEF vars, especies, campeon, padres, historia
  <2>2. Tipos'
    BY <2>1 DEF Inv, Tipos
  <2>3. AntesDeRepartir' /\ Repartiendo'
    BY <2>1 DEF Inv, AntesDeRepartir, Repartiendo, Completa
  <2>4. EspeciesDistintas'
    <3>1. \A j : Modelo(j)' = Modelo(j)
      BY <2>1 DEF Modelo
    <3> QED BY <2>1, <3>1 DEF Inv, EspeciesDistintas
  <2>5. Repartida' /\ Hueco'
    BY <2>1 DEF Inv, Repartida, Hueco, Completa, Vivas
  <2>6. EspeciesParticionan'
    BY <2>1 DEF Inv, EspeciesParticionan, Particion
  <2>7. Campeon' /\ Abortos'
    BY <2>1 DEF Inv, Campeon, Abortos, Vaciadas, SinPadre, AbortoExplicado, Candidatas
  <2> QED BY <2>2, <2>3, <2>4, <2>5, <2>6, <2>7 DEF Inv
<1> QED
  BY <1>1, TraspasaBien, UbicaBien, CierraEspeciesBien, EvaluaBien, SeleccionaBien, PadreBien,
     MadreDeOtraBien, MadreDeLaEspecieBien, NaceBien, NacieronBien DEF Next

LEMMA SiempreInv == Spec => []Inv
BY InicioInv, PasoInv, PTL DEF Spec

-----------------------------------------------------------------------------
(* What follows                                                            *)

\* A generation never exceeds POPULATION_MAX; while the organisms are sorted the
\* positions kept in the species, and the representatives, are of the vectors
\* they are read from.
THEOREM TiposCorrectos == Spec => []TypeOK
<1>1. Inv => TypeOK
  <2> SUFFICES ASSUME Inv PROVE Tipos /\ PosicionesValidas
    BY DEF TypeOK
  <2>1. ASSUME paso = "reparte", NEW j \in DOMAIN current_niches
        PROVE  /\ current_niches[j].miembros \subseteq DOMAIN organisms
               /\ j \in DOMAIN representante
               /\ representante[j] \in DOMAIN (IF j <= heredados THEN prev_organisms ELSE organisms)
    <3>1. /\ j \in Nat /\ heredados \in Nat /\ DOMAIN representante = DOMAIN current_niches
      BY <2>1 DEF Inv, Tipos, Repartiendo
    <3> QED BY <2>1, <3>1 DEF Inv, Repartiendo
  <2> QED BY <2>1 DEF Inv, PosicionesValidas, AntesDeRepartir
<1> QED BY <1>1, SiempreInv, PTL

\* Every organism is in one species, the one its field niche names, after
\* spatiation and after the selection of epoch has numbered the survivors anew.
THEOREM LasEspeciesParticionan == Spec => []EspeciesParticionan
<1>1. Inv => EspeciesParticionan
  BY DEF Inv
<1> QED BY <1>1, SiempreInv, PTL

\* While the organisms are sorted, each is near the representative of its
\* species, and a species new to this generation was needed: its founder is far
\* from the representatives of those before it.
THEOREM LasEspeciesSonDistintas == Spec => []EspeciesDistintas
<1>1. Inv => EspeciesDistintas
  BY DEF Inv
<1> QED BY <1>1, SiempreInv, PTL

\* As long as no mean has rounded above all the fitness of its species, the
\* selection has not dropped the best organism, so between selections the
\* champion is the best there ever was.
THEOREM ElCampeonEsElMejor == Spec => []CampeonEsElMejor
<1>1. Inv => CampeonEsElMejor
  BY DEF Inv, Campeon, CampeonEsElMejor
<1> QED BY <1>1, SiempreInv, PTL

\* Whatever the fitness, the means and rand(), epoch ends the process only over a
\* species emptied by the rounding of its mean, a draw among organisms of fitness
\* 0.0, or a rand() of RAND_MAX with several to draw from.
THEOREM LosAbortosSeExplican == Spec => []AbortoExplicado
<1>1. Inv => AbortoExplicado
  BY DEF Inv, Abortos
<1> QED BY <1>1, SiempreInv, PTL

=============================================================================
