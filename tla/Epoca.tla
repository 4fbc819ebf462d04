-------------------------------- MODULE Epoca --------------------------------
(***************************************************************************)
(* Species and epochs of a NEAT population (NEAT.cpp, with the draws of    *)
(* discrete_probabilities.cpp).                                            *)
(*                                                                         *)
(* An epoch keeps of each species the organisms that reach its mean, fills *)
(* the population with their children, and sorts these into species.       *)
(* Species are vectors of positions, first into organisms and after the    *)
(* selection into prev_organisms, whose numbering is another.              *)
(*                                                                         *)
(* Genomes are points, and two are compatible when Cercanos says so.       *)
(* Fitness is a rank: 0 is the value 0.0, and a mean is any cut above the  *)
(* lowest rank that does not exceed the highest.                           *)
(***************************************************************************)
EXTENDS Integers, Sequences, FiniteSets

CONSTANTS
    Genomas, Cercanos,  \* points; pairs nearer than DISTANCE_THRESHOLD
    POPULATION_MAX,
    MIN_APTITUD, MAX_APTITUD,   \* ranks of fitness
    NREDONDEO,          \* size from which the mean of equal fitness may round up
    Azares,             \* what rand() may return: "cero", "tope" (RAND_MAX) or "medio"
    MAX_GENERACION      \* bound: epochs

ASSUME EpocaSupuestos ==
    /\ Genomas # {}
    /\ \A g \in Genomas : <<g, g>> \in Cercanos
    /\ POPULATION_MAX \in Nat \ {0}
    /\ MIN_APTITUD \in Nat /\ MAX_APTITUD \in Nat /\ MIN_APTITUD <= MAX_APTITUD
    /\ NREDONDEO \in Nat /\ MAX_GENERACION \in Nat
    /\ Azares \subseteq {"cero", "medio", "tope"}

Aptitudes == MIN_APTITUD .. MAX_APTITUD

VARIABLES
    organisms, prev_organisms,
    current_niches,             \* at "reparte", current_niches_temp
    representante, heredados,   \* representant_of_niche; how many of real_niches
    fitness_champion,
    random_organism, random_mother,     \* the draws of a birth, 0 for none
    current_generation, paso,
    mejor,                      \* history: the best fitness ever evaluated,
    redondeadas,                \* the <<generation, species>> whose mean rounded above all
                                \* its fitness, and what rand() gave the draw that found nobody
    azar

padres == <<random_organism, random_mother>>
especies == <<representante, heredados>>
campeon == <<fitness_champion, mejor>>
historia == <<redondeadas, azar>>
vars == <<organisms, prev_organisms, current_niches, especies, campeon, padres,
          current_generation, paso, historia>>

\* no species yet
MutCria(g) == [genoma |-> g, fitness |-> 0, niche |-> -1]

\* What a child carries of fitness and niche is overwritten before it is read.
Cria(g) == [genoma |-> g, fitness |-> 0, niche |-> 0]

Posiciones == 1 .. POPULATION_MAX

\* put_randoms_weight makes of the loaded organism any genome of its shape
Init ==
    /\ organisms \in [Posiciones -> {Cria(g) : g \in Genomas}]
    /\ \E g \in Genomas : prev_organisms = <<Cria(g)>>
    /\ current_niches = <<[miembros |-> {1}, exist |-> TRUE]>>
    /\ representante = <<>> /\ heredados = 0
    /\ fitness_champion = 0 /\ mejor = 0
    /\ random_organism = 0 /\ random_mother = 0
    /\ current_generation = 0 /\ paso = "especies"
    /\ redondeadas = {} /\ azar = "medio"

-----------------------------------------------------------------------------
(* Vectors filled by push_back                                             *)

Menor(S) == {qp \in S \X S : qp[1] < qp[2]}

\* The position p has once those of S were copied, in the order "antes", to an
\* empty vector; and that vector.
Lugar(p, S, antes) == 1 + Cardinality({q \in S : <<q, p>> \in antes})
Copia(v, S, antes) ==
    [k \in 1 .. Cardinality(S) |-> v[CHOOSE p \in S : Lugar(p, S, antes) = k]]

Filtra(v, S) == Copia(v, S, Menor(S))

-----------------------------------------------------------------------------
(* spatiation                                                              *)

Reales == {i \in DOMAIN current_niches : current_niches[i].exist /\ current_niches[i].miembros # {}}

\* Each species left by the last generation is represented by one of its
\* organisms, drawn at random.  The species themselves start again, empty.
Traspasa ==
    LET real_niches == Filtra(current_niches, Reales)
    IN  /\ paso = "especies"
        /\ heredados' = Len(real_niches)
        /\ \E r \in [DOMAIN real_niches -> DOMAIN prev_organisms] :
             /\ \A j \in DOMAIN real_niches : r[j] \in real_niches[j].miembros
             /\ representante' = r
        /\ current_niches' = [j \in DOMAIN real_niches |-> [miembros |-> {}, exist |-> FALSE]]
        /\ paso' = "reparte"
        /\ UNCHANGED <<organisms, prev_organisms, campeon, padres, current_generation, historia>>

\* the organism of a new species is looked for in the last generation
MutModelo(j) == prev_organisms[representante[j]].genoma

\* of an inherited species, an organism of the last generation; of a new one,
\* the organism it was made for
Modelo(j) ==
    IF j <= heredados THEN prev_organisms[representante[j]].genoma
    ELSE organisms[representante[j]].genoma

\* the species, in whatever order they are tried, that would take organism i
Afines(i) == {j \in DOMAIN current_niches : <<organisms[i].genoma, Modelo(j)>> \in Cercanos}

Repartidos == UNION {current_niches[j].miembros : j \in DOMAIN current_niches}

Ubica(i) ==
    /\ paso = "reparte" /\ i \notin Repartidos /\ 1 .. i - 1 \subseteq Repartidos
    /\ \/ \E j \in Afines(i) :
            /\ current_niches' = [current_niches EXCEPT ![j].miembros = @ \cup {i},
                                                        ![j].exist = TRUE]
            /\ UNCHANGED representante
       \/ /\ Afines(i) = {}
          /\ current_niches' = Append(current_niches, [miembros |-> {i}, exist |-> TRUE])
          /\ representante' = Append(representante, i)
    /\ UNCHANGED <<organisms, prev_organisms, heredados, campeon, padres, current_generation, paso,
                   historia>>

Marca(nichos, antes) ==
    [p \in DOMAIN organisms |->
        [organisms[p] EXCEPT !.niche = CHOOSE i \in DOMAIN nichos : p \in nichos[i].miembros]]

\* the species nobody joined are dropped and the others close ranks
CierraEspecies ==
    LET quedan == Filtra(current_niches, {i \in DOMAIN current_niches : current_niches[i].exist})
    IN  /\ paso = "reparte" /\ DOMAIN organisms \subseteq Repartidos
        /\ current_niches' = quedan
        /\ organisms' = Marca(quedan, current_niches)
        /\ representante' = <<>> /\ heredados' = 0
        /\ paso' = "evalua"
        /\ UNCHANGED <<prev_organisms, campeon, padres, current_generation, historia>>

-----------------------------------------------------------------------------
(* epoch                                                                   *)

Maximo(S) == CHOOSE x \in S : \A y \in S : y <= x

\* the caller gives every organism its fitness
Evalua ==
    /\ paso = "evalua" /\ current_generation < MAX_GENERACION
    /\ \E f \in [DOMAIN organisms -> Aptitudes] :
         /\ organisms' = [p \in DOMAIN organisms |-> [organisms[p] EXCEPT !.fitness = f[p]]]
         /\ mejor' = Maximo({mejor} \cup {f[p] : p \in DOMAIN organisms})
    /\ paso' = "epoch"
    /\ UNCHANGED <<prev_organisms, current_niches, especies, fitness_champion, padres,
                   current_generation, historia>>

\* the means the fitness of a species may have, as computed
Medias(miembros) ==
    LET f == {organisms[p].fitness : p \in miembros}
    IN  IF Cardinality(f) = 1
        THEN f \cup (IF Cardinality(miembros) >= NREDONDEO THEN {x + 1 : x \in f} ELSE {})
        ELSE {x \in f : \E y \in f : y < x}

\* species by species, and by position
OrdenDeCopia(quedan) ==
    {qp \in quedan \X quedan :
        LET i == organisms[qp[1]].niche
            j == organisms[qp[2]].niche
        IN  i < j \/ (i = j /\ qp[1] < qp[2])}

\* the positions the survivors had
MutRenumera(miembros, quedan) == quedan \cap miembros

Renumera(miembros, quedan) ==
    {Lugar(p, quedan, OrdenDeCopia(quedan)) : p \in quedan \cap miembros}

\* the champion of this generation, be it better or worse
MutCorona(quedan) == fitness_champion' = Maximo({0} \cup {organisms[p].fitness : p \in quedan})

Corona(quedan) == fitness_champion' = Maximo({fitness_champion} \cup {organisms[p].fitness : p \in quedan})

\* an organism as good as the mean goes
MutAlcanza(p, media) == organisms[p].fitness > media

Alcanza(p, media) == organisms[p].fitness >= media

SobreTodos(media) ==
    {i \in DOMAIN current_niches :
        \A p \in current_niches[i].miembros : media[i] > organisms[p].fitness}

\* An organism stays if it reaches the mean of its species.  The species are
\* made anew and nobody writes their field exist.
Selecciona ==
    /\ paso = "epoch"
    /\ \E media \in [DOMAIN current_niches -> 0 .. MAX_APTITUD + 1],
          basura \in [DOMAIN current_niches -> BOOLEAN] :
         LET quedan == {p \in DOMAIN organisms : Alcanza(p, media[organisms[p].niche])}
         IN  /\ \A i \in DOMAIN current_niches : media[i] \in Medias(current_niches[i].miembros)
             /\ prev_organisms' = Copia(organisms, quedan, OrdenDeCopia(quedan))
             /\ current_niches' =
                  [i \in DOMAIN current_niches |->
                     [miembros |-> Renumera(current_niches[i].miembros, quedan), exist |-> basura[i]]]
             /\ Corona(quedan)
             /\ redondeadas' = redondeadas \cup {<<current_generation + 1, i>> : i \in SobreTodos(media)}
    /\ organisms' = <<>>
    /\ current_generation' = current_generation + 1
    /\ paso' = "nacen"
    /\ UNCHANGED <<especies, mejor, padres, azar>>

NADIE == 0

\* obtain_uniformrandom_element: what a draw by weight may return.  If all weigh
\* nothing 0.0/0.0 compares with nothing; if rand() gives 0 the first is
\* returned, whatever it weighs; if it gives RAND_MAX the quotients of several,
\* added, may stay below the 1.0 that is looked for.
Sorteo(P, peso, a) ==
    LET pesan == {p \in P : peso[p] > 0}
    IN  IF pesan = {} THEN {NADIE}
        ELSE IF a = "cero" THEN {CHOOSE p \in P : \A q \in P : p <= q}
        ELSE pesan \cup {x \in {NADIE} : a = "tope" /\ Cardinality(pesan) > 1}

\* a draw that finds nobody ends the process
Sortea(variable, P, peso, sigue) ==
    \E a \in Azares : \E p \in Sorteo(P, peso, a) :
        IF p = NADIE THEN paso' = "aborta" /\ azar' = a /\ UNCHANGED variable
        ELSE paso' = sigue /\ variable' = p /\ UNCHANGED azar

Padre ==
    /\ paso = "nacen" /\ Len(organisms) < POPULATION_MAX
    /\ Sortea(random_organism, DOMAIN prev_organisms,
              [p \in DOMAIN prev_organisms |-> prev_organisms[p].fitness], "reproduce")
    /\ UNCHANGED <<organisms, prev_organisms, current_niches, especies, campeon, random_mother,
                   current_generation, redondeadas>>

\* a mother of another species, each species as likely; rand()%0 ends the
\* process if the last generation left nobody in the species drawn
MadreDeOtra ==
    /\ paso = "reproduce"
    /\ \E i \in DOMAIN current_niches \ {prev_organisms[random_organism].niche} :
         \/ \E m \in current_niches[i].miembros : random_mother' = m /\ paso' = "cruza"
         \/ current_niches[i].miembros = {} /\ paso' = "aborta" /\ UNCHANGED random_mother
    /\ UNCHANGED <<organisms, prev_organisms, current_niches, especies, campeon, random_organism,
                   current_generation, historia>>

\* the father weighs 0.0, so as not to be chosen himself
PesoDeMadre(m) == IF m = random_organism THEN 0 ELSE prev_organisms[m].fitness

MadreDeLaEspecie ==
    LET miembros == current_niches[prev_organisms[random_organism].niche].miembros
    IN  /\ paso = "reproduce" /\ Cardinality(miembros) # 1
        /\ Sortea(random_mother, miembros, [m \in miembros |-> PesoDeMadre(m)], "cruza")
        /\ UNCHANGED <<organisms, prev_organisms, current_niches, especies, campeon, random_organism,
                       current_generation, redondeadas>>

\* Without a mother the father's genome is mutated (also at 1459 and 1470).
\* Crossed and mutated genomes may be any.
Nace ==
    /\ paso \in {"reproduce", "cruza"}
    /\ \E g \in Genomas : organisms' = Append(organisms, Cria(g))
    /\ random_organism' = 0 /\ random_mother' = 0
    /\ paso' = "nacen"
    /\ UNCHANGED <<prev_organisms, current_niches, especies, campeon, current_generation, historia>>

Nacieron ==
    /\ paso = "nacen" /\ Len(organisms) = POPULATION_MAX
    /\ paso' = "especies"
    /\ UNCHANGED <<organisms, prev_organisms, current_niches, especies, campeon, padres,
                   current_generation, historia>>

Next ==
    \/ Traspasa
    \/ \E i \in DOMAIN organisms : Ubica(i)
    \/ CierraEspecies
    \/ Evalua \/ Selecciona
    \/ Padre \/ MadreDeOtra \/ MadreDeLaEspecie \/ Nace \/ Nacieron

Spec == Init /\ [][Next]_vars

-----------------------------------------------------------------------------
(* Properties                                                              *)

Organismo == [genoma : Genomas, fitness : 0 .. MAX_APTITUD, niche : 0 .. POPULATION_MAX]
Nicho == [miembros : SUBSET Posiciones, exist : BOOLEAN]

Tipos ==
    /\ organisms \in Seq(Organismo) /\ Len(organisms) <= POPULATION_MAX
    /\ prev_organisms \in Seq(Organismo) /\ Len(prev_organisms) <= POPULATION_MAX
    /\ current_niches \in Seq(Nicho)
    /\ representante \in Seq(Posiciones) /\ heredados \in Nat
    /\ fitness_champion \in 0 .. MAX_APTITUD /\ mejor \in 0 .. MAX_APTITUD
    /\ random_organism \in 0 .. POPULATION_MAX /\ random_mother \in 0 .. POPULATION_MAX
    /\ current_generation \in 0 .. MAX_GENERACION
    /\ redondeadas \in SUBSET (Nat \X Nat) /\ azar \in {"cero", "medio", "tope"}
    /\ paso \in {"especies", "reparte", "evalua", "epoch", "nacen", "reproduce", "cruza", "aborta"}

\* spatiation reads only positions that are: the old species index the last
\* generation, the new ones this one, and a representative the one it is from.
PosicionesValidas ==
    /\ paso = "especies" =>
         \A i \in DOMAIN current_niches : current_niches[i].miembros \subseteq DOMAIN prev_organisms
    /\ paso = "reparte" =>
         \A j \in DOMAIN current_niches :
            /\ current_niches[j].miembros \subseteq DOMAIN organisms
            /\ j \in DOMAIN representante
            /\ representante[j] \in DOMAIN (IF j <= heredados THEN prev_organisms ELSE organisms)

\* Neither generation has more than POPULATION_MAX organisms, the program is at
\* one of the places of epoch and spatiation, and no position spatiation reads
\* is beyond its vector.
TypeOK == Tipos /\ PosicionesValidas

\* The species have exactly the organisms of the population, each the one its
\* field niche names.
Particion(nichos, poblacion) ==
    /\ \A i \in DOMAIN nichos : nichos[i].miembros \subseteq DOMAIN poblacion
    /\ \A p \in DOMAIN poblacion :
         /\ poblacion[p].niche \in DOMAIN nichos
         /\ \A i \in DOMAIN nichos : p \in nichos[i].miembros <=> i = poblacion[p].niche

\* Every organism belongs to one species and knows which: after spatiation
\* among its whole generation, and after the selection of epoch among the
\* survivors, whose positions are new and whose niche is not written again.
\* "Perhaps random_organism is not the right second parameter", epoch doubts
\* (1420).  It is: with this no index of epoch_reproduce is out of range.
EspeciesParticionan ==
    /\ paso \in {"evalua", "epoch"} => Particion(current_niches, organisms)
    /\ paso \in {"nacen", "reproduce", "cruza"} => Particion(current_niches, prev_organisms)
    /\ paso \in {"reproduce", "cruza"} => random_organism \in DOMAIN prev_organisms
    /\ paso = "cruza" => random_mother \in DOMAIN prev_organisms

\* While the organisms are sorted, each is near the representative of its
\* species, and a species was only founded by an organism that none of those
\* there were would take.
EspeciesDistintas ==
    paso = "reparte" =>
        /\ \A j \in DOMAIN current_niches : \A p \in current_niches[j].miembros :
             <<organisms[p].genoma, Modelo(j)>> \in Cercanos
        /\ \A j \in DOMAIN current_niches : j > heredados =>
             \A k \in 1 .. j - 1 : <<Modelo(j), Modelo(k)>> \notin Cercanos

\* Until a mean first rounds above all the fitness of its species the champion
\* is the best organism there ever was: the selection does not lose it before
\* it is looked for.
CampeonEsElMejor ==
    redondeadas = {} /\ paso # "epoch" => fitness_champion = mejor

\* those the draw under way is made from
Candidatas ==
    IF random_organism = 0 THEN DOMAIN prev_organisms
    ELSE current_niches[prev_organisms[random_organism].niche].miembros \ {random_organism}

\* An epoch ends the process only if the selection left a species empty, and
\* then because its mean rounded above its best; if all those drawn from have
\* fitness 0.0; or if rand() gave RAND_MAX and several weigh.
AbortoExplicado ==
    paso = "aborta" =>
        \/ \E i \in DOMAIN current_niches :
             current_niches[i].miembros = {} /\ <<current_generation, i>> \in redondeadas
        \/ Candidatas # {} /\ \A p \in Candidatas : prev_organisms[p].fitness = 0
        \/ azar = "tope" /\ \E p, q \in Candidatas : p # q /\ prev_organisms[p].fitness > 0
                                                     /\ prev_organisms[q].fitness > 0

=============================================================================
