----------------------------- MODULE EvalServer -----------------------------
(***************************************************************************)
(* The distributed fitness-evaluation server, quadratotThreads.cpp.        *)
(*                                                                         *)
(* The main thread builds the NEAT population and runs the generation      *)
(* loop; one thread per client (HiloCliente) takes organisms from the      *)
(* shared counter organismosDisponibles, sends each to its client over TCP *)
(* and stores the fitness that comes back.  The last thread that finds no  *)
(* organism left signals TodasHebrasEstanListas to the main thread, which  *)
(* runs an epoch and broadcasts HayOrganismosNuevos.                       *)
(*                                                                         *)
(* A mutex is the thread that owns it, or Nadie; mutex_Inutil has none,    *)
(* only the main thread ever locks it.  A condition variable is the set of *)
(* threads waiting on it: a signal removes one, a broadcast all, and       *)
(* neither leaves a trace when nobody waits.                               *)
(***************************************************************************)
EXTENDS Integers, FiniteSets

CONSTANTS
    Hilos,            \* the client threads, one per entry of hostClientes
    Principal,        \* the main thread
    Nadie,            \* the owner of a free mutex
    POPULATION_MAX,   \* organisms per generation (NEAT user definitions)
    GENERATIONS,      \* epochs the main thread runs
    Espurios,         \* condition variables whose waits may return unsignalled
    MAX_ESPURIOS      \* bound: how many such returns there are

Hebras == Hilos \cup {Principal}

Cerrojos == {"lectura", "inicial", "obtener", "cantidad"}

Condiciones == {"NEAT_OK", "TodasHebrasEstanListas", "HayOrganismosNuevos"}

ASSUME ServidorSupuestos ==
    /\ IsFiniteSet(Hilos) /\ Hilos # {}
    /\ Principal \notin Hilos /\ Nadie \notin Hebras
    /\ POPULATION_MAX \in Nat \ {0} /\ GENERATIONS \in Nat
    /\ Espurios \subseteq Condiciones /\ MAX_ESPURIOS \in Nat

VARIABLES
    pc,                     \* where each thread is
    dueno,                  \* mutex -> its owner
    esperando,              \* condition variable -> threads waiting on it
    espurios,               \* spurious returns so far
    neatIsReady,            \* the flag NEAT_OK announces
    configurado,            \* hilos whose client got the configuration file
    organismosDisponibles,  \* organisms not handed out yet
    cantidadHebrasListas,   \* client threads that found no organism left
    organismoElecto,        \* hilo -> the count it read, then its position
    enviado,                \* hilo -> generation of the organism it sent
    fitness,                \* position -> generation its fitness stands for
    generacion              \* the generation poblacion holds

sinc == <<dueno, esperando, espurios>>
arranque == <<neatIsReady, configurado>>
contadores == <<organismosDisponibles, cantidadHebrasListas>>
poblacion == <<fitness, generacion>>
locales == <<organismoElecto, enviado>>

vars == <<pc, sinc, arranque, contadores, poblacion, locales>>

Posiciones == 0 .. POPULATION_MAX - 1

SinEvaluar == -1

Init ==
    /\ pc = [t \in Hebras |-> IF t = Principal THEN "construye" ELSE "conecta"]
    /\ dueno = [m \in Cerrojos |-> Nadie]
    /\ esperando = [c \in Condiciones |-> {}]
    /\ espurios = 0
    /\ neatIsReady = FALSE /\ configurado = {}
    /\ organismosDisponibles = 0 /\ cantidadHebrasListas = 0
    /\ organismoElecto = [h \in Hilos |-> 0]
    /\ enviado = [h \in Hilos |-> SinEvaluar]
    /\ fitness = [o \in Posiciones |-> SinEvaluar]
    /\ generacion = 0

-----------------------------------------------------------------------------
(* Threads and pthread primitives.  At "fin" the process has ended.        *)

Vivo == pc[Principal] # "fin"

Paso(t, desde, hasta) ==
    Vivo /\ pc[t] = desde /\ pc' = [pc EXCEPT ![t] = hasta]

Desbloquea(m) == dueno' = [dueno EXCEPT ![m] = Nadie]

Bloquea(t, desde, m, hasta) ==
    /\ Paso(t, desde, hasta)
    /\ dueno[m] = Nadie
    /\ dueno' = [dueno EXCEPT ![m] = t]
    /\ UNCHANGED <<esperando, espurios, arranque, contadores, poblacion, locales>>

\* pthread_cond_wait releases the mutex and begins the wait in one step.
Duerme(t, desde, c, m, hasta) ==
    /\ Paso(t, desde, hasta)
    /\ Desbloquea(m)
    /\ esperando' = [esperando EXCEPT ![c] = @ \cup {t}]
    /\ UNCHANGED <<espurios, arranque, contadores, poblacion, locales>>

\* The wait returns, and the mutex it takes back is released at once.
Despierta(t, desde, c, m, hasta) ==
    /\ Paso(t, desde, hasta)
    /\ t \notin esperando[c]
    /\ dueno[m] = Nadie
    /\ UNCHANGED <<sinc, arranque, contadores, poblacion, locales>>

Signal(c) ==
    IF esperando[c] = {} THEN UNCHANGED esperando
    ELSE \E t \in esperando[c] :
            esperando' = [esperando EXCEPT ![c] = @ \ {t}]

Broadcast(c) == esperando' = [esperando EXCEPT ![c] = {}]

-----------------------------------------------------------------------------
(* HiloCliente                                                             *)

\* sendfile with a null offset reads from, and moves, the offset of the one
\* descriptor all threads share: the first call leaves it at the end.
EnviaConfiguracion(h) ==
    /\ Paso(h, "enviaConfiguracion", "sincroniza")
    /\ configurado' = IF configurado = {} THEN {h} ELSE configurado
    /\ Desbloquea("lectura")
    /\ UNCHANGED <<esperando, espurios, neatIsReady, contadores, poblacion, locales>>

\* if(neatIsReady != 1): tested once, not in a loop.
FaltaNEAT == ~neatIsReady

CompruebaNEAT(h) ==
    \/ FaltaNEAT /\ Duerme(h, "compruebaNEAT", "NEAT_OK", "inicial", "esperaNEAT")
    \/ /\ ~FaltaNEAT
       /\ Paso(h, "compruebaNEAT", "bucle")
       /\ Desbloquea("inicial")
       /\ UNCHANGED <<esperando, espurios, arranque, contadores, poblacion, locales>>

\* if(organismosDisponibles > 0).
MutHayOrganismos == organismosDisponibles > 1
HayOrganismos == organismosDisponibles > 0

\* The test, and the read half of --organismosDisponibles.
Consulta(h) ==
    /\ Paso(h, "consulta", IF HayOrganismos THEN "decrementa" ELSE "cuenta")
    /\ organismoElecto' = [organismoElecto EXCEPT ![h] = organismosDisponibles]
    /\ UNCHANGED <<sinc, arranque, contadores, poblacion, enviado>>

\* A mutation: the mutex is released before organismoElecto is set.
MutDecrementa(h) ==
    /\ Paso(h, "decrementa", "elige")
    /\ organismosDisponibles' = organismoElecto[h] - 1
    /\ Desbloquea("obtener")
    /\ UNCHANGED <<esperando, espurios, arranque, cantidadHebrasListas, poblacion, locales>>

\* The write half: the main thread's assignment, which takes no mutex, may
\* have come in between and is then overwritten.
Decrementa(h) ==
    /\ Paso(h, "decrementa", "elige")
    /\ organismosDisponibles' = organismoElecto[h] - 1
    /\ UNCHANGED <<sinc, arranque, cantidadHebrasListas, poblacion, locales>>

\* organismoElecto = organismosDisponibles, from the register or, in an
\* unoptimised build, from memory again.
Elige(h) ==
    /\ Paso(h, "elige", "envia")
    /\ \E valor \in {organismoElecto[h] - 1, organismosDisponibles} :
          organismoElecto' = [organismoElecto EXCEPT ![h] = valor]
    /\ Desbloquea("obtener")
    /\ UNCHANGED <<esperando, espurios, arranque, contadores, poblacion, enviado>>

\* While epoch() rebuilds the vector, without any mutex, a client thread
\* meets the old vector, the new one, or one too short for its position.
EnEpoca == pc[Principal] = "enEpoca"

\* organisms.at() throws outside the vector, and nobody catches it.
Aborta(h, desde) ==
    /\ Vivo /\ pc[h] = desde
    /\ organismoElecto[h] \notin Posiciones \/ EnEpoca
    /\ pc' = [pc EXCEPT ![Principal] = "fin"]
    /\ UNCHANGED <<sinc, arranque, contadores, poblacion, locales>>

\* The organism is printed into a string and written to the socket.
Envia(h) ==
    /\ Paso(h, "envia", "evalua")
    /\ organismoElecto[h] \in Posiciones
    /\ \E g \in {generacion} \cup (IF EnEpoca THEN {generacion + 1} ELSE {}) :
          enviado' = [enviado EXCEPT ![h] = g]
    /\ UNCHANGED <<sinc, arranque, contadores, poblacion, organismoElecto>>

\* The answer is stored at the position the organism was taken from, whatever
\* organism stands there by now.
RecibeFitness(h) ==
    /\ Paso(h, "evalua", "bucle")
    /\ \/ fitness' = [fitness EXCEPT ![organismoElecto[h]] = enviado[h]]
       \/ EnEpoca /\ UNCHANGED fitness
    /\ enviado' = [enviado EXCEPT ![h] = SinEvaluar]
    /\ UNCHANGED <<sinc, arranque, contadores, generacion, organismoElecto>>

\* if(cantidadHebrasListas == hostClientes.size()).
MutEstanTodas(n) == TRUE
EstanTodas(n) == n = Cardinality(Hilos)

\* The thread that completes the count signals; it holds
\* mutex_ObtenerOrganismo, and not the mutex_Inutil the main thread waits with.
IncrementaYSenala(h) ==
    /\ Paso(h, "incrementa", "duerme")
    /\ cantidadHebrasListas' = cantidadHebrasListas + 1
    /\ IF EstanTodas(cantidadHebrasListas') THEN Signal("TodasHebrasEstanListas")
                                           ELSE UNCHANGED esperando
    /\ Desbloquea("cantidad")
    /\ UNCHANGED <<espurios, arranque, organismosDisponibles, poblacion, locales>>

\* A mutation: the thread goes on without giving its count back.
MutDescuenta(h) ==
    /\ Paso(h, "decrementaCantidad", "bucle")
    /\ Desbloquea("cantidad")
    /\ UNCHANGED <<esperando, espurios, arranque, contadores, poblacion, locales>>

Descuenta(h) ==
    /\ Paso(h, "decrementaCantidad", "bucle")
    /\ cantidadHebrasListas' = cantidadHebrasListas - 1
    /\ Desbloquea("cantidad")
    /\ UNCHANGED <<esperando, espurios, arranque, organismosDisponibles, poblacion, locales>>

\* The mutex the wait for HayOrganismosNuevos gives up.
CerrojoDeEspera == "obtener"

EsperaOrganismos(h) ==
    Duerme(h, "duerme", "HayOrganismosNuevos", CerrojoDeEspera, "espera")

HiloCliente(h) ==
    \/ Bloquea(h, "conecta", "lectura", "enviaConfiguracion")
    \/ EnviaConfiguracion(h)
    \/ Bloquea(h, "sincroniza", "inicial", "compruebaNEAT")
    \/ CompruebaNEAT(h)
    \/ Despierta(h, "esperaNEAT", "NEAT_OK", "inicial", "bucle")
    \/ Bloquea(h, "bucle", "obtener", "consulta")
    \/ Consulta(h) \/ Decrementa(h) \/ Elige(h)
    \/ Envia(h) \/ Aborta(h, "envia")
    \/ RecibeFitness(h) \/ Aborta(h, "evalua")
    \/ Bloquea(h, "cuenta", "cantidad", "incrementa")
    \/ IncrementaYSenala(h)
    \/ EsperaOrganismos(h)
    \/ Despierta(h, "espera", "HayOrganismosNuevos", CerrojoDeEspera, "descuenta")
    \/ Bloquea(h, "descuenta", "cantidad", "decrementaCantidad")
    \/ Descuenta(h)

-----------------------------------------------------------------------------
(* main and creacionNEAT                                                   *)

\* new Population fills every position; nothing of it is shared yet.
Construye ==
    /\ Paso(Principal, "construye", "llena")
    /\ UNCHANGED <<sinc, arranque, contadores, poblacion, locales>>

\* organismosDisponibles = POPULATION_MAX, without mutex_ObtenerOrganismo:
\* once before the threads are let in, once after every epoch.
MutRellena(desde, hasta) ==
    /\ Paso(Principal, desde, hasta)
    /\ organismosDisponibles' = POPULATION_MAX + 1
    /\ UNCHANGED <<sinc, arranque, cantidadHebrasListas, poblacion, locales>>
Rellena(desde, hasta) ==
    /\ Paso(Principal, desde, hasta)
    /\ organismosDisponibles' = POPULATION_MAX
    /\ UNCHANGED <<sinc, arranque, cantidadHebrasListas, poblacion, locales>>

\* The announcement made with neatIsReady.
Anuncia == Broadcast("NEAT_OK")

PublicaNEAT ==
    /\ Paso(Principal, "difundeNEAT", "generacion")
    /\ neatIsReady' = TRUE
    /\ Anuncia
    /\ Desbloquea("inicial")
    /\ UNCHANGED <<espurios, configurado, contadores, poblacion, locales>>

\* The head of the for: lock mutex_Inutil and wait for the threads.
MutAguardaHebras ==
    /\ Paso(Principal, "generacion", "aguarda")
    /\ generacion < GENERATIONS
    /\ UNCHANGED <<sinc, arranque, contadores, poblacion, locales>>
AguardaHebras ==
    /\ Paso(Principal, "generacion", "aguarda")
    /\ generacion < GENERATIONS
    /\ esperando' = [esperando EXCEPT !["TodasHebrasEstanListas"] = @ \cup {Principal}]
    /\ UNCHANGED <<dueno, espurios, arranque, contadores, poblacion, locales>>

\* creacionNEAT returns, main returns, and the process ends with its threads.
Termina ==
    /\ Paso(Principal, "generacion", "fin")
    /\ generacion >= GENERATIONS
    /\ UNCHANGED <<sinc, arranque, contadores, poblacion, locales>>

\* The wait returns and epoch() consumes the fitness of the whole vector.
EmpiezaEpoca ==
    /\ Paso(Principal, "aguarda", "enEpoca")
    /\ Principal \notin esperando["TodasHebrasEstanListas"]
    /\ fitness' = [o \in Posiciones |-> SinEvaluar]
    /\ UNCHANGED <<sinc, arranque, contadores, generacion, locales>>

TerminaEpoca ==
    /\ Paso(Principal, "enEpoca", "rellena")
    /\ generacion' = generacion + 1
    /\ UNCHANGED <<sinc, arranque, contadores, fitness, locales>>

\* The broadcast, outside any mutex; the generation is printed afterwards.
DifundeOrganismos ==
    /\ Paso(Principal, "difunde", "generacion")
    /\ Broadcast("HayOrganismosNuevos")
    /\ UNCHANGED <<dueno, espurios, arranque, contadores, poblacion, locales>>

HebraPrincipal ==
    \/ Construye \/ Rellena("llena", "publica")
    \/ Bloquea(Principal, "publica", "inicial", "difundeNEAT") \/ PublicaNEAT
    \/ AguardaHebras \/ Termina \/ EmpiezaEpoca \/ TerminaEpoca
    \/ Rellena("rellena", "difunde") \/ DifundeOrganismos

\* A wait returns although nobody signalled.
RetornoEspurio ==
    /\ Vivo /\ espurios < MAX_ESPURIOS
    /\ espurios' = espurios + 1
    /\ \E c \in Espurios : \E t \in esperando[c] :
          esperando' = [esperando EXCEPT ![c] = @ \ {t}]
    /\ UNCHANGED <<pc, dueno, arranque, contadores, poblacion, locales>>

Next ==
    \/ \E h \in Hilos : HiloCliente(h)
    \/ HebraPrincipal
    \/ RetornoEspurio

Spec == Init /\ [][Next]_vars

\* Every thread that can go on goes on.  At "evalua" this assumes of the
\* client that it answers what it was sent.
FairSpec == Spec /\ WF_vars(HebraPrincipal) /\ \A h \in Hilos : WF_vars(HiloCliente(h))

-----------------------------------------------------------------------------
(* Properties                                                              *)

EstadosHilo == {"conecta", "enviaConfiguracion", "sincroniza",
    "compruebaNEAT", "esperaNEAT", "bucle", "consulta", "decrementa", "elige",
    "envia", "evalua", "cuenta", "incrementa", "duerme", "espera",
    "descuenta", "decrementaCantidad"}

EstadosPrincipal == {"construye", "llena", "publica", "difundeNEAT",
    "generacion", "aguarda", "enEpoca", "rellena", "difunde", "fin"}

TipoPc ==
    /\ pc \in [Hebras -> EstadosHilo \cup EstadosPrincipal]
    /\ pc[Principal] \in EstadosPrincipal
    /\ \A h \in Hilos : pc[h] \in EstadosHilo

TipoSinc ==
    /\ dueno \in [Cerrojos -> Hebras \cup {Nadie}]
    /\ esperando \in [Condiciones -> SUBSET Hebras]
    /\ espurios \in 0 .. MAX_ESPURIOS

TipoDatos ==
    /\ neatIsReady \in BOOLEAN
    /\ configurado \in SUBSET Hilos
    /\ organismosDisponibles \in 0 .. POPULATION_MAX
    /\ cantidadHebrasListas \in Int
    /\ organismoElecto \in [Hilos -> 0 .. POPULATION_MAX]
    /\ enviado \in [Hilos -> Int]
    /\ fitness \in [Posiciones -> Int]
    /\ generacion \in Nat

\* The types of the shared globals and of the threads' locals: no position
\* beyond POPULATION_MAX is ever elected.
TypeOK == TipoPc /\ TipoSinc /\ TipoDatos

\* Between cantidadHebrasListas++ and the matching decrement.
Contadas == {h \in Hilos :
    pc[h] \in {"duerme", "espera", "descuenta", "decrementaCantidad"}}

\* cantidadHebrasListas counts the threads between their ++ and their --,
\* exactly: no update is lost and the unsigned counter never underflows.
CuentaExacta == cantidadHebrasListas = Cardinality(Contadas)

\* The main thread is signalled only at a moment when no client thread holds
\* an organism: the count that completes proves everyone else is counted.
SenalSinTrabajo ==
    [][(/\ Principal \in esperando["TodasHebrasEstanListas"]
        /\ Principal \notin esperando'["TodasHebrasEstanListas"]
        /\ espurios' = espurios)
          => \A h \in Hilos : pc[h] \notin {"decrementa", "elige", "envia", "evalua"}]_vars

\* Client thread h holds the organism at position o.
Porta(h, o) ==
    \/ pc[h] = "elige" /\ organismoElecto[h] - 1 = o
    \/ pc[h] \in {"envia", "evalua"} /\ organismoElecto[h] = o

\* The first generation is being handed out and evaluated.
PrimeraFase ==
    generacion = 0 /\ pc[Principal] \in {"publica", "difundeNEAT", "generacion", "aguarda"}

EnUnSitio(o) ==
    /\ \A h, k \in Hilos : Porta(h, o) /\ Porta(k, o) => h = k
    /\ o < organismosDisponibles <=>
          fitness[o] = SinEvaluar /\ \A h \in Hilos : ~Porta(h, o)
    /\ fitness[o] = 0 => \A h \in Hilos : ~Porta(h, o)

\* In the first generation every organism is in one place: still in the
\* counter, in the hands of one client thread, or evaluated.  None is handed
\* out twice and none is lost on the way.
RepartoUnico == PrimeraFase => \A o \in Posiciones : EnUnSitio(o)

\* The first epoch starts on a population whose every organism has been
\* evaluated, whatever the number of client threads.  (Later epochs may not:
\* see EpocaSinRestantes.)
PrimeraEpocaCompleta ==
    (/\ generacion = 0 /\ pc[Principal] = "aguarda"
     /\ Principal \notin esperando["TodasHebrasEstanListas"])
        => \A o \in Posiciones : fitness[o] = 0

\* With clients that answer, the whole first generation gets evaluated.
PrimeraGeneracionEvaluada == <>(\A o \in Posiciones : fitness[o] = 0)

Abstracto == INSTANCE Generaciones
    WITH pendientes <- {o \in Posiciones : fitness[o] # generacion},
         enEpoca <- EnEpoca

\* With one client the server evaluates every organism of every generation
\* once, and replaces a generation only when it is evaluated whole.
ImplementaGeneraciones == Abstracto!Spec

\* "SE DEBE SACAR UN ORGANISMO DE LOS QUE QUEDEN": no epoch begins while
\* organisms are left that no client thread has taken.
EpocaSinRestantes == [][EmpiezaEpoca => organismosDisponibles = 0]_vars

\* "SE DEBE SACAR UN ORGANISMO DE LOS QUE QUEDEN": while the process lives,
\* organisms that are left are taken.
RestantesSeSacan ==
    (Vivo /\ organismosDisponibles > 0) ~> (organismosDisponibles = 0 \/ ~Vivo)
=============================================================================
