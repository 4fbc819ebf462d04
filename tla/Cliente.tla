------------------------------ MODULE Cliente ------------------------------
(***************************************************************************)
(* The evaluation client, Quadratot.cpp, over the TCP connection to its    *)
(* thread of the server (HiloCliente in quadratotThreads.cpp) and over the *)
(* connection to the simulator V-REP.                                      *)
(*                                                                         *)
(* A stream has no message boundaries.  Here it is a sequence of pieces, a *)
(* message being one piece or, in Partibles, two;  a read takes as many   *)
(* as have arrived.  An answer is always one piece: it is one write of     *)
(* less than 50 bytes into a connection with nothing under way.  A         *)
(* connection is named by the server thread that opened it; of the server  *)
(* only what it does with its sockets is here, its counters and its epoch  *)
(* being those EvalServer details.                                         *)
(*                                                                         *)
(* A fitness is the organism it was computed for, and a position its age:  *)
(* 0 if it is of the last simulation started, 1 if of the one before, and  *)
(* VIEJA if older.                                                         *)
(***************************************************************************)
EXTENDS Integers, Sequences

CONSTANTS
    Hilos,           \* the connections: one server thread and one client each
    POPULATION_MAX,  \* organisms per generation
    MAX_GENERACION,  \* bound: generations the server goes through
    MAX_MEDIDAS,     \* measurements of one simulation (TIME_*, STEP_CALC)
    Partibles,       \* those where TCP may deliver a message in two parts
    Fragiles         \* the clients whose connection to V-REP may be slow or lost

ASSUME ClienteSupuestos ==
    /\ Hilos # {}
    /\ POPULATION_MAX \in Nat \ {0} /\ MAX_GENERACION \in Nat \ {0}
    /\ MAX_MEDIDAS \in Nat \ {0}
    /\ Partibles \subseteq Hilos /\ Fragiles \subseteq Hilos

NADA == -1
BASURA == -2       \* what an uninitialised array holds
VIEJA == 2
Edades == 0 .. VIEJA
CONFIG == <<0, 0>>
FALLIDO == <<0, NADA>>     \* FAILED_FITNESS
Ruido == [de |-> CONFIG, valor |-> CONFIG]
Organismos == (1 .. MAX_GENERACION) \X (0 .. POPULATION_MAX - 1)

Trozos == [de : {CONFIG} \cup Organismos, parte : {"entero", "cabeza", "cola"}]
Enteros(m) == <<[de |-> m, parte |-> "entero"]>>
EnDos(m) == <<[de |-> m, parte |-> "cabeza"], [de |-> m, parte |-> "cola"]>>

\* A text that begins with the whole of message m.
Empieza(texto, m) ==
    \/ texto # <<>> /\ texto[1].de = m /\ texto[1].parte = "entero"
    \/ Len(texto) > 1 /\ texto[1].de = m /\ texto[1].parte = "cabeza"

VARIABLES
    vivo,           \* whether the server's process runs
    leido,          \* whether the descriptor of the configuration is at its end
    sv,             \* hilo -> where its server thread is
    electo,         \* hilo -> position of the organism it sent
    disponibles,    \* organisms of this generation not handed out
    generacion,
    fitness,        \* position -> the answer stored there, if any
    bajada,         \* hilo -> pieces on their way to the client
    subida,         \* hilo -> answers on their way to the server
    avisada,        \* hilo -> whether a write to the closed client was reset
    cl,             \* hilo -> where its client is
    conf,           \* hilo -> contents of the client's hyperneat.txt
    archivo,        \* hilo -> contents of its neat_organism.txt
    OkConnections,  \* hilo -> whether the last creation gave a substrate
    flag,           \* hilo -> false from the first collision on
    valor,          \* hilo -> the fitness Fitness holds
    medida,         \* hilo -> the positions it measured in this simulation
    robot           \* hilo -> its connection to V-REP, with the ages of the
                    \* unanswered requests for a position and of the last reply

servidor == <<vivo, leido, sv, electo, disponibles, generacion, fitness>>
red == <<bajada, subida, avisada>>
cliente == <<cl, conf, archivo, OkConnections, flag, valor, medida, robot>>
vars == <<servidor, red, cliente>>

\* aldia is history: whether what was asked before this simulation was answered
\* before its first measurement
SinMedida == [cuantas |-> 0, inicial |-> NADA]
SinRobot == [conectado |-> FALSE, pedidas |-> {}, buzon |-> NADA, aldia |-> FALSE]

Init ==
    /\ vivo = TRUE /\ leido = FALSE
    /\ sv = [h \in Hilos |-> "conecta"] /\ electo = [h \in Hilos |-> NADA]
    /\ disponibles = POPULATION_MAX /\ generacion = 1
    /\ fitness = [o \in 0 .. POPULATION_MAX - 1 |-> {}]
    /\ bajada = [h \in Hilos |-> <<>>] /\ subida = [h \in Hilos |-> <<>>]
    /\ avisada = [h \in Hilos |-> FALSE]
    /\ cl = [h \in Hilos |-> "configura"]
    /\ conf = [h \in Hilos |-> <<>>] /\ archivo = [h \in Hilos |-> <<>>]
    /\ OkConnections = [h \in Hilos |-> FALSE]
    /\ flag = [h \in Hilos |-> TRUE] /\ valor = [h \in Hilos |-> FALLIDO]
    /\ medida = [h \in Hilos |-> SinMedida]
    /\ robot = [h \in Hilos |-> SinRobot]

-----------------------------------------------------------------------------
(* The server's thread. *)

Cerrado(h) == cl[h] \in {"fin", "caido"}

Escribe(h, m) ==
    \E trozos \in {Enteros(m)} \cup (IF h \in Partibles THEN {EnDos(m)} ELSE {}) :
        bajada' = [bajada EXCEPT ![h] = @ \o trozos]

\* sendfile moves the offset of the descriptor all the threads share.
EnviaConfiguracion(h) ==
    /\ vivo /\ sv[h] = "conecta"
    /\ IF leido THEN UNCHANGED bajada ELSE Escribe(h, CONFIG)
    /\ leido' = TRUE
    /\ sv' = [sv EXCEPT ![h] = "bucle"]
    /\ UNCHANGED <<vivo, electo, disponibles, generacion, fitness, subida,
                   avisada, cliente>>

MutQuedan == disponibles >= 0
Quedan == disponibles > 0

\* The first write to a closed connection may pass; once it was reset, a write
\* raises SIGPIPE, which nobody catches.
SacaOrganismo(h) ==
    /\ vivo /\ sv[h] = "bucle" /\ Quedan
    /\ disponibles' = disponibles - 1
    /\ electo' = [electo EXCEPT ![h] = disponibles - 1]
    /\ sv' = [sv EXCEPT ![h] = "aguarda"]
    /\ \/ /\ ~Cerrado(h)
          /\ Escribe(h, <<generacion, disponibles - 1>>)
          /\ UNCHANGED <<vivo, avisada>>
       \/ /\ Cerrado(h) /\ ~avisada[h]
          /\ avisada' = [avisada EXCEPT ![h] = TRUE]
          /\ UNCHANGED <<vivo, bajada>>
       \/ /\ Cerrado(h)
          /\ vivo' = FALSE
          /\ UNCHANGED <<avisada, bajada>>
    /\ UNCHANGED <<leido, generacion, fitness, subida, cliente>>

\* Nothing done when there is no byte to read.
MutEsperaBytes(h) ==
    /\ vivo /\ sv[h] = "aguarda" /\ subida[h] # <<>>
    /\ fitness' = [fitness EXCEPT ![electo[h]] = {Head(subida[h])}]
    /\ subida' = [subida EXCEPT ![h] = <<>>]
    /\ sv' = [sv EXCEPT ![h] = "bucle"]
    /\ UNCHANGED <<vivo, leido, electo, disponibles, generacion, bajada,
                   avisada, cliente>>

\* poll also reports a closed connection, with no byte to read.
RecibeFitness(h) ==
    /\ vivo /\ sv[h] = "aguarda"
    /\ \/ /\ subida[h] # <<>>
          /\ fitness' = [fitness EXCEPT ![electo[h]] = {Head(subida[h])}]
       \/ /\ subida[h] = <<>> /\ Cerrado(h)
          /\ fitness' = [fitness EXCEPT ![electo[h]] = {Ruido}]
    /\ subida' = [subida EXCEPT ![h] = <<>>]
    /\ sv' = [sv EXCEPT ![h] = "bucle"]
    /\ UNCHANGED <<vivo, leido, electo, disponibles, generacion, bajada,
                   avisada, cliente>>

Duerme(h) ==
    /\ vivo /\ sv[h] = "bucle" /\ ~Quedan
    /\ sv' = [sv EXCEPT ![h] = "duerme"]
    /\ UNCHANGED <<vivo, leido, electo, disponibles, generacion, fitness, red,
                   cliente>>

\* epoch, with every thread asleep (EvalServer shows when it is not so).
Epoca ==
    /\ vivo /\ \A h \in Hilos : sv[h] = "duerme"
    /\ generacion < MAX_GENERACION
    /\ generacion' = generacion + 1
    /\ disponibles' = POPULATION_MAX
    /\ fitness' = [o \in 0 .. POPULATION_MAX - 1 |-> {}]
    /\ sv' = [h \in Hilos |-> "bucle"]
    /\ UNCHANGED <<vivo, leido, electo, red, cliente>>

-----------------------------------------------------------------------------
(* The client. *)

\* recv takes what FIONREAD counted: the pieces that have arrived.
Lee(h, k) ==
    /\ \/ k \in 1 .. Len(bajada[h])
       \/ k = 0 /\ bajada[h] = <<>> /\ ~vivo
    /\ bajada' = [bajada EXCEPT ![h] = SubSeq(@, k + 1, Len(@))]

LeeConfiguracion(h) ==
    /\ cl[h] = "configura"
    /\ \E k \in 0 .. Len(bajada[h]) :
           /\ Lee(h, k)
           /\ conf' = [conf EXCEPT ![h] = SubSeq(bajada[h], 1, k)]
    /\ cl' = [cl EXCEPT ![h] = "inicia"]
    /\ UNCHANGED <<servidor, subida, avisada, archivo, OkConnections, flag,
                   valor, medida, robot>>

\* HyperNeat's constructor runs off the end of a configuration cut short; an
\* organism's text has none of the keys it looks for and leaves no layer.
TieneCapas(h) == Empieza(conf[h], CONFIG)
ConfiguracionRota(h) ==
    conf[h] = <<>> \/ (conf[h][1].de = CONFIG /\ ~TieneCapas(h))

\* any reply will do, also one to an earlier message
MutTrasEsperar(h, r) == {r, [r EXCEPT !.aldia = r.conectado]}

\* A call that waits returns once the reply to its message is in, which leaves
\* nothing sent before unanswered, or when it times out, which is only logged.
TrasEsperar(h, r) ==
    {t \in {r} : h \in Fragiles \/ ~r.conectado} \cup
    IF ~r.conectado THEN {}
    ELSE IF r.pedidas = {} THEN {[r EXCEPT !.aldia = TRUE]}
    ELSE {[r EXCEPT !.aldia = TRUE, !.pedidas = {}, !.buzon = k] :
             k \in {j \in Edades : \A i \in r.pedidas : j <= i}}

\* simStart, the objects and HyperNeat.  The dummy asks for its position when it
\* is made; the handles of the joints and of the collisions are waited for.
Inicia(h) ==
    /\ cl[h] = "inicia"
    /\ \E conectado \in BOOLEAN :
           /\ \E r \in TrasEsperar(h, [robot[h] EXCEPT !.conectado = conectado,
                                   !.pedidas = IF conectado THEN {0} ELSE {}]) :
                  robot' = [robot EXCEPT ![h] = r]
           /\ cl' = [cl EXCEPT ![h] = IF ConfiguracionRota(h) THEN "caido"
                                      ELSE IF conectado THEN "comprueba"
                                      ELSE "fin"]
    /\ UNCHANGED <<servidor, red, conf, archivo, OkConnections, flag, valor,
                   medida>>

\* The test of the loop; when it fails the client closes everything.
CompruebaConexion(h) ==
    /\ cl[h] = "comprueba"
    /\ cl' = [cl EXCEPT ![h] = IF robot[h].conectado THEN "espera" ELSE "fin"]
    /\ UNCHANGED <<servidor, red, conf, archivo, OkConnections, flag, valor,
                   medida, robot>>

LeeOrganismo(h) ==
    /\ cl[h] = "espera"
    /\ \E k \in 0 .. Len(bajada[h]) :
           /\ Lee(h, k)
           /\ archivo' = [archivo EXCEPT ![h] = SubSeq(bajada[h], 1, k)]
    /\ cl' = [cl EXCEPT ![h] = "crea"]
    /\ UNCHANGED <<servidor, subida, avisada, conf, OkConnections, flag,
                   valor, medida, robot>>

Mayor(edad) == IF edad \in {NADA, VIEJA} THEN edad ELSE edad + 1
Envejece(r) == [r EXCEPT !.pedidas = {Mayor(i) : i \in @}, !.buzon = Mayor(@)]

MutLegible(h) == archivo[h] # <<>>
Legible(h) == \E org \in Organismos : Empieza(archivo[h], org)

\* load runs off the end of a text that is no whole organism.  A substrate
\* without layers, without active outputs, or judged by the wrong number of
\* outputs makes creation fail; cppn_neat was never assigned, and reading
\* through it may end the process.  A failure goes on with no answer.
\* simStartSimulation waits.
Crea(h) ==
    /\ cl[h] = "crea"
    /\ medida' = [medida EXCEPT ![h] = SinMedida]
    /\ valor' = [valor EXCEPT ![h] = FALLIDO]
    /\ \/ /\ Legible(h) /\ TieneCapas(h)
          /\ OkConnections' = [OkConnections EXCEPT ![h] = TRUE]
          /\ \E r \in TrasEsperar(h, Envejece(robot[h])) :
                 robot' = [robot EXCEPT ![h] = r]
          /\ cl' = [cl EXCEPT ![h] = "simula"]
       \/ /\ Legible(h)
          /\ OkConnections' = [OkConnections EXCEPT ![h] = FALSE]
          /\ cl' = [cl EXCEPT ![h] = "comprueba"]
          /\ UNCHANGED robot
       \/ /\ ~Legible(h) \/ TieneCapas(h)
          /\ OkConnections' = [OkConnections EXCEPT ![h] = FALSE]
          /\ cl' = [cl EXCEPT ![h] = "caido"]
          /\ UNCHANGED robot
    /\ UNCHANGED <<servidor, red, conf, archivo, flag>>

\* Every STEP_CALC turns: move, look for collisions, measure.  The state of a
\* collision is what a streaming inbox holds, late or never written, so anything.
\* getPosition asks for the position and returns the last reply there is.
Mide(h) ==
    /\ cl[h] = "simula" /\ medida[h].cuantas < MAX_MEDIDAS
    /\ \E choca \in BOOLEAN : flag' = [flag EXCEPT ![h] = @ /\ ~choca]
    /\ LET leida == IF robot[h].buzon = NADA THEN BASURA ELSE robot[h].buzon
       IN  medida' = [medida EXCEPT ![h] =
               [cuantas |-> @.cuantas + 1,
                inicial |-> IF @.cuantas = 0 THEN leida ELSE @.inicial]]
    /\ robot' = [robot EXCEPT ![h].pedidas =
           IF robot[h].conectado THEN @ \cup {0} ELSE @]
    /\ UNCHANGED <<servidor, red, cl, conf, archivo, OkConnections, valor>>

\* calcFitness, skipped after a collision, fails if no joint changed direction.
Calculo(h, gira) ==
    IF ~flag[h] THEN valor[h] ELSE IF gira THEN archivo[h][1].de ELSE FALLIDO

Respuesta(h) == [de |-> archivo[h][1].de, valor |-> valor'[h]]

\* The answer inside the test of the flag.
MutResponde(h) ==
    /\ cl[h] = "simula" /\ medida[h].cuantas = MAX_MEDIDAS
    /\ \E r \in TrasEsperar(h, [robot[h] EXCEPT !.aldia = FALSE]) :
           robot' = [robot EXCEPT ![h] = r]
    /\ \E gira \in BOOLEAN : valor' = [valor EXCEPT ![h] = Calculo(h, gira)]
    /\ subida' = [subida EXCEPT ![h] = IF flag[h] THEN Append(@, Respuesta(h)) ELSE @]
    /\ cl' = [cl EXCEPT ![h] = "comprueba"]
    /\ UNCHANGED <<servidor, bajada, avisada, conf, archivo, OkConnections,
                   flag, medida>>

\* simStopSimulation waits; then the fitness is computed and sent.
Responde(h) ==
    /\ cl[h] = "simula" /\ medida[h].cuantas = MAX_MEDIDAS
    /\ \E r \in TrasEsperar(h, [robot[h] EXCEPT !.aldia = FALSE]) :
           robot' = [robot EXCEPT ![h] = r]
    /\ \E gira \in BOOLEAN : valor' = [valor EXCEPT ![h] = Calculo(h, gira)]
    /\ subida' = [subida EXCEPT ![h] = Append(@, Respuesta(h))]
    /\ cl' = [cl EXCEPT ![h] = "comprueba"]
    /\ UNCHANGED <<servidor, bajada, avisada, conf, archivo, OkConnections,
                   flag, medida>>

-----------------------------------------------------------------------------
(* The simulator, as the client sees it. *)

\* One message answers the requests up to one of age j.
LlegaPosicion(h) ==
    \E j \in robot[h].pedidas :
        /\ \E k \in {i \in 0 .. j : i <= robot[h].buzon \/ robot[h].buzon = NADA} :
               robot' = [robot EXCEPT ![h] =
                  [@ EXCEPT !.pedidas = {i \in robot[h].pedidas : i < j}, !.buzon = k]]
        /\ UNCHANGED <<servidor, red, cl, conf, archivo, OkConnections, flag,
                       valor, medida>>

\* simxStart was told not to reconnect; the inbox is emptied.
PierdeSimulador(h) ==
    /\ h \in Fragiles /\ robot[h].conectado
    /\ robot' = [robot EXCEPT ![h] =
           [@ EXCEPT !.conectado = FALSE, !.pedidas = {}, !.buzon = NADA]]
    /\ UNCHANGED <<servidor, red, cl, conf, archivo, OkConnections, flag,
                   valor, medida>>

HiloServidor(h) ==
    \/ EnviaConfiguracion(h) \/ SacaOrganismo(h) \/ RecibeFitness(h)
    \/ Duerme(h)

ProcesoCliente(h) ==
    \/ LeeConfiguracion(h) \/ Inicia(h) \/ CompruebaConexion(h)
    \/ LeeOrganismo(h) \/ Crea(h) \/ Mide(h) \/ Responde(h)

Next ==
    \/ Epoca
    \/ \E h \in Hilos : \/ HiloServidor(h) \/ ProcesoCliente(h)
                        \/ LlegaPosicion(h) \/ PierdeSimulador(h)

\* The threads and the processes are scheduled; nothing is asked of V-REP.
Equidad == \A h \in Hilos : WF_vars(HiloServidor(h)) /\ WF_vars(ProcesoCliente(h))

Spec == Init /\ [][Next]_vars
SpecJusta == Spec /\ Equidad

-----------------------------------------------------------------------------
Posiciones == 0 .. POPULATION_MAX - 1
Valores == {FALLIDO} \cup Organismos
Respuestas == [de : Organismos, valor : Valores]

\* Every variable has its type.
TypeOK ==
    /\ vivo \in BOOLEAN /\ leido \in BOOLEAN
    /\ sv \in [Hilos -> {"conecta", "bucle", "aguarda", "duerme"}]
    /\ electo \in [Hilos -> Posiciones \cup {NADA}]
    /\ disponibles \in 0 .. POPULATION_MAX
    /\ generacion \in 1 .. MAX_GENERACION
    /\ fitness \in [Posiciones -> SUBSET (Respuestas \cup {Ruido})]
    /\ bajada \in [Hilos -> Seq(Trozos)] /\ subida \in [Hilos -> Seq(Respuestas)]
    /\ avisada \in [Hilos -> BOOLEAN]
    /\ cl \in [Hilos -> {"configura", "inicia", "comprueba", "espera", "crea",
                         "simula", "fin", "caido"}]
    /\ conf \in [Hilos -> Seq(Trozos)] /\ archivo \in [Hilos -> Seq(Trozos)]
    /\ OkConnections \in [Hilos -> BOOLEAN]
    /\ flag \in [Hilos -> BOOLEAN] /\ valor \in [Hilos -> Valores]
    /\ medida \in [Hilos -> [cuantas : 0 .. MAX_MEDIDAS, inicial : Edades \cup {NADA, BASURA}]]
    /\ robot \in [Hilos -> [conectado : BOOLEAN, pedidas : SUBSET Edades,
                            buzon : Edades \cup {NADA}, aldia : BOOLEAN]]

\* The organism thread h sent last.
Pendiente(h) == <<generacion, electo[h]>>

\* What is answered for an organism is its own fitness, or that it failed.
Propia(r) == r.valor \in {FALLIDO, r.de}

\* Although the streams have no boundaries and the client may be cut off, an
\* answer on its way is alone, its thread waits for it, and it was computed from
\* the organism that thread will store it for; so is every fitness stored that is
\* not the noise a closed connection leaves.  An organism that collided, or whose
\* joints never turned, is answered as failed and not with an earlier fitness.
RespuestaEsperada ==
    /\ \A h \in Hilos : subida[h] # <<>> =>
           /\ Len(subida[h]) = 1
           /\ sv[h] = "aguarda"
           /\ subida[h][1].de = Pendiente(h) /\ Propia(subida[h][1])
    /\ \A o \in Posiciones : \A r \in fitness[o] :
           r = Ruido \/ (r.de = <<generacion, o>> /\ Propia(r))

\* Where a distance starts.  The position is asked for and read at once, so the
\* first one is an older reply; but if the stop of the simulation before or the
\* start of this one was answered before it timed out, the reply is at most one
\* simulation old, and there is one unless the connection was lost.
DistanciaReciente ==
    \A h \in Hilos :
        cl[h] = "simula" /\ medida[h].cuantas > 0 /\ robot[h].aldia =>
            \/ medida[h].inicial \in {0, 1}
            \/ medida[h].inicial = BASURA /\ ~robot[h].conectado

\* Both ends wait and there is nothing to wait for.
Detenido(h) ==
    /\ sv[h] = "aguarda" /\ cl[h] \in {"espera", "configura"}
    /\ bajada[h] = <<>> /\ subida[h] = <<>>

\* Client and thread wait for each other only over an organism that could not be
\* created, or that was read as part of the configuration file.
BloqueoExplicado ==
    \A h \in Hilos : Detenido(h) =>
        \/ ~OkConnections[h] /\ Empieza(archivo[h], Pendiente(h))
        \/ \E i \in 1 .. Len(conf[h]) : conf[h][i].de = Pendiente(h)

\* A thread that has sent an organism stores something for it, unless it is left
\* waiting in vain or its process ends.
EvaluacionTermina ==
    \A h \in Hilos :
        sv[h] = "aguarda" ~> (sv[h] # "aguarda" \/ Detenido(h) \/ ~vivo)

=============================================================================
