# TareasElo330: verification project

TLA+ models, TLC runs and TLAPS proofs for the programs of this repository: a
UDP delay-and-loss emulator (`tarea3`), a distributed evaluation server for
neuro-evolved robot controllers (`proyecto/experiment/server`), the NEAT and
HyperNEAT libraries it trains with, and some smaller tools.

## 1. Inventory

| part | source | state | operations | model |
|---|---|---|---|---|
| evaluation server | `proyecto/experiment/server/quadratotThreads.cpp` | five mutexes, three condition variables, `neatIsReady`, `organismosDisponibles`, `cantidadHebrasListas`, `poblacion`, the shared descriptor of the configuration file | one `HiloCliente` thread per client; `creacionNEAT` in the main thread | `EvalServer` |
| UDP emulator | `tarea3/src/erp_udp.c` | two data pipes, two time pipes, three mutexes, two condition variables, the client's address | four threads: two `entradaDatosDesde...`, two `salidaDatosHacia...` | `ErpUdp` |
| evaluation client | `proyecto/Programs/TestQuadratot_neatOrganism`, `Programs/Quadratot` | socket, organism and configuration files, simulation state, `flag` | receive, build the substrate, simulate, answer | `Cliente` |
| NEAT population | `proyecto/NEAT/src/NEAT.cpp` | organisms, niches, registries of innovations, nodes and rows | mutation, crossover; speciation, `epoch` | `Innovacion`; `Epoca` |
| NEAT genome | `proyecto/NEAT/src/genetic_encoding.cpp` | node and connection genes, row order | `add_node`, `add_connection`; load, save, `eval` | `Innovacion`; `Carga` |
| NEAT draws | `discrete_probabilities.cpp`, `random_function.cpp` | weights left | draw by weight, draw evenly | inside `Epoca` |
| HyperNEAT substrate | `proyecto/HyperNeat/src` | spatial nodes and their inputs, champion | create connections, evaluate, evolve, print | `Sustrato` |
| robot simulator | `RobotLIB/robotSimulator`, `RobotLIB/objects`, `RobotLIB/remoteApi/extApi.c` | outgoing message, inbox, two mutexes, connection | calls of the robot's objects; the communication thread | `Remoto` |
| real robot | `RobotLIB/robotCM700` | packet buffers, actuator table | `serial_read`, `refresh`, `moveAll` | not modelled |
| audio smoothing | `tarea2/src/csa.c` | arrays of samples | saturate, smooth | not modelled |
| renamer | `tarea1/fn2u` | a directory tree | rename, recurse | not modelled |
| examples, scenes, MATLAB, generated docs | | | | not modelled: third party or data |

How they interact.  The server's threads share memory, and each talks to one
client over a TCP stream: the configuration file once, then one organism out
and one fitness back at a time.  The client loads the organism, lets HyperNEAT
rewire its substrate with it, and drives the simulator with the substrate's
outputs through the remote API, whose communication thread shares two buffers
with the calls.  The main thread of the server turns fitness into the next
generation through NEAT's `epoch`.  The emulator is a separate program; its
four threads share memory, two by two.

What is hard.  In the server: condition variables signalled under one mutex and
waited for under another, waits without a loop or a predicate, a counter
assigned without its mutex, a vector rebuilt while others index it.  Between
server and client: messages without a length on a stream, a client that leaves
or cannot answer, a simulator that is lost, replies read before they arrive.
In the remote API: an inbox where old replies stay, an outgoing message two
threads write, a pause that is a mutex held between calls.  In the emulator:
two pipes that must stay in step, locks held during a sleep and during writes
that may block, arithmetic on times with a remainder by a difference.  In NEAT:
registries shared by all genomes, where a number handed out once must mean the
same structure for ever; species that are positions in a vector which is
replaced; tables indexed by numbers that have gaps.

What makes each part correct.  The server hands out every organism once and
evaluates all of them before each epoch, and never stops; an answer belongs to
the organism it is stored for, and a distance to the simulation it is measured in; a
remote call that waits gets its own reply and no order is lost; the emulator
forwards in order, delays within the announced range, never blocks and never
mixes two clients' addresses; NEAT never gives one number to two structures,
its species partition the population and a genome that travels is the same
network; the substrate has exactly the connections of the last organism.

## 2. Modules

* `EvalServer` - the server: every statement that touches shared state is an
  action of a client thread or of the main thread.
* `Generaciones` - what the server promises: organisms of a generation are
  evaluated one by one, an epoch starts when all are, the next generation
  follows.
* `EvalServerProofs` - theorems about `EvalServer`.
* `MCEvalServer` - its instances for TLC.
* `ErpUdp` - the emulator, both directions and their shared client address.
* `ErpUdpProofs` - theorems about `ErpUdp`.
* `MCErpUdp` - its instances for TLC.
* `Innovacion` - NEAT's registries and the genomes that grow from them by
  mutation, crossover and selection, epoch after epoch.
* `Registro` - what a registry promises: a structure keeps the number it was
  given, and no number is given to two.
* `Carga` - extends `Innovacion`: its genomes written down, loaded elsewhere and
  evaluated.
* `InnovacionProofs` - theorems about `Innovacion` and `Carga`.
* `MCInnovacion` - the instance of both for TLC.
* `Epoca` - species, selection and births of NEAT's `epoch`.
* `Sustrato` - HyperNEAT's substrate, rewired by one organism after the other.
* `Cliente` - the evaluation client between its thread of the server and the
  simulator.
* `Remoto` - the remote API: the calling thread, the communication thread and the
  buffers between them.
* `EpocaProofs`, `SustratoProofs`, `ClienteProofs`, `RemotoProofs` - theorems about
  the modules they are named after.
* `Ordenes` - lemmas about finite sets with a total order, for the proofs.
* `MCEpoca`, `MCSustrato`, `MCCliente`, `MCRemoto` - their instances for TLC.

Where two modules meet.  `Cliente` takes from the server what one thread does with
its socket; when threads may sleep and what `epoch` waits for is `EvalServer`'s.
`Cliente` takes from `Remoto` that a call which waits sees what was asked before it,
or times out, and one which does not may read an old reply, and from `Sustrato` that a creation
that fails leaves `OkConnections` false.  `Epoca` takes genomes as points; what
mutation and crossover do to them is `Innovacion`'s, which in turn lets any set of
organisms survive.  `Carga` is evaluated in every state of `Innovacion`.

### EvalServer and the code

`pc[h]` is the place of client thread `h`: `conecta` .. `sincroniza` are lines
244-287, `compruebaNEAT` and `esperaNEAT` 288-291, `bucle` 296, `consulta` the
test at 297 with the read of 299, `decrementa` the write of 299, `elige` 300,
`envia` 303-308, `evalua` 313-323, `cuenta` and `incrementa` 328-333, `duerme`
and `espera` 335, `descuenta` and `decrementaCantidad` 338-340.  The main thread
goes through `construye` (354), `llena` (356), `publica` and `difundeNEAT`
(359-362), `generacion` (365-366), `aguarda` (367), `enEpoca` (369), `rellena`
(370), `difunde` (371) and `fin`.

A mutex is its owner and a condition variable the set of threads that wait; a
signal with no waiter leaves no trace, and `RetornoEspurio` lets a wait return
unsignalled.  `--organismosDisponibles` is a read and a write, because the main
thread assigns the same variable without the mutex.  While `epoch()` runs a
thread that indexes the vector meets the old organism, the new one, or an
uncaught exception (`Aborta`).  An organism is its position; what it sent and
what its fitness stands for is the number of its generation, so a fitness stored
for the wrong generation is seen.  `mutex_Inutil` is only ever locked by the main
thread and is left out.  The parsing of the arguments is the constant `Hilos`.
The client is an environment that answers what it is sent.

### ErpUdp and the code

Each direction has `entrada` and `salida`, the places of its two threads.  A
datagram is its arrival number; `datos` and `tiempos` hold the numbers whose bytes
and whose timestamp each pipe holds, so the two being out of step shows.
`EscribeDatos` and `AnotaTiempo` are the two `write`s (171-174), each blocked by a
full pipe with the mutex held; an empty datagram, or a failed `recvfrom`, writes
only its time (`HayVacios`).  `Sondea` is `poll` and `pthread_cond_wait` (242-268),
`LeeDatos` takes all the bytes and `LeeTiempo` one timestamp (246-248).
`t1`, `t2` and `Siestas` are the delay formula: the remainder of a negative
divisor is not negative, and a zero divisor ends the process.  `Sortea` is the
loss draw over `rand()%101`.  The clock `ahora` advances freely up to MAX_TIEMPO
and beyond it only while a thread sleeps.  Left out: the address `recvfrom`
leaves in `datosComunicacionRemoto`, SIGINT, the failures of `poll` and `bind`.

### Innovacion and the code

A genome is a record: `nodos` maps its nodes to their rows, `conex` its innovation
numbers to their genes, `filas` is its own `row_orderer_list`.  In the code they are
vectors padded with entries whose `exist` is false; here those are outside the
domain.  The three registries are partial functions, `-1` being absence.  `organisms`
and `prev_organisms` are the sets of their genomes and `nacidos` the length of
`organisms`; `hijo` is the genome `epoch_reproduce` works on and `paso` where it is:
`elige` (1418-1420 and 1448-1489), `nodo` (1496), `conexion` (1499), `aborta` after an
`exit(1)`.  Between two births `hijo` is the loaded genome.

`MutacionNodo` asks `historical_nodes` for the node of every enabled gene before one
is drawn, as 211-224 do, and `MutacionConexion` asks `historical_innovation` for every
pair of the genome's nodes (524-547): both go through `Numera`, which numbers the
unknown pairs of a set in the order of the loop.  `ObtenFila` is `obtain_row`: the
registered row; the same row for two nodes of one row, which is not registered; a new
row between neighbours; the neighbour's row otherwise.  `Cruce` is `crossover`, whose
draws are the sets `genesMadre`, `nodosMadre` and `rehabilitados`.  `ComienzaEpoca`
keeps any non-empty set of organisms, which contains what the means of the niches
allow, and `Cruza` mates any two survivors.  `mutation_change_weight` and the early
return of 1460 leave nodes and genes alone, so `MutacionPesos` followed by `SinNodo`
and `SinConexion` stands for them.

The model shows one thing no document speaks of: a connection that goes back between
neighbouring rows puts its new row before the row of the output (297), so the row of
the inputs can lose the first place, and `eval`, which loads its inputs on the first
row and runs the others (844), then runs the inputs' row as well.

### Carga and the code

`Carga(g)` is `load` after `JSON`: the rows with nodes, the nodes and the genes
numbered again from 0.  The text between them is left out, and with it weights and
functions, which travel beside their gene and their node.  `Cargable` is what
`load`'s tables need: they have one place per row and per entry, and `at()` throws
beyond.  `MismaRed` compares what `eval` would run: `FilasEvaluadas` row after row,
`Recibe` the enabled genes into a node in their order, `Pasada` those that bring the
value of the evaluation before, by `Inversa`.  `Siembra` is what `InnovacionSupuestos`
asks of a genome a population starts from, so an evolution can go on from any of them.

### Epoca and the code

`organisms` and `prev_organisms` are sequences, an organism being a point, its fitness
and its niche; species are sets of positions, into `organisms` until the selection and
into `prev_organisms` after it.  `paso` is the place: `especies` and `reparte` are the
two loops of `spatiation`, `evalua` the caller, `epoch` the selection, `nacen`,
`reproduce` and `cruza` the births, `aborta` after an `exit` or a division by zero.
`Traspasa` draws the representatives from the last generation; `Ubica` puts one
organism in any species near it (the code tries them in a random order, `Afines`);
`CierraEspecies` drops those nobody joined.  Two genomes are compatible when
`Cercanos` says so, a relation with nothing asked of it but being reflexive.
Fitness is a rank and a mean any cut the values allow (`Medias`): above the lowest and
not above the highest.  From NREDONDEO equal values on, the mean as computed may round
above all of them.  The field `exist` of a species made by the selection is whatever
memory held, `basura`.

`Sorteo` is `obtain_uniformrandom_element`, whose quotients are added up and compared with
`rand()/RAND_MAX`: usually an entry that weighs something; the first one if `rand()` is 0;
and nobody, which is `exit(1)`, if all weigh nothing (0.0/0.0 compares with nothing), or
if `rand()` is RAND_MAX and the sum of several quotients rounds below 1.0.  The quotient
of a single one that weighs is exactly 1.0.  `Azares` is what `rand()` may return; a draw
that finds nobody and a mother drawn from an empty species (`rand()%0`) lead to `aborta`.

Two histories say what the arithmetic did: `redondeadas`, the species whose mean rounded
above all their fitness (0.1 added up three times and divided by three is above 0.1), and
`azar`, what the failing draw was given.  `AbortoExplicado` names with them every way an
epoch can end the process.  The rounding also loses the best organism of the species, so
`CampeonEsElMejor` lasts until it first happens.

### Sustrato and the code

The nodes of the substrate stay; `inputs_nodes` is who is an input of whom and how
often, `active` and `output` are each node's.  `Crea` is the head of
`CreateSubstrateConnections` (the size test against the champion, whatever organism is
asked for), `ConectaCapa` one turn of its loop over layers, `TerminaCrea` the search
for an active output.  Which pairs are connected is chosen freely for each creation,
for the CPPN keeps past values and need not answer the same twice.  `Evalua`,
`EvaluaCapa`, `TerminaEvalua` are the evaluation, `HyperNeatFitness` and
`HyperNeatEvolve` what may change the champion, `Imprime` the printed functions, which
are written after a creation that may have failed.  A value is the set of the inputs
it was computed from, each with its evaluation, so a value of another evaluation or of
another organism shows.

### Cliente and the code

`sv[h]` and `cl[h]` are the places of a thread of the server and of its client.
`EnviaConfiguracion` is 274, with the descriptor all threads share; `SacaOrganismo`
299-308, `RecibeFitness` 313-323 of `quadratotThreads.cpp`.  Of the client
(`Quadratot.cpp`) `LeeConfiguracion`, `Inicia`, `CompruebaConexion`, `LeeOrganismo`,
`Crea`, `Mide` and `Responde` follow `main` from top to bottom.

A stream is a sequence of pieces, a message being one or two of them, and a read takes
any number of those that have arrived.  The texts have no length and the buffer no
terminating zero; what a parser makes of one is abstracted to the message it begins
with (`Empieza`), and a parser that finds none runs off its end: the client is
`caido`.  Organisms and configurations come in parts; an answer does not, because it is
one `write` of less than 50 bytes (226-228) on a connection with nothing else under way.
The server would read a part of one, `FIONREAD` counting what is there, but TCP has no
reason to cut so short a segment.

`robot[h]` is what `Remoto` leaves of the simulator: whether it is connected, the ages of
the requests for a position that are not answered, and the age of the reply the inbox
holds; the start of a simulation makes both one older (`Envejece`).  `TrasEsperar` is the
end of a call that waits (`_waitUntilMessageArrived`): its reply is in, and with it those to
everything sent before, or it timed out, which `RobotSimulator` only logs and which only
happens to the clients of `Fragiles`, or nobody is connected.  `aldia` is history: whether
the stop of the simulation before or the start of this one was answered.  A position read
from an empty inbox is noise, `BASURA`.  Collisions are read from a streaming inbox
(`CollisionObject.cpp`, 18 and 53), late, early or never written, so their state is any
and `flag` may miss one.  `valor` is the fitness object's: FAILED_FITNESS when an organism
begins, computed after its simulation unless a collision was seen (`Calculo`).

The server writing to a client that left is stopped by SIGPIPE the second time
(`vivo`, 308).

### Remoto and the code

`us` is the place of the thread that calls: `Consulta` to `Recoge` and `Retira` are
`_exec_int` and its like, `aguarda` its wait; `Ordena` the calls that set a value,
`Pausa` `simxPauseCommunication`, `Finaliza` to `Une` `simxFinish`.  `comm` is the
communication thread: `Revisa` and `Gira` its wait for a reply to be read, `Bloquea`
`lockSendStart`, `Envia` and `Recibe` the two halves of an exchange, `Vacia` what it
does when disconnected, `Sale` its end, announced through the flag it was asked with.
The resource mutex makes each of these a single step; the mutex of the pause has an
owner, `dueno`, because it is held between calls.  `camino` is the message on its way
or its reply; `Atiende` is the simulator, `Rompe` the loss of the connection.  A
message is its number, the queries and the values in it; the inbox keeps for each
query the number of the message its last reply came with.

## 3. Runs

| run | instance | what it shows |
|---|---|---|
| `evalserver` | 2 clients, 2 organisms, 3 generations, one spurious return of `HayOrganismosNuevos` | types; exact count of ready threads; each organism of the first generation handed out and evaluated once, all before the first epoch, and it is reached; the main thread is never signalled while somebody works |
| `evalserver_uno` | 1 client, 3 organisms, 3 generations | the server implements `Generaciones` |
| `evalserver_epoca` | 2 clients, 1 organism, 3 generations | violated: an epoch over organisms nobody was given |
| `evalserver_perdida` | 1 client, fair | violated: a lost broadcast stops the server with organisms left |
| `erp_udp` | 2 datagrams from 2 clients, 1 from the server, empty ones included | types; no lost wakeup; the timestamp is always there; delays never come from a later datagram; order kept, nothing twice; the address is whole; every datagram is taken out |
| `erp_retardo` | the readme's 5 s, 4 s and 15 % with one second as unit | violated: a datagram forwarded less than 1 s after it arrived |
| `innovacion` | one input, two outputs; 2 organisms, 2 epochs | types; genes homologous in all genomes; both nodes of every gene present; rows in agreement, in one order, outputs on the last; `mutation_node` never exits; every organism loads as the same network; both registries implement `Registro` |
| `epoca` | 3 organisms among 3 points of a line, fitness 0.0 or more, 2 epochs, means that round, `rand()` at both ends | types; species partition each generation and its survivors; while sorted they are told apart by their representatives; the champion is the best ever until a mean rounds above its species; the three ways an epoch ends the process |
| `sustrato` | 5 nodes on 3 layers, an input among the hidden ones; 2 outputs of the CPPN; 2 evaluations | types; the connections are those of the last organism; an output is of this evaluation; the printed functions are the champion's |
| `sustrato_salidas` | the same | violated: a hidden node counted as an output stops every creation |
| `cliente` | 2 clients, one with a slow simulator it may lose and organisms that may come in two parts; 2 organisms, 2 generations | types; answers belong to the organism they are stored for, with its fitness or that it failed; how old the start of a distance is; the only two ways client and thread wait for each other; everything else is answered |
| `remoto` | 1 query, 2 joints with 2 values each, 2 messages before the connection is lost | types; a call that waits gets its own reply; the last value is never lost; a pause keeps its orders together; `simxFinish` ends its thread |

Bounds.  Two client threads are what the races of the server need: one that has
finished and one that has not, or two that want the same organism; with two
organisms a thread can hold one while another is left.  Three generations let a
thread carry state of the first into the third.  The third epoch matters: the
premature epoch needs the main thread to be waiting again while a woken thread
is still counted.  The refinement run has one client because with two the
abstract loop is not implemented: `evalserver_epoca` shows the way.  Spurious
returns are limited to one, and in the runs to `HayOrganismosNuevos`: those of
`NEAT_OK` and `TodasHebrasEstanListas` break `PrimeraEpocaCompleta` by
construction, since the code tests with an `if` or not at all.  The theorems say the
same for any number: `PrimeraEpocaCompleta` is proved when only waits for
`HayOrganismosNuevos` return unsignalled, and `CuentaExacta`, `SenalSinTrabajo` and
`RepartoUnico` whichever do.

In the emulator two datagrams in one direction are what it takes to merge two in
one read and to leave a surplus timestamp, and one in the other direction reads
the client's address while it is being copied.  Pipes of two datagrams stand for
pipes of 64 KiB, which hold 4096 timestamps, and are not filled: `Distribuye` is
what a full one breaks, for the time pipe gains one timestamp with every merged or
empty datagram and its writer then blocks with the mutex held.

In `innovacion` two outputs on one row are what it takes to split a connection inside
a row, and two epochs to cross two genomes that were mutated apart and to mutate what
came out.  A second epoch of births adds up to four splits and four new connections.
MAX_NODO (no split once 8 nodes are numbered) and MAX_GENES (no new connection for a
genome of 4) only bound growth; a split adds its two genes whatever the genome has.
In `epoca` three points on a line are the least where being near is not transitive,
so where the order of the species matters; three organisms make a species of two
beside one of one; the second epoch inherits species that the first selection
renumbered.  Two ranks of fitness are the value 0.0 and one that weighs; NREDONDEO is 2 so
that a species of two equal organisms may round as in the code one of three does (0.1
three times), and a draw from two may fall short of 1.0; `Azares` has the two ends of
`rand()`, what is between them allowing nothing they do not.  In `sustrato` three
layers let a value pass through a layer, and an input on the hidden layer is the node
that creation clears but may not connect.

In `cliente` a second client is the one whose configuration was already sent, and a
second organism what can be read together with the configuration or with the first;
one measurement per simulation is enough for the first to be the one that counts, and
a second generation for an answer to be stored for an organism that is no more.  One
client has all the trouble a connection can give (`Partibles`, `Fragiles`) and the other
none, so each is seen beside the other; four organisms make the reply to one simulation
reach the third (`VIEJA`).  In
`remoto` two messages are a reply and the one before it, two values one that replaces
another, two joints a pause with something to separate; MAX_MENSAJES says by which
message the connection is lost at the latest, and it may be lost at any moment before.

Fairness.  Every thread that can take a step eventually does (weak fairness of
each thread).  For mutexes this is enough because in the instances arrivals and
generations are finite, so that no thread can lock and unlock for ever in front
of another; with unbounded arrivals POSIX promises nothing.  In the server the
fairness of a thread at `evalua` also says that its client answers.  Spurious
returns and arrivals have no fairness.  `erp_udp` checks liveness with the clock
fair as well: a sleep ends.  In `cliente` the server's threads and the clients'
processes are fair and nothing is asked of the simulator, which may never answer; that
is why `EvaluacionTermina` names the ways of waiting in vain.  In `remoto` both threads
are fair and, while connected, the simulator answers what it is sent, which is what the
code relies on ("the server always replies!", `extApi.c`); the connection may be lost
and need not be.

`CHECK_DEADLOCK FALSE` everywhere: `main` of the server returns after its last
generation, the emulator waits for datagrams that need not come, both may end
by an uncaught error; an evolution stops after its last epoch, a client after its
simulator or its server, and a program after `simxFinish`.

What else the models show.  In `Cliente`: the server's thread keeps waiting for an
organism its client could not build (150) or read together with the configuration;
the second client gets no configuration (274) and takes its first organism for it;
one collision fails every organism after it (194); the first position of a simulation
is a reply to an earlier request, of the simulation before if the calls between the two
were answered in time and of any older one if not; a client that left stores noise as a
fitness (317) and stops the server at the second organism written to it.
`BloqueoExplicado`, `DistanciaReciente` and `RespuestaEsperada` say exactly how far each
of these goes.  In `Epoca`: an epoch can end the process, as `AbortoExplicado` says.

What no property catches.  Once an epoch has begun with organisms left
(`evalserver_epoca`), several clients can lose the refill of line 370, meet the vector
`epoch()` rebuilds, or store a fitness for an organism of the next generation: the model
has these steps, but what the properties exclude is that they happen in the first
generation, or ever with one client.  A full pipe of the emulator and a collision that is
missed are not excluded either.  PROJECT.json says it of each hazard.

## 4. Proofs

Every invariant of the passing runs, every action property and both refinements are
theorems, for every value of the constants that the modules' assumptions allow.  The
assumptions are those of the code: in `ServidorSupuestos`, finite non-empty `Hilos`
and at least one organism; in `ErpSupuestos`, pipes that hold something, any delays and
any loss; in `InnovacionSupuestos`, what `load` leaves, a genome with distinct
connections between its nodes, at least one of them enabled; in `EpocaSupuestos`, that
a genome is near itself; in `SustratoSupuestos`, that each node has a layer and a kind;
in `ClienteSupuestos`, that there are a client and an organism; in `RemotoSupuestos`,
that a query is not an order.  Two theorems ask for more, `PrimeraEpocaCorrecta` and
`UnClienteImplementa`, and say so in their statements.

`EvalServerProofs`
* `TiposCorrectos` - `TypeOK`.  Inductive with `Reserva`: a thread between the two
  halves of `--organismosDisponibles` read a count above zero, so the counter
  cannot go negative.
* `CuentaCorrecta` - `CuentaExacta`, inductive by itself: each increment and
  decrement moves exactly one thread in or out of `Contadas`.
* `SenalCorrecta` - `SenalSinTrabajo`: when the count reaches the number of
  threads, `CuentaExacta` puts all others in `Contadas`, and nobody there holds an
  organism.
* `RepartoCorrecto` - `RepartoUnico`.  The invariant `IReparto` adds who owns
  `mutex_ObtenerOrganismo`, that a thread inside the section read the counter as
  it is, and what holds before and after the first generation; it is needed because
  between the read and the write of 299 an organism is in nobody's hands.
* `PrimeraEpocaCorrecta` - `PrimeraEpocaCompleta`, if no wait for `NEAT_OK` or
  `TodasHebrasEstanListas` returns unsignalled.  `Puerta` keeps every thread before
  its loop until the counter has been filled, so nobody finds it empty too early, and
  `Agotado` says that a thread which has found no organism is right while the first
  generation lasts.  When the last thread is counted, then, the counter is empty and
  nobody holds an organism (`CuentaExacta`), which by `RepartoUnico` leaves them all
  evaluated.
* `UnClienteImplementa` - `ImplementaGeneraciones`, with one client and no unsignalled
  return.  The invariant `Uno` is that the two threads take turns (`Turno`): the main
  thread is in an epoch only while the client thread is about to wait or waits for
  `HayOrganismosNuevos`; a signal lost between the two leaves both waiting, which is
  what `evalserver_perdida` shows and a refinement allows.  With the turns, the local
  `organismoElecto` is the shared counter (`EnMano`), and what is neither in the
  counter nor in the client's hands is evaluated (`Evaluados`), in every generation.
  Storing an answer is then `Evalua`, the two ends of the epoch are those of
  `Generaciones`, and every other step is a stutter, `Aborta` included.

`ErpUdpProofs`
* `TiposCorrectos` - `TypeOK`, with `LlegadaSellada`: a thread that writes has read
  the clock for what it writes.
* `AvisoCorrecto`, `TiempoCorrecto`, `SelloCorrecto` - from one invariant on the
  two pipes of a direction, `TuboDe`, over the ownership of the mutexes,
  `Candado`: whenever the data pipe holds something the time pipe does too, unless
  the writer is between its two writes; and the oldest timestamp is never newer
  than the oldest bytes.
* `OrdenCorrecto` - `EnOrden`, from `Orden`: what was forwarded, what the sender holds
  and what the data pipe holds go up, each after the one before, and a datagram that
  waits to be written is newer than all of it.  It uses the mutexes' ownership again,
  for the sender reads the pipe in one piece only because nobody writes meanwhile.
* `DireccionCorrecta` - `DireccionEntera`, from `CandadoDireccion` and
  `DireccionInv`: outside the copy, which excludes the sender, the address is whole.

`InnovacionProofs`
* `NumeraCorrecta` - what a registry is after the pairs of a finite set were asked
  for in a total order, over `Posiciones`: in such an order each element has a place
  of its own below the cardinality.
* `GenesSiempreConformes`, `ExtremosSiemprePresentes` - from `InvGenes`: the registries
  are injective and below their counters, and each gene of each genome is filed under
  the number registered for its own pair, between nodes the genome has.  One lemma per
  way of making a genome (`AgregaBien`, `DeshabilitaBien`, `CruceBien`), and
  `HomologoCrece`: what was right stays right when the registries grow.
* `RegistroCorrecto` - `ImplementaRegistro`: every step is a step of `Registro`, or
  none, for each of the two registries.
* `FilasSiempreEnOrden` - `OrdenDeFilas`, from `InvFilas`.  The order of the rows is a
  permutation that ends with the outputs' (`OrdenBien`) and a genome's own order agrees
  with it (`FilasBien`).  That two genomes put a node on one row (`Coinciden`) is not
  inductive by itself, for a node between two of one row is not registered with its
  row: `Desciende` adds that such a node still has those two beside it, so their common
  row is its row in every genome.
* `NoSeAborta` - `NuncaAborta`.  `Activo` says why a gene is disabled: it was loaded so,
  or its split node is in the genome.  Nodes are numbered after those they stand
  between, so the gene into the newest node cannot have been split.
* `TiposCorrectos` - `TypeOK`, from all of these.
* `LaCargaEsFiel` - `CargaFiel`.  `Sano` is what the invariants say of one genome, with
  `Iniciales`: nobody loses a loaded node.  Numbering the elements of a finite set again
  by how many come before keeps their order (`Renumera`); the rows that have nodes are
  enumerated in theirs (`FilasEnumeradas`); the loaded genome is therefore the same up
  to the new numbers (`CargaCopia`), runs the same rows and sums the same genes
  (`MismaRedCargada`), and is one a population may start from (`SiembraCargada`).

`EpocaProofs`
* `TiposCorrectos`, `LasEspeciesParticionan`, `LasEspeciesSonDistintas`,
  `ElCampeonEsElMejor` and `LosAbortosSeExplican` (`TypeOK`, `EspeciesParticionan`,
  `EspeciesDistintas`, `CampeonEsElMejor`, `AbortoExplicado`) follow from one invariant with
  a conjunct per place of the epoch: `AntesDeRepartir`, `Repartiendo`, `Repartida`,
  `Hueco`.  `Repartiendo` is the one the loops of `spatiation` need: a representative is
  in the last generation if its species was inherited and in this one if not, and an
  organism is in one species at most.  The selection is the hard step: `CopiaBien` says
  that pushing the survivors into a vector gives each a place of its own, so the species
  numbered anew are still apart.  `Campeon` and `Vaciadas` are about the means: unless it
  rounded, no mean is above the best organism of its species, which survives, so that a
  species left empty is one of `redondeadas`.  `SorteoBien` and `AbortoBien` say why a draw
  finds nobody, and the candidates of `AbortoExplicado` are those of the draw because
  `random_organism` is set only while a mother is sought (`SinPadre`).

`SustratoProofs`
* `TiposCorrectos`, `LasConexionesSonDelUltimo`, `LaSalidaEsFresca` and
  `LasFuncionesSonDelCampeon` (`TypeOK`, `ConexionesDelUltimo`, `SalidaFresca`,
  `FuncionesDelCampeon`).  The inputs that reach a node are defined by a recursive
  function, of which nothing can be used before it is known to satisfy its equation.
  `Alcance` defines them without recursion, by the sets of nodes that no connection
  leaves; it satisfies the equation (`AlcanceCumple`), so the recursive functions do; and
  since connections go from a layer to the next there is only one solution
  (`PorCapas`, `FuncionEsAlcance`), by taking the least layer where two differ.  The
  invariant then follows the loops layer by layer: up to the present layer the inputs are
  those of this creation (`Creando`), or the values those of this evaluation (`Fresca`).
  `EnCapas` keeps the connections between neighbouring layers, those of older organisms
  included, because creation reads them before it clears them.

`ClienteProofs`
* `TiposCorrectos`, `LaRespuestaEsLaEsperada`, `LaDistanciaEsReciente` and
  `ElBloqueoSeExplica` (`TypeOK`, `RespuestaEsperada`, `DistanciaReciente`,
  `BloqueoExplicado`) from `Guardado` (what is stored is of the organism it is stored
  for) and, for each client, `Conversa` and `Posicion`.  `Conversa` follows
  the one organism a thread waits for: in pieces on the stream, behind the configuration
  or in it (`Bajando`, `Configurado`), in the client's hands with nothing on its way
  (`EnMano`), or answered by the only message of the other direction (`RespuestaSola`);
  `Donde` says that it is in one of these places or in one of the two where it is lost,
  which is what `BloqueoExplicado` names.  `Posicion` bounds the ages in `robot`: while
  connected there is a request of this simulation unanswered, or its reply is in and nothing
  is pending; so a wait that was answered leaves a reply of this simulation, which the start
  of the next makes one old.

`RemotoProofs`
* `TiposCorrectos` - `TypeOK`, with the messages that are left to number while the
  communication thread works.
* `RespuestasPropias` - `RespuestaPropia`.  `Respuesta` follows the query of a call that
  waits (`Localizada`): in the outgoing message that will have the number it waits for,
  on its way, answered, or lost with the connection.  `EnSucesion` - messages are
  answered in the order they are numbered - makes the last received number reach the
  awaited one only with the reply, and `VistaATiempo` keeps what the wait saw until the
  value is read.  `FinAlFinal` is needed because the buffers are also emptied when the
  thread is told to end, which nobody does during a call.
* `OrdenesNoSePierden` - `NoSePierde`, from `Entrega`: the last value is the one in the
  outgoing message if there is one, else the one on its way, else the simulator's.  The
  order of the three is what makes it inductive.
* `LotesEnteros` - `LoteJunto`, from `Candado`: a thread that is about to send has the
  mutex of the pause.

`Ordenes` has what these proofs share: in a finite set with a total order the elements
have the places from 0 to the cardinality less one, each its own; a non-empty set of
naturals has a least element, and a bounded one a greatest.

Only model-checked: liveness (`PrimeraGeneracionEvaluada`, `Distribuye`,
`EvaluacionTermina`, `FinTermina`), which needs ENABLED and so is beyond the prover.
TLC checks it on the instances above, where it depends on their bounds: on arrivals,
generations and messages that come to an end.

## 5. Plan

What is left to prove: the safety half of the liveness properties, that is, in which
states a thread of the server or of the emulator may wait for ever; and a refinement for
more clients, against an abstraction weaker than `Generaciones` that allows the early
epochs of `evalserver_epoca`.

### Not modelled

* The CM-700 and its serial port: one thread, no state but a packet buffer.
* `csa`, `fn2u`: sequential filters over a sound file and a directory tree.
* Of the remote API: split modes, several connections at once, shared memory, the
  packing of commands into bytes, and the JNI and MATLAB wrappers; the robot's programs
  use none of them.  Streaming, which only the reading of collisions uses
  (`CollisionObject.cpp`, 18 and 53): `Remoto` has no streamed commands, and `Cliente`
  takes the state of a collision as any.  The some two hundred `simx...` functions are the
  same two shapes, `Consulta` and `Ordena`, with other types.  Most of the lines of
  this repository's C are these wrappers and the constants of V-REP's headers.
* What is numeric: weights, node functions, distances, the joints' smoothing and the
  formulas of fitness.
* The text of configurations, user definitions and saved generations.
* `Programs/Quadratot`, the older client, which evolves in one process.
* Of the emulator: the address `recvfrom` leaves in `datosComunicacionRemoto`, SIGINT,
  the failures of `poll`, `bind` and of the arguments.
* Generated documentation, scenes, MATLAB scripts and sample programs.
