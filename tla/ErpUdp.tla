------------------------------- MODULE ErpUdp -------------------------------
(***************************************************************************)
(* erp_udp.c, the emulator of UDP delay and loss.                          *)
(*                                                                         *)
(* Each direction has a data pipe, a pipe of arrival times, a mutex and a  *)
(* condition variable over both, a thread that receives datagrams into the *)
(* pipes and a thread that takes them out, sleeps, and forwards or loses   *)
(* them.  "Cliente" is the direction fed by the client (the pipes          *)
(* pipeBuferCliente), "Servidor" the one fed by the server.                *)
(*                                                                         *)
(* A datagram is its arrival number in its direction; a pipe holds the     *)
(* numbers of the datagrams whose bytes, or whose times, it holds.         *)
(***************************************************************************)
EXTENDS Integers, Sequences

CONSTANTS
    Clientes,           \* the addresses clients send from
    SinDireccion,       \* direccionCliente before any client was heard
    TUBO,               \* capacity of a data pipe, in datagrams
    TUBO_TIEMPO,        \* capacity of a time pipe, in timestamps
    retardoPromedio, variacionRetardo, porcentajePerdida,   \* arguments
    HayVacios,          \* datagrams without payload arrive too
    LLEGADAS,           \* bound: direction -> datagrams that arrive
    MAX_TIEMPO          \* bound: the clock stops there unless a thread sleeps

Sentidos == {"Cliente", "Servidor"}

ASSUME ErpSupuestos ==
    /\ SinDireccion \notin Clientes
    /\ TUBO \in Nat \ {0} /\ TUBO_TIEMPO \in Nat \ {0}
    /\ retardoPromedio \in Nat /\ variacionRetardo \in Nat
    /\ porcentajePerdida \in 0 .. 100
    /\ HayVacios \in BOOLEAN
    /\ LLEGADAS \in [Sentidos -> Nat] /\ MAX_TIEMPO \in Nat

VARIABLES
    viva,               \* the process runs
    ahora,              \* the real-time clock
    entrada, salida,    \* where the two threads of each direction are
    FIFO,               \* owner of the mutex of each direction
    mutex_cliaddr,      \* owner of the mutex of the client's address
    esperando,          \* the salida thread waits on the condition variable
    llegada,            \* arrival times, in arrival order
    datos, tiempos,     \* the two pipes
    mensaje, sello,     \* what the salida thread last read from each
    despierta,          \* when its usleep ends
    t_reenvio,          \* when it last forwarded
    reenviados,         \* datagrams sent on, in order
    direccionCliente_tmp, direccionCliente

cerrojos == <<FIFO, mutex_cliaddr, esperando>>
tubos == <<llegada, datos, tiempos>>
locales == <<mensaje, sello, despierta, t_reenvio>>
direcciones == <<direccionCliente_tmp, direccionCliente>>
reloj == <<viva, ahora>>

vars == <<reloj, entrada, salida, cerrojos, tubos, locales, reenviados, direcciones>>

Init ==
    /\ viva = TRUE /\ ahora = 0
    /\ entrada = [s \in Sentidos |-> "recibe"]
    /\ salida = [s \in Sentidos |-> "bloquea"]
    /\ FIFO = [s \in Sentidos |-> "libre"] /\ mutex_cliaddr = "libre"
    /\ esperando = [s \in Sentidos |-> FALSE]
    /\ llegada = [s \in Sentidos |-> <<>>]
    /\ datos = [s \in Sentidos |-> <<>>] /\ tiempos = [s \in Sentidos |-> <<>>]
    /\ mensaje = [s \in Sentidos |-> <<>>] /\ sello = [s \in Sentidos |-> 0]
    /\ despierta = [s \in Sentidos |-> 0] /\ t_reenvio = [s \in Sentidos |-> 0]
    /\ reenviados = [s \in Sentidos |-> <<>>]
    /\ direccionCliente_tmp = SinDireccion
    /\ direccionCliente = [puerto |-> SinDireccion, ip |-> SinDireccion]

-----------------------------------------------------------------------------
(* Thread steps, mutexes and pipes                                         *)

PasoEntrada(s, desde, hasta) ==
    viva /\ entrada[s] = desde /\ entrada' = [entrada EXCEPT ![s] = hasta]
        /\ UNCHANGED <<reloj, salida>>

PasoSalida(s, desde, hasta) ==
    viva /\ salida[s] = desde /\ salida' = [salida EXCEPT ![s] = hasta]
        /\ UNCHANGED <<reloj, entrada>>

Toma(s, hilo) == FIFO[s] = "libre" /\ FIFO' = [FIFO EXCEPT ![s] = hilo]

Suelta(s) == FIFO' = [FIFO EXCEPT ![s] = "libre"]

TomaDireccion(hilo) == mutex_cliaddr = "libre" /\ mutex_cliaddr' = hilo

Mete(tubo, s, n) == tubo' = [tubo EXCEPT ![s] = Append(@, n)]

-----------------------------------------------------------------------------
(* entradaDatosDesdeCliente, entradaDatosDesdeServidor                     *)

RecibeDelCliente ==
    /\ PasoEntrada("Cliente", "recibe", "bloqueaDireccion")
    /\ Len(llegada["Cliente"]) < LLEGADAS["Cliente"]
    /\ direccionCliente_tmp' \in Clientes
    /\ UNCHANGED <<cerrojos, tubos, locales, reenviados, direccionCliente>>

RecibeDelServidor ==
    /\ PasoEntrada("Servidor", "recibe", "reloj")
    /\ Len(llegada["Servidor"]) < LLEGADAS["Servidor"]
    /\ UNCHANGED <<cerrojos, tubos, locales, reenviados, direcciones>>

MutBloqueaDireccion ==
    /\ PasoEntrada("Cliente", "bloqueaDireccion", "copiaPuerto")
    /\ UNCHANGED <<cerrojos, tubos, locales, reenviados, direcciones>>
BloqueaDireccion ==
    /\ PasoEntrada("Cliente", "bloqueaDireccion", "copiaPuerto")
    /\ TomaDireccion("entrada")
    /\ UNCHANGED <<FIFO, esperando, tubos, locales, reenviados, direcciones>>

\* The address is copied field by field under mutex_cliaddr.
CopiaPuerto ==
    /\ PasoEntrada("Cliente", "copiaPuerto", "copiaIP")
    /\ direccionCliente' = [direccionCliente EXCEPT !.puerto = direccionCliente_tmp]
    /\ UNCHANGED <<cerrojos, tubos, locales, reenviados, direccionCliente_tmp>>

CopiaIP ==
    /\ PasoEntrada("Cliente", "copiaIP", "reloj")
    /\ direccionCliente' = [direccionCliente EXCEPT !.ip = direccionCliente_tmp]
    /\ mutex_cliaddr' = "libre"
    /\ UNCHANGED <<FIFO, esperando, tubos, locales, reenviados, direccionCliente_tmp>>

\* A mutation: the clock is not read.
MutSellaLlegada(s) ==
    /\ PasoEntrada(s, "reloj", "bloquea")
    /\ UNCHANGED <<cerrojos, tubos, locales, reenviados, direcciones>>
SellaLlegada(s) ==
    /\ PasoEntrada(s, "reloj", "bloquea")
    /\ Mete(llegada, s, ahora)
    /\ UNCHANGED <<cerrojos, datos, tiempos, locales, reenviados, direcciones>>

BloqueaEntrada(s) ==
    /\ PasoEntrada(s, "bloquea", "escribe")
    /\ Toma(s, "entrada")
    /\ UNCHANGED <<mutex_cliaddr, esperando, tubos, locales, reenviados, direcciones>>

\* A mutation: the mutex only covers the data pipe.
MutEscribeDatos(s) ==
    /\ PasoEntrada(s, "escribe", "anota")
    /\ \/ Len(datos[s]) < TUBO /\ Mete(datos, s, Len(llegada[s]))
       \/ HayVacios /\ UNCHANGED datos
    /\ Suelta(s)
    /\ UNCHANGED <<mutex_cliaddr, esperando, llegada, tiempos, locales, reenviados, direcciones>>

\* write blocks while the pipe is full.  An empty datagram, or a failed
\* recvfrom, writes nothing.
EscribeDatos(s) ==
    /\ PasoEntrada(s, "escribe", "anota")
    /\ \/ Len(datos[s]) < TUBO /\ Mete(datos, s, Len(llegada[s]))
       \/ HayVacios /\ UNCHANGED datos
    /\ UNCHANGED <<cerrojos, llegada, tiempos, locales, reenviados, direcciones>>

\* A mutation: the signal is forgotten.
MutAvisa(s) == UNCHANGED esperando
Avisa(s) == esperando' = [esperando EXCEPT ![s] = FALSE]

\* The arrival time goes into the other pipe, always; signal and unlock.
AnotaTiempo(s) ==
    /\ PasoEntrada(s, "anota", "recibe")
    /\ Len(tiempos[s]) < TUBO_TIEMPO
    /\ Mete(tiempos, s, Len(llegada[s]))
    /\ Avisa(s) /\ Suelta(s)
    /\ UNCHANGED <<mutex_cliaddr, llegada, datos, locales, reenviados, direcciones>>

Entrada(s) ==
    \/ s = "Cliente" /\ (RecibeDelCliente \/ BloqueaDireccion \/ CopiaPuerto \/ CopiaIP)
    \/ s = "Servidor" /\ RecibeDelServidor
    \/ SellaLlegada(s) \/ BloqueaEntrada(s) \/ EscribeDatos(s) \/ AnotaTiempo(s)

-----------------------------------------------------------------------------
(* salidaDatosHaciaServidor, SalidaDatosHaciaCliente                       *)

BloqueaSalida(s) ==
    /\ PasoSalida(s, "bloquea", "sondea")
    /\ Toma(s, "salida")
    /\ UNCHANGED <<mutex_cliaddr, esperando, tubos, locales, reenviados, direcciones>>

\* Whoever polls holds the mutex, so the answer cannot change while it waits.
Sondea(s) ==
    /\ \/ datos[s] # <<>> /\ PasoSalida(s, "sondea", "lee") /\ UNCHANGED cerrojos
       \/ /\ datos[s] = <<>> /\ PasoSalida(s, "sondea", "duerme")
          /\ esperando' = [esperando EXCEPT ![s] = TRUE]
          /\ Suelta(s) /\ UNCHANGED mutex_cliaddr
    /\ UNCHANGED <<tubos, locales, reenviados, direcciones>>

\* The wait returns with the mutex, which is released before the next turn.
Despierta(s) ==
    /\ PasoSalida(s, "duerme", "bloquea")
    /\ ~esperando[s] /\ FIFO[s] = "libre"
    /\ UNCHANGED <<cerrojos, tubos, locales, reenviados, direcciones>>

\* A mutation: the bytes stay in the pipe.
MutLeeDatos(s) ==
    /\ PasoSalida(s, "lee", "leeTiempo")
    /\ mensaje' = [mensaje EXCEPT ![s] = datos[s]]
    /\ UNCHANGED <<cerrojos, tubos, sello, despierta, t_reenvio, reenviados, direcciones>>

\* One read takes every byte of the pipe, the buffer being as large as it.
LeeDatos(s) ==
    /\ PasoSalida(s, "lee", "leeTiempo")
    /\ mensaje' = [mensaje EXCEPT ![s] = datos[s]]
    /\ datos' = [datos EXCEPT ![s] = <<>>]
    /\ UNCHANGED <<cerrojos, llegada, tiempos, sello, despierta, t_reenvio, reenviados, direcciones>>

\* A mutation: the time pipe is emptied and its last timestamp kept.
MutLeeTiempo(s) ==
    /\ PasoSalida(s, "leeTiempo", "calcula")
    /\ tiempos[s] # <<>>
    /\ sello' = [sello EXCEPT ![s] = tiempos[s][Len(tiempos[s])]]
    /\ tiempos' = [tiempos EXCEPT ![s] = <<>>]
    /\ UNCHANGED <<cerrojos, llegada, datos, mensaje, despierta, t_reenvio, reenviados, direcciones>>

\* And one timestamp; the read blocks while there is none.
LeeTiempo(s) ==
    /\ PasoSalida(s, "leeTiempo", "calcula")
    /\ tiempos[s] # <<>>
    /\ sello' = [sello EXCEPT ![s] = Head(tiempos[s])]
    /\ tiempos' = [tiempos EXCEPT ![s] = Tail(@)]
    /\ UNCHANGED <<cerrojos, llegada, datos, mensaje, despierta, t_reenvio, reenviados, direcciones>>

Mayor(a, b) == IF a > b THEN a ELSE b

t_ll(s) == llegada[s][sello[s]]
t1(s) == Mayor(t_ll(s) + retardoPromedio - variacionRetardo, t_reenvio[s])
t2(s) == t_ll(s) + retardoPromedio + variacionRetardo

\* rand() % (t2 - t1): rand() is not negative, so neither is the remainder,
\* whatever the sign of the divisor.
Siestas(s) == 0 .. Mayor(t2(s) - t1(s), t1(s) - t2(s)) - 1

Calcula(s) ==
    /\ PasoSalida(s, "calcula", "retarda")
    /\ \E u_sec \in Siestas(s) :
          despierta' = [despierta EXCEPT ![s] = ahora + u_sec]
    /\ UNCHANGED <<cerrojos, tubos, mensaje, sello, t_reenvio, reenviados, direcciones>>

\* The remainder by zero is a SIGFPE.
DivideEntreCero(s) ==
    /\ viva /\ salida[s] = "calcula" /\ t1(s) = t2(s)
    /\ viva' = FALSE
    /\ UNCHANGED <<ahora, entrada, salida, cerrojos, tubos, locales, reenviados, direcciones>>

SeEnvia == {rand > porcentajePerdida : rand \in 0 .. 100}

\* After the usleep, with the mutex still held: the datagram is lost or not.
Sortea(s) ==
    /\ ahora >= despierta[s]
    /\ \E envia \in SeEnvia :
          PasoSalida(s, "retarda", IF ~envia THEN "termina"
                     ELSE IF s = "Servidor" THEN "bloqueaDireccion" ELSE "envia")
    /\ UNCHANGED <<cerrojos, tubos, locales, reenviados, direcciones>>

TomaDireccionSalida ==
    /\ PasoSalida("Servidor", "bloqueaDireccion", "envia")
    /\ TomaDireccion("salida")
    /\ UNCHANGED <<FIFO, esperando, tubos, locales, reenviados, direcciones>>

\* sendto fails, unnoticed, while no client has been heard.
Envia(s) ==
    /\ PasoSalida(s, "envia", "termina")
    /\ reenviados' = IF s = "Servidor" /\ direccionCliente.ip = SinDireccion
                     THEN reenviados
                     ELSE [reenviados EXCEPT ![s] = @ \o mensaje[s]]
    /\ mensaje' = [mensaje EXCEPT ![s] = <<>>]
    /\ mutex_cliaddr' = IF s = "Servidor" THEN "libre" ELSE mutex_cliaddr
    /\ UNCHANGED <<FIFO, esperando, tubos, sello, despierta, t_reenvio, direcciones>>

Termina(s) ==
    /\ PasoSalida(s, "termina", "bloquea")
    /\ t_reenvio' = [t_reenvio EXCEPT ![s] = ahora]
    /\ mensaje' = [mensaje EXCEPT ![s] = <<>>]
    /\ Suelta(s)
    /\ UNCHANGED <<mutex_cliaddr, esperando, tubos, sello, despierta, reenviados, direcciones>>

Salida(s) ==
    \/ BloqueaSalida(s) \/ Sondea(s) \/ Despierta(s) \/ LeeDatos(s) \/ LeeTiempo(s)
    \/ Calcula(s) \/ DivideEntreCero(s) \/ Sortea(s)
    \/ s = "Servidor" /\ TomaDireccionSalida
    \/ Envia(s) \/ Termina(s)

\* A pthread_cond_wait returns although nobody signalled.
RetornoEspurio(s) ==
    /\ viva /\ esperando[s]
    /\ esperando' = [esperando EXCEPT ![s] = FALSE]
    /\ UNCHANGED <<reloj, entrada, salida, FIFO, mutex_cliaddr, tubos, locales, reenviados, direcciones>>

Duerme(s) == salida[s] = "retarda" /\ ahora < despierta[s]

Avanza ==
    /\ viva /\ (ahora < MAX_TIEMPO \/ \E s \in Sentidos : Duerme(s))
    /\ ahora' = ahora + 1
    /\ UNCHANGED <<viva, entrada, salida, cerrojos, tubos, locales, reenviados, direcciones>>

Next ==
    \/ \E s \in Sentidos : Entrada(s) \/ Salida(s) \/ RetornoEspurio(s)
    \/ Avanza

Spec == Init /\ [][Next]_vars

FairSpec ==
    Spec /\ WF_vars(Avanza) /\ \A s \in Sentidos : WF_vars(Entrada(s)) /\ WF_vars(Salida(s))

-----------------------------------------------------------------------------
(* Properties                                                              *)

EstadosEntrada == {"recibe", "bloqueaDireccion", "copiaPuerto", "copiaIP",
    "reloj", "bloquea", "escribe", "anota"}

ConSello == {"calcula", "retarda", "bloqueaDireccion", "envia", "termina"}

EstadosSalida == {"bloquea", "sondea", "duerme", "lee", "leeTiempo"} \cup ConSello

TipoHilos ==
    /\ viva \in BOOLEAN /\ ahora \in Nat
    /\ entrada \in [Sentidos -> EstadosEntrada]
    /\ salida \in [Sentidos -> EstadosSalida]
    /\ FIFO \in [Sentidos -> {"libre", "entrada", "salida"}]
    /\ mutex_cliaddr \in {"libre", "entrada", "salida"}
    /\ esperando \in [Sentidos -> BOOLEAN]

Recibidos(s) == 1 .. Len(llegada[s])

TipoTubos ==
    /\ llegada \in [Sentidos -> Seq(Nat)]
    /\ datos \in [Sentidos -> Seq(Nat)] /\ tiempos \in [Sentidos -> Seq(Nat)]
    /\ \A s \in Sentidos :
          /\ datos[s] \in Seq(Recibidos(s)) /\ Len(datos[s]) <= TUBO
          /\ tiempos[s] \in Seq(Recibidos(s)) /\ Len(tiempos[s]) <= TUBO_TIEMPO

TipoLocales ==
    /\ mensaje \in [Sentidos -> Seq(Nat)] /\ sello \in [Sentidos -> Nat]
    /\ despierta \in [Sentidos -> Nat] /\ t_reenvio \in [Sentidos -> Nat]
    /\ reenviados \in [Sentidos -> Seq(Nat)]
    /\ \A s \in Sentidos :
          /\ mensaje[s] \in Seq(Recibidos(s)) /\ reenviados[s] \in Seq(Recibidos(s))
          /\ salida[s] \in ConSello => sello[s] \in Recibidos(s)
    /\ direccionCliente_tmp \in Clientes \cup {SinDireccion}
    /\ direccionCliente \in [puerto : Clientes \cup {SinDireccion},
                             ip : Clientes \cup {SinDireccion}]

\* The types of the globals and of the threads' locals: whatever a pipe or a
\* buffer holds has arrived, and no pipe holds more than its capacity.
TypeOK == TipoHilos /\ TipoTubos /\ TipoLocales

\* No wakeup is lost: a salida thread that waits on the condition variable
\* while its pipe holds a datagram has a signal on the way, from the entrada
\* thread that wrote it and still owns the mutex.  It rests on poll and wait
\* being under the mutex of the writer.
SinAvisoPerdido ==
    \A s \in Sentidos :
        esperando[s] /\ datos[s] # <<>> => entrada[s] = "anota" /\ FIFO[s] = "entrada"

\* The read of a timestamp never blocks: a salida thread that took bytes out
\* of the data pipe finds a timestamp in the other, so it does not sleep for
\* ever with the mutex the entrada thread needs to write one.
TiempoDisponible ==
    \A s \in Sentidos : salida[s] = "leeTiempo" => tiempos[s] # <<>>

\* The delay of a message is never computed from a datagram that arrived
\* after the message: the two pipes drift apart one way only.
SelloNoPosterior ==
    \A s \in Sentidos :
        salida[s] \in ConSello /\ mensaje[s] # <<>> => sello[s] <= Head(mensaje[s])

Recorrido(s) == reenviados[s] \o mensaje[s] \o datos[s]

\* What was forwarded, then what is being delayed, then what is in the pipe
\* is in arrival order, without repetition: the delay never reorders or
\* duplicates, and nothing is forwarded twice.
EnOrden ==
    \A s \in Sentidos :
        LET r == Recorrido(s) IN
        \A j \in 1 .. Len(r) : r[j] <= Len(llegada[s]) /\ \A i \in 1 .. j - 1 : r[i] < r[j]

\* The address an answer is sent to is one client's, never the port of one
\* and the IP of another.
DireccionEntera ==
    salida["Servidor"] = "envia" => direccionCliente.puerto = direccionCliente.ip

\* "hebra 2: Distribuye datos al servidor simulando retardo y perdida" (and
\* hebra 4, to the client): what is in a data pipe is taken out of it.
Distribuye ==
    \A s \in Sentidos : (viva /\ datos[s] # <<>>) ~> (~viva \/ datos[s] = <<>>)

\* "entre 1[s] y 9[s] de retardo": no datagram is forwarded before
\* retardoPromedio - variacionRetardo has passed since it arrived.
RetardoMinimo ==
    \A s \in Sentidos :
        salida[s] = "envia" =>
            \A i \in 1 .. Len(mensaje[s]) :
                ahora - llegada[s][mensaje[s][i]] >= retardoPromedio - variacionRetardo
=============================================================================
