------------------------------- MODULE Remoto -------------------------------
(***************************************************************************)
(* The connection to the simulator: the calls of RobotSimulator and of the *)
(* robot's objects, made by one thread, and the communication thread of    *)
(* extApi.c they share two buffers with.                                   *)
(*                                                                         *)
(* A call leaves its command in the outgoing message and reads the inbox,  *)
(* where the last reply to each command stays; only simx_opmode_oneshot_   *)
(* wait waits for the reply and takes it away.  The other thread empties   *)
(* the outgoing message, sends it, waits for the reply and merges it into  *)
(* the inbox, every few milliseconds.                                      *)
(*                                                                         *)
(* Whatever the code does with the resource mutex held is one step; the    *)
(* mutex of simxPauseCommunication, held between calls, has an owner.      *)
(***************************************************************************)
EXTENDS Integers

CONSTANTS
    Consultas,     \* commands that ask for a value
    Ordenes,       \* commands that set one
    MAX_ORDENES,   \* bound: values given to each of them
    MAX_MENSAJES   \* bound: the connection is lost by this message

ASSUME RemotoSupuestos ==
    /\ Consultas \cap Ordenes = {} /\ "mata" \notin Consultas
    /\ MAX_ORDENES \in Nat /\ MAX_MENSAJES \in Nat

NADA == -1
Nadie == "nadie"
Usuario == "usuario"
Comunicacion == "comunicacion"
Vacio == [id |-> NADA, pide |-> {}, ordena |-> [o \in Ordenes |-> 0],
          vuelve |-> FALSE]

VARIABLES
    us,         \* where the calling thread is
    llamada,    \* the query it is making: command, message it waits for
    devuelto,   \* what the last query returned
    comm,       \* where the communication thread is
    corriendo,  \* _communicationThreadRunning
    conexion,   \* _connectionID
    pide,       \* queries in _messageToSend
    ordena,     \* orden -> value in _messageToSend, 0 for none
    siguiente,  \* _nextMessageIDToSend
    ultimo,     \* _lastReceivedMessageID
    espera,     \* _waitBeforeSendingAgainWhenMessageIDArrived
    recibido,   \* whether _messageReceived holds a header
    buzon,      \* consulta -> message whose reply _messageReceived holds
    dueno,      \* owner of the mutex lockSendStart takes
    camino,     \* the message on its way, or its reply
    rota,       \* whether the socket is broken
    mundo,      \* orden -> the value the simulator has
    emitido,    \* orden -> the last value given (history)
    lote        \* orders given in a pause and not sent yet (history)

usuario == <<us, llamada, devuelto>>
salida == <<pide, ordena, siguiente>>
entrada == <<recibido, buzon, ultimo>>
historia == <<emitido, lote>>
vars == <<usuario, comm, corriendo, conexion, salida, entrada, espera, dueno,
          camino, rota, mundo, historia>>

SinLlamada == [c |-> NADA, desde |-> NADA, vencio |-> FALSE]

\* simxStart has launched the thread and waits for it.
Init ==
    /\ us = "arranca" /\ llamada = SinLlamada
    /\ devuelto = [valor |-> NADA, desde |-> NADA, vencio |-> FALSE]
    /\ comm = "conecta" /\ corriendo = TRUE /\ conexion = NADA
    /\ pide = {} /\ ordena = [o \in Ordenes |-> 0]
    /\ siguiente = 0 /\ ultimo = NADA /\ espera = NADA
    /\ recibido = FALSE /\ buzon = [c \in Consultas |-> NADA]
    /\ dueno = Nadie /\ camino = Vacio /\ rota = FALSE
    /\ mundo = [o \in Ordenes |-> 0] /\ emitido = [o \in Ordenes |-> 0]
    /\ lote = {}

-----------------------------------------------------------------------------
(* The calling thread. *)

\* simxStart: connected, or its deadline over and everything undone.
TerminaArranque ==
    /\ us = "arranca"
    /\ us' = IF conexion # NADA THEN "libre" ELSE "finaliza"
    /\ UNCHANGED <<llamada, devuelto, comm, corriendo, conexion, salida,
                   entrada, espera, dueno, camino, rota, mundo, historia>>

\* The message that went out last, which cannot hold the query.
MutEsperada == siguiente - 1
\* The message the query will go out with.
Esperada == siguiente

\* _exec_int and its like, up to the wait.  A command already there is not added.
Consulta(c, espere) ==
    /\ us = "libre"
    /\ pide' = pide \cup {c}
    /\ espera' = IF espere THEN Esperada ELSE espera
    /\ llamada' = [c |-> c, desde |-> IF espere THEN siguiente ELSE NADA,
                   vencio |-> FALSE]
    /\ us' = IF espere THEN "aguarda" ELSE "recoge"
    /\ UNCHANGED <<devuelto, comm, corriendo, conexion, ordena, siguiente,
                   entrada, dueno, camino, rota, mundo, historia>>

\* _waitUntilMessageArrived: the reply is in, or the deadline is over.
DejaEsperar ==
    /\ us = "aguarda"
    /\ llamada' = [llamada EXCEPT !.vencio = ultimo < espera]
    /\ us' = "recoge"
    /\ UNCHANGED <<devuelto, comm, corriendo, conexion, salida, entrada,
                   espera, dueno, camino, rota, mundo, historia>>

\* The end of _exec_int; nobody but a wait takes the reply away.
Recoge ==
    /\ us = "recoge"
    /\ devuelto' = [valor |-> buzon[llamada.c], desde |-> llamada.desde,
                    vencio |-> llamada.vencio]
    /\ espera' = NADA
    /\ us' = IF llamada.desde = NADA THEN "libre" ELSE "retira"
    /\ UNCHANGED <<llamada, comm, corriendo, conexion, salida, entrada, dueno,
                   camino, rota, mundo, historia>>

\* _removeCommandReply_int
Retira ==
    /\ us = "retira"
    /\ buzon' = [buzon EXCEPT ![llamada.c] = NADA]
    /\ us' = "libre"
    /\ UNCHANGED <<llamada, devuelto, comm, corriendo, conexion, salida,
                   recibido, ultimo, espera, dueno, camino, rota, mundo,
                   historia>>

\* A value added to the one already there.
MutAcumula(o, v) == ordena[o] + v
\* A value already there kept, as for a query.
MutAnota(o, v) == IF ordena[o] = 0 THEN v ELSE ordena[o]
Anota(o, v) == v

\* _exec_int_float: a value already there is replaced.
Ordena(o) ==
    /\ us = "libre" /\ emitido[o] < MAX_ORDENES
    /\ emitido' = [emitido EXCEPT ![o] = @ + 1]
    /\ ordena' = [ordena EXCEPT ![o] = Anota(o, emitido'[o])]
    /\ lote' = IF dueno = Usuario THEN lote \cup {o} ELSE lote
    /\ UNCHANGED <<usuario, comm, corriendo, conexion, pide, siguiente,
                   entrada, espera, dueno, camino, rota, mundo>>

\* simxPauseCommunication
Pausa ==
    /\ us = "libre"
    /\ \/ dueno = Nadie /\ dueno' = Usuario
       \/ dueno = Usuario /\ dueno' = Nadie
    /\ UNCHANGED <<usuario, comm, corriendo, conexion, salida, entrada, espera,
                   camino, rota, mundo, historia>>

\* The end of the program, outside a pause.
Termina ==
    /\ us = "libre" /\ dueno # Usuario
    /\ us' = "finaliza"
    /\ UNCHANGED <<llamada, devuelto, comm, corriendo, conexion, salida,
                   entrada, espera, dueno, camino, rota, mundo, historia>>

\* simxFinish: the command that ends the connection, half a second, the end of
\* the thread asked for and waited for.
Finaliza ==
    /\ us = "finaliza"
    /\ pide' = IF conexion # NADA THEN pide \cup {"mata"} ELSE pide
    /\ us' = "duerme"
    /\ UNCHANGED <<llamada, devuelto, comm, corriendo, conexion, ordena,
                   siguiente, entrada, espera, dueno, camino, rota, mundo,
                   historia>>

PideFin ==
    /\ us = "duerme"
    /\ corriendo' = FALSE
    /\ us' = "une"
    /\ UNCHANGED <<llamada, devuelto, comm, conexion, salida, entrada, espera,
                   dueno, camino, rota, mundo, historia>>

Une ==
    /\ us = "une" /\ corriendo
    /\ corriendo' = FALSE
    /\ us' = "fin"
    /\ UNCHANGED <<llamada, devuelto, comm, conexion, salida, entrada, espera,
                   dueno, camino, rota, mundo, historia>>

-----------------------------------------------------------------------------
(* The communication thread.  It was started not to reconnect. *)

Conecta ==
    /\ comm = "conecta"
    /\ \/ /\ corriendo
          /\ conexion' = 1 /\ comm' = "revisa"
          /\ UNCHANGED corriendo
       \/ /\ corriendo
          /\ comm' = "aparcado"
          /\ UNCHANGED <<conexion, corriendo>>
       \/ /\ ~corriendo
          /\ corriendo' = TRUE /\ comm' = "fin"
          /\ UNCHANGED conexion
    /\ UNCHANGED <<usuario, salida, entrada, espera, dueno, camino, rota,
                   mundo, historia>>

\* 1. Wait while a reply somebody waits for has not been read.
Revisa ==
    /\ comm = "revisa"
    /\ comm' = CASE ~corriendo -> "vacia"
                 [] corriendo /\ espera # NADA /\ recibido -> "gira"
                 [] OTHER -> "bloquea"
    /\ UNCHANGED <<usuario, corriendo, conexion, salida, entrada, espera,
                   dueno, camino, rota, mundo, historia>>

Gira ==
    /\ comm = "gira" /\ (ultimo < espera \/ espera = NADA)
    /\ comm' = "bloquea"
    /\ UNCHANGED <<usuario, corriendo, conexion, salida, entrada, espera,
                   dueno, camino, rota, mundo, historia>>

\* lockSendStart released before the buffers are locked.
MutBloquea ==
    /\ comm = "bloquea" /\ dueno = Nadie
    /\ comm' = "envia"
    /\ UNCHANGED <<usuario, corriendo, conexion, salida, entrada, espera,
                   dueno, camino, rota, mundo, historia>>

\* 2. lockSendStart, which a pause may hold.
Bloquea ==
    /\ comm = "bloquea" /\ dueno = Nadie
    /\ dueno' = Comunicacion
    /\ comm' = "envia"
    /\ UNCHANGED <<usuario, corriendo, conexion, salida, entrada, espera,
                   camino, rota, mundo, historia>>

Suelta == dueno' = IF dueno = Comunicacion THEN Nadie ELSE dueno

\* 3. Take everything that waits, number it and send it.
Envia ==
    /\ comm = "envia"
    /\ Suelta
    /\ pide' = {} /\ ordena' = [o \in Ordenes |-> 0] /\ lote' = {}
    /\ siguiente' = siguiente + 1
    /\ IF rota \/ siguiente >= MAX_MENSAJES
       THEN comm' = "vacia" /\ rota' = TRUE /\ UNCHANGED camino
       ELSE /\ camino' = [id |-> siguiente, pide |-> pide, ordena |-> ordena,
                          vuelve |-> FALSE]
            /\ comm' = "recibe"
            /\ UNCHANGED rota
    /\ UNCHANGED <<usuario, corriendo, conexion, entrada, espera, mundo, emitido>>

\* Whether the reply holds commands: the values asked for and, if the server
\* chooses, the acknowledgement of the orders.  One without is dropped.
ConCuerpo ==
    {b \in BOOLEAN :
        /\ camino.pide \cap Consultas # {} => b
        /\ b => camino.pide # {} \/ \E o \in Ordenes : camino.ordena[o] # 0}

\* 4. Merge the reply into the inbox: newer values replace, others stay.
Recibe ==
    /\ comm = "recibe"
    /\ \/ /\ camino.vuelve
          /\ \E cuerpo \in ConCuerpo :
                /\ ultimo' = IF cuerpo THEN camino.id ELSE ultimo
                /\ recibido' = (recibido \/ cuerpo)
          /\ buzon' = [c \in Consultas |->
                          IF c \in camino.pide THEN camino.id ELSE buzon[c]]
          /\ comm' = "revisa"
       \/ /\ rota /\ ~camino.vuelve
          /\ comm' = "vacia"
          /\ UNCHANGED entrada
    /\ camino' = Vacio
    /\ UNCHANGED <<usuario, corriendo, conexion, salida, espera, dueno, rota,
                   mundo, historia>>

\* Disconnected: every buffer emptied.
Vacia ==
    /\ comm = "vacia"
    /\ pide' = {} /\ ordena' = [o \in Ordenes |-> 0] /\ lote' = {}
    /\ recibido' = FALSE /\ buzon' = [c \in Consultas |-> NADA]
    /\ conexion' = NADA
    /\ comm' = "aparcado"
    /\ UNCHANGED <<usuario, corriendo, siguiente, ultimo, espera, dueno, camino,
                   rota, mundo, emitido>>

\* The end of the thread not announced.
MutSale ==
    /\ comm = "aparcado" /\ ~corriendo
    /\ comm' = "fin"
    /\ UNCHANGED <<usuario, corriendo, conexion, salida, entrada, espera, dueno,
                   camino, rota, mundo, historia>>

Sale ==
    /\ comm = "aparcado" /\ ~corriendo
    /\ corriendo' = TRUE
    /\ comm' = "fin"
    /\ UNCHANGED <<usuario, conexion, salida, entrada, espera, dueno, camino,
                   rota, mundo, historia>>

-----------------------------------------------------------------------------
(* The simulator and the socket. *)

Atiende ==
    /\ camino.id # NADA /\ ~camino.vuelve /\ ~rota
    /\ mundo' = [o \in Ordenes |->
                    IF camino.ordena[o] # 0 THEN camino.ordena[o] ELSE mundo[o]]
    /\ camino' = [camino EXCEPT !.vuelve = TRUE]
    /\ rota' = ("mata" \in camino.pide)
    /\ UNCHANGED <<usuario, comm, corriendo, conexion, salida, entrada, espera,
                   dueno, historia>>

Rompe ==
    /\ ~rota /\ comm \in {"revisa", "gira", "bloquea", "envia", "recibe"}
    /\ rota' = TRUE
    /\ camino' = Vacio
    /\ UNCHANGED <<usuario, comm, corriendo, conexion, salida, entrada, espera,
                   dueno, mundo, historia>>

EnLlamada ==
    TerminaArranque \/ DejaEsperar \/ Recoge \/ Retira \/ Finaliza \/ PideFin \/ Une
Llama ==
    \/ \E c \in Consultas, espere \in BOOLEAN : Consulta(c, espere)
    \/ \E o \in Ordenes : Ordena(o)
    \/ Pausa \/ Termina
HiloComunicacion ==
    Conecta \/ Revisa \/ Gira \/ Bloquea \/ Envia \/ Recibe \/ Vacia \/ Sale

Next == Llama \/ EnLlamada \/ HiloComunicacion \/ Atiende \/ Rompe

\* Both threads are scheduled and, while connected, "the server always replies!"
Equidad == WF_vars(EnLlamada) /\ WF_vars(HiloComunicacion) /\ WF_vars(Atiende)

Spec == Init /\ [][Next]_vars
SpecJusta == Spec /\ Equidad

-----------------------------------------------------------------------------
Mensajes == 0 .. MAX_MENSAJES + 1
Valores == 0 .. MAX_ORDENES
Pedidos == SUBSET (Consultas \cup {"mata"})

\* Every variable has its type, and at most one message is on its way.
TypeOK ==
    /\ us \in {"arranca", "libre", "aguarda", "recoge", "retira", "finaliza",
               "duerme", "une", "fin"}
    /\ llamada \in [c : Consultas \cup {NADA}, desde : Mensajes \cup {NADA},
                    vencio : BOOLEAN]
    /\ devuelto \in [valor : Mensajes \cup {NADA}, desde : Mensajes \cup {NADA},
                     vencio : BOOLEAN]
    /\ comm \in {"conecta", "revisa", "gira", "bloquea", "envia", "recibe",
                 "vacia", "aparcado", "fin"}
    /\ corriendo \in BOOLEAN /\ conexion \in {NADA, 1}
    /\ pide \in Pedidos /\ ordena \in [Ordenes -> Valores]
    /\ siguiente \in Mensajes /\ ultimo \in Mensajes \cup {NADA}
    /\ espera \in Mensajes \cup {NADA}
    /\ recibido \in BOOLEAN /\ buzon \in [Consultas -> Mensajes \cup {NADA}]
    /\ dueno \in {Nadie, Usuario, Comunicacion}
    /\ camino \in [id : Mensajes \cup {NADA}, pide : Pedidos,
                   ordena : [Ordenes -> Valores], vuelve : BOOLEAN]
    /\ rota \in BOOLEAN /\ mundo \in [Ordenes -> Valores]
    /\ emitido \in [Ordenes -> Valores] /\ lote \in SUBSET Ordenes

\* A call that waited and reports no timeout returns a value the simulator
\* computed after the call began, never one left in the inbox; only a connection
\* lost in between leaves it with none.
RespuestaPropia ==
    devuelto.desde # NADA /\ ~devuelto.vencio =>
        \/ devuelto.valor >= devuelto.desde
        \/ devuelto.valor = NADA /\ rota

\* While the connection lasts the last value given to each joint is waiting to be
\* sent, on its way, or in the simulator, although values are replaced and both
\* threads write the outgoing message.
NoSePierde ==
    conexion # NADA /\ ~rota /\ comm # "vacia" =>
        \A o \in Ordenes : emitido[o] \in {ordena[o], camino.ordena[o], mundo[o]}

\* "if we need to guarantee that several specific commands are sent at the same
\* time": no message takes some of the orders of a pause and leaves others for
\* the next one.
LoteJunto ==
    [][Envia => dueno # Usuario /\ \A o \in lote : ordena[o] # 0]_vars

\* simxFinish gets its thread to end, wherever that was.
FinTermina == us = "finaliza" ~> us = "fin"
=============================================================================
