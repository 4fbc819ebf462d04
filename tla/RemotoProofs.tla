---------------------------- MODULE RemotoProofs ----------------------------
(***************************************************************************)
(* Theorems about Remoto, for any queries, orders, values and messages.    *)
(***************************************************************************)
EXTENDS Remoto, TLAPS

-----------------------------------------------------------------------------
(* Type correctness *)

EnConexion == {"conecta", "revisa", "gira", "bloquea", "envia", "recibe"}

\* A call that is being made is a query's, and messages are left to number
\* while the communication thread works.
Tipos ==
    /\ TypeOK
    /\ us \in {"aguarda", "recoge", "retira"} => llamada.c \in Consultas
    /\ comm \in EnConexion => siguiente <= MAX_MENSAJES

LEMMA VacioBien == Vacio \in [id : Mensajes \cup {NADA}, pide : Pedidos,
                              ordena : [Ordenes -> Valores], vuelve : BOOLEAN]
  BY RemotoSupuestos DEF Vacio, Mensajes, Valores, Pedidos, NADA

LEMMA TiposInit == Init => Tipos
<1> SUFFICES ASSUME Init PROVE Tipos
  OBVIOUS
<1>1. /\ us = "arranca" /\ comm = "conecta" /\ conexion \in {NADA, 1}
      /\ corriendo \in BOOLEAN /\ recibido \in BOOLEAN /\ rota \in BOOLEAN
      /\ dueno \in {Nadie, Usuario, Comunicacion}
  BY DEF Init
<1>2. /\ siguiente \in Mensajes /\ siguiente <= MAX_MENSAJES
      /\ ultimo \in Mensajes \cup {NADA} /\ espera \in Mensajes \cup {NADA}
      /\ buzon \in [Consultas -> Mensajes \cup {NADA}]
  BY RemotoSupuestos DEF Init, Mensajes
<1>3. /\ pide \in Pedidos /\ lote \in SUBSET Ordenes
      /\ ordena \in [Ordenes -> Valores] /\ mundo \in [Ordenes -> Valores]
      /\ emitido \in [Ordenes -> Valores]
  BY RemotoSupuestos DEF Init, Pedidos, Valores
<1>4. /\ llamada \in [c : Consultas \cup {NADA}, desde : Mensajes \cup {NADA},
                      vencio : BOOLEAN]
      /\ devuelto \in [valor : Mensajes \cup {NADA}, desde : Mensajes \cup {NADA},
                       vencio : BOOLEAN]
  BY DEF Init, SinLlamada
<1>5. camino = Vacio
  BY DEF Init
<1> QED BY <1>1, <1>2, <1>3, <1>4, <1>5, VacioBien DEF Tipos, TypeOK

LEMMA TiposUsuario ==
    ASSUME Tipos, EnLlamada \/ Llama
    PROVE  Tipos'
<1> USE RemotoSupuestos DEF Tipos, TypeOK, Mensajes, Valores, EnConexion
<1>1. CASE TerminaArranque
  BY <1>1 DEF TerminaArranque, salida, entrada, historia
<1>2. CASE DejaEsperar
  <2>1. llamada' \in [c : Consultas \cup {NADA}, desde : Mensajes \cup {NADA},
                      vencio : BOOLEAN]
    <3> DEFINE tarde == ultimo < espera
    <3>1. tarde \in BOOLEAN
      OBVIOUS
    <3>2. llamada' = [llamada EXCEPT !.vencio = tarde]
      BY <1>2 DEF DejaEsperar
    <3> HIDE DEF tarde
    <3> QED BY <3>1, <3>2
  <2>2. llamada'.c = llamada.c
    BY <1>2 DEF DejaEsperar
  <2>3. us = "aguarda" /\ us' = "recoge"
        /\ UNCHANGED <<devuelto, comm, corriendo, conexion, salida, entrada,
                       espera, dueno, camino, rota, mundo, historia>>
    BY <1>2 DEF DejaEsperar
  <2> QED BY <2>1, <2>2, <2>3 DEF salida, entrada, historia
<1>3. CASE Recoge
  BY <1>3 DEF Recoge, salida, entrada, historia
<1>4. CASE Retira
  BY <1>4 DEF Retira, salida, entrada, historia
<1>5. CASE Finaliza
  BY <1>5 DEF Finaliza, entrada, historia, Pedidos
<1>6. CASE PideFin
  <2>1. corriendo' \in BOOLEAN
    BY <1>6 DEF PideFin
  <2>2. us' = "une" /\ UNCHANGED <<llamada, devuelto, comm, conexion, salida,
             entrada, espera, dueno, camino, rota, mundo, historia>>
    BY <1>6 DEF PideFin
  <2> QED BY <2>1, <2>2 DEF salida, entrada, historia
<1>7. CASE Une
  <2>1. corriendo' \in BOOLEAN
    BY <1>7 DEF Une
  <2>2. us' = "fin" /\ UNCHANGED <<llamada, devuelto, comm, conexion, salida,
             entrada, espera, dueno, camino, rota, mundo, historia>>
    BY <1>7 DEF Une
  <2> QED BY <2>1, <2>2 DEF salida, entrada, historia
<1>8. ASSUME NEW c \in Consultas, NEW espere \in BOOLEAN, Consulta(c, espere)
      PROVE  Tipos'
  <2>1. pide' \in Pedidos
    BY <1>8 DEF Consulta, Pedidos
  <2>2. siguiente \in Mensajes
    OBVIOUS
  <2>3. llamada' \in [c : Consultas \cup {NADA}, desde : Mensajes \cup {NADA},
                      vencio : BOOLEAN]
    BY <1>8, <2>2 DEF Consulta
  <2>4. llamada'.c \in Consultas
    BY <1>8 DEF Consulta
  <2>5. espera' \in Mensajes \cup {NADA}
    BY <1>8, <2>2 DEF Consulta, Esperada
  <2> QED BY <1>8, <2>1, <2>3, <2>4, <2>5 DEF Consulta, entrada, historia
<1>9. ASSUME NEW o \in Ordenes, Ordena(o)
      PROVE  Tipos'
  <2>1. emitido[o] + 1 \in Valores
    BY <1>9 DEF Ordena
  <2>2. emitido' \in [Ordenes -> Valores] /\ ordena' \in [Ordenes -> Valores]
    BY <1>9, <2>1 DEF Ordena, Anota
  <2> QED BY <1>9, <2>2 DEF Ordena, usuario, entrada
<1>10. CASE Pausa
  BY <1>10 DEF Pausa, usuario, salida, entrada, historia
<1>11. CASE Termina
  BY <1>11 DEF Termina, salida, entrada, historia
<1> QED BY <1>1, <1>2, <1>3, <1>4, <1>5, <1>6, <1>7, <1>8, <1>9, <1>10, <1>11
        DEF EnLlamada, Llama

LEMMA TiposComunicacion ==
    ASSUME Tipos, HiloComunicacion \/ Atiende \/ Rompe
    PROVE  Tipos'
<1> USE RemotoSupuestos DEF Tipos, TypeOK, Mensajes, Valores, EnConexion
<1>1. CASE Conecta
  <2>1. /\ corriendo' \in BOOLEAN /\ conexion' \in {NADA, 1}
        /\ comm' \in {"revisa", "aparcado", "fin"} /\ comm = "conecta"
    BY <1>1 DEF Conecta
  <2>2. UNCHANGED <<usuario, salida, entrada, espera, dueno, camino, rota,
                    mundo, historia>>
    BY <1>1 DEF Conecta
  <2> QED BY <2>1, <2>2 DEF usuario, salida, entrada, historia
<1>2. CASE Revisa
  BY <1>2 DEF Revisa, usuario, salida, entrada, historia
<1>3. CASE Gira
  BY <1>3 DEF Gira, usuario, salida, entrada, historia
<1>4. CASE Bloquea
  BY <1>4 DEF Bloquea, usuario, salida, entrada, historia
<1>5. CASE Envia
  <2>1. siguiente \in Nat /\ siguiente <= MAX_MENSAJES /\ siguiente' = siguiente + 1
    BY <1>5 DEF Envia
  <2>2. siguiente' \in Mensajes
    BY <2>1
  <2>3. pide' \in Pedidos /\ ordena' \in [Ordenes -> Valores] /\ lote' \in SUBSET Ordenes
    BY <1>5 DEF Envia, Pedidos
  <2>4. dueno' \in {Nadie, Usuario, Comunicacion}
    BY <1>5 DEF Envia, Suelta
  <2>5. CASE rota \/ siguiente >= MAX_MENSAJES
    <3>1. comm' = "vacia" /\ rota' \in BOOLEAN /\ camino' = camino
      BY <1>5, <2>5 DEF Envia
    <3>2. UNCHANGED <<usuario, corriendo, conexion, entrada, espera, mundo, emitido>>
      BY <1>5 DEF Envia
    <3> QED BY <2>2, <2>3, <2>4, <3>1, <3>2 DEF usuario, entrada
  <2>6. CASE ~(rota \/ siguiente >= MAX_MENSAJES)
    <3>1. siguiente' <= MAX_MENSAJES
      BY <2>1, <2>6
    <3>2. camino' \in [id : Mensajes \cup {NADA}, pide : Pedidos,
                       ordena : [Ordenes -> Valores], vuelve : BOOLEAN]
      <4>1. camino' = [id |-> siguiente, pide |-> pide, ordena |-> ordena,
                       vuelve |-> FALSE]
        BY <1>5, <2>6 DEF Envia
      <4>2. FALSE \in BOOLEAN
        OBVIOUS
      <4> HIDE DEF Tipos
      <4>3. /\ siguiente \in Mensajes /\ pide \in Pedidos
            /\ ordena \in [Ordenes -> Valores]
        BY DEF Tipos
      <4> QED BY <4>1, <4>2, <4>3
    <3>3. /\ comm' = "recibe" /\ rota' = rota
          /\ UNCHANGED <<usuario, corriendo, conexion, entrada, espera, mundo, emitido>>
      BY <1>5, <2>6 DEF Envia
    <3> QED BY <2>2, <2>3, <2>4, <3>1, <3>2, <3>3 DEF usuario, entrada
  <2> QED BY <2>5, <2>6
<1>6. CASE Recibe
  <2>1. camino' \in [id : Mensajes \cup {NADA}, pide : Pedidos,
                     ordena : [Ordenes -> Valores], vuelve : BOOLEAN]
    BY <1>6, VacioBien DEF Recibe
  <2>2. camino.id \in Mensajes \cup {NADA}
    OBVIOUS
  <2>3. /\ ultimo' \in Mensajes \cup {NADA} /\ recibido' \in BOOLEAN
        /\ buzon' \in [Consultas -> Mensajes \cup {NADA}]
        /\ comm' \in {"revisa", "vacia"}
    <3>1. CASE camino.vuelve
      <4>1. PICK cuerpo \in BOOLEAN : /\ ultimo' = IF cuerpo THEN camino.id ELSE ultimo
                                      /\ recibido' = (recibido \/ cuerpo)
        BY <1>6, <3>1 DEF Recibe, ConCuerpo
      <4>2. /\ buzon' = [c \in Consultas |->
                           IF c \in camino.pide THEN camino.id ELSE buzon[c]]
            /\ comm' = "revisa"
        BY <1>6, <3>1 DEF Recibe
      <4>3. buzon' \in [Consultas -> Mensajes \cup {NADA}]
        BY <2>2, <4>2
      <4> QED BY <2>2, <4>1, <4>2, <4>3
    <3>2. CASE ~camino.vuelve
      BY <1>6, <3>2 DEF Recibe, entrada
    <3> QED BY <3>1, <3>2
  <2> QED BY <1>6, <2>1, <2>3 DEF Recibe, usuario, salida, historia
<1>7. CASE Vacia
  <2>1. /\ recibido' \in BOOLEAN /\ comm' = "aparcado" /\ conexion' = NADA
        /\ UNCHANGED <<usuario, corriendo, siguiente, ultimo, espera, dueno,
                       camino, rota, mundo, emitido>>
    BY <1>7 DEF Vacia
  <2>2. /\ pide' \in Pedidos /\ ordena' \in [Ordenes -> Valores]
        /\ lote' \in SUBSET Ordenes
        /\ buzon' \in [Consultas -> Mensajes \cup {NADA}]
    BY <1>7 DEF Vacia, Pedidos
  <2> QED BY <2>1, <2>2 DEF usuario
<1>8. CASE Sale
  BY <1>8 DEF Sale, usuario, salida, entrada, historia
<1>9. CASE Atiende
  <2>1. mundo' \in [Ordenes -> Valores]
    BY <1>9 DEF Atiende
  <2>2. camino' \in [id : Mensajes \cup {NADA}, pide : Pedidos,
                     ordena : [Ordenes -> Valores], vuelve : BOOLEAN]
    BY <1>9 DEF Atiende
  <2> QED BY <1>9, <2>1, <2>2 DEF Atiende, usuario, salida, entrada, historia
<1>10. CASE Rompe
  BY <1>10, VacioBien DEF Rompe, usuario, salida, entrada, historia
<1> QED BY <1>1, <1>2, <1>3, <1>4, <1>5, <1>6, <1>7, <1>8, <1>9, <1>10
        DEF HiloComunicacion

LEMMA TiposPaso ==
    ASSUME Tipos, [Next]_vars
    PROVE  Tipos'
<1>1. CASE UNCHANGED vars
  BY <1>1 DEF Tipos, TypeOK, vars, usuario, salida, entrada, historia
<1> QED BY <1>1, TiposUsuario, TiposComunicacion DEF Next

LEMMA TiposSiempre == Spec => []Tipos
  BY TiposInit, TiposPaso, PTL DEF Spec

\* Every variable keeps its type; no message goes beyond the last one.
THEOREM TiposCorrectos == Spec => []TypeOK
<1>1. Tipos => TypeOK
  BY DEF Tipos
<1> QED BY <1>1, TiposSiempre, PTL

-----------------------------------------------------------------------------
(* The orders of a pause leave together *)

\* Nobody but the communication thread holds the mutex when it is about to
\* send, and what was given in a pause is still in the outgoing message.
Candado ==
    /\ comm = "envia" => dueno = Comunicacion
    /\ \A o \in lote : ordena[o] # 0

LEMMA CandadoInit == Init => Candado
  BY DEF Init, Candado

LEMMA CandadoPaso ==
    ASSUME Tipos, Candado, [Next]_vars
    PROVE  Candado'
<1> USE DEF Candado, Nadie, Usuario, Comunicacion
<1>1. CASE UNCHANGED vars
  BY <1>1 DEF vars, salida, historia
<1>2. CASE EnLlamada
  BY <1>2 DEF EnLlamada, TerminaArranque, DejaEsperar, Recoge, Retira, Finaliza,
              PideFin, Une, salida, historia
<1>3. ASSUME NEW c \in Consultas, NEW espere \in BOOLEAN, Consulta(c, espere)
      PROVE  Candado'
  BY <1>3 DEF Consulta, historia
<1>4. ASSUME NEW o \in Ordenes, Ordena(o)
      PROVE  Candado'
  <2>1. /\ emitido[o] \in Nat /\ emitido' \in [Ordenes -> Nat]
        /\ emitido'[o] = emitido[o] + 1
    BY <1>4, RemotoSupuestos DEF Ordena, Tipos, TypeOK, Valores
  <2>2. ordena' = [ordena EXCEPT ![o] = emitido'[o]] /\ ordena \in [Ordenes -> Valores]
    BY <1>4 DEF Ordena, Anota, Tipos, TypeOK
  <2>3. ordena'[o] # 0
    BY <2>1, <2>2
  <2>4. lote' \subseteq lote \cup {o} /\ lote \subseteq Ordenes
    BY <1>4 DEF Ordena, Tipos, TypeOK
  <2>5. \A q \in lote' : ordena'[q] # 0
    BY <2>2, <2>3, <2>4
  <2>6. UNCHANGED <<comm, dueno>>
    BY <1>4 DEF Ordena
  <2> QED BY <2>5, <2>6
<1>5. CASE Pausa \/ Termina
  BY <1>5 DEF Pausa, Termina, salida, historia
<1>6. CASE Envia \/ Vacia
  BY <1>6 DEF Envia, Vacia
<1>7. CASE Conecta \/ Revisa \/ Gira \/ Bloquea \/ Recibe \/ Sale
  BY <1>7 DEF Conecta, Revisa, Gira, Bloquea, Recibe, Sale, salida, historia
<1>8. CASE Atiende \/ Rompe
  BY <1>8 DEF Atiende, Rompe, salida, historia
<1> QED BY <1>1, <1>2, <1>3, <1>4, <1>5, <1>6, <1>7, <1>8
        DEF Next, Llama, HiloComunicacion

LEMMA CandadoSiempre == Spec => []Candado
<1>1. Init => Candado
  BY CandadoInit
<1>2. Tipos /\ Candado /\ [Next]_vars => Candado'
  BY CandadoPaso
<1> QED BY <1>1, <1>2, TiposSiempre, PTL DEF Spec

\* No message takes some of the orders of a pause and leaves others, for any
\* orders and any length of the pause.
THEOREM LotesEnteros == Spec => LoteJunto
<1>1. Candado /\ [Next]_vars
        => [Envia => dueno # Usuario /\ \A o \in lote : ordena[o] # 0]_vars
  BY DEF Candado, Envia, Usuario, Comunicacion
<1> QED BY <1>1, CandadoSiempre, PTL DEF Spec, LoteJunto

-----------------------------------------------------------------------------
(* A call that waits gets its own reply *)

EnEspera == us \in {"aguarda", "recoge"} /\ llamada.desde # NADA

\* Messages are answered in the order they are numbered.
EnSucesion ==
    /\ ultimo < siguiente /\ camino.id < siguiente
    /\ camino.id # NADA => ultimo < camino.id
    /\ camino.vuelve => camino.id # NADA
    /\ comm # "recibe" => camino.id = NADA
    /\ \A c \in Consultas : buzon[c] <= ultimo

\* The threads are told to end only after the last call, and the buffers are
\* emptied only then or when the connection is lost.
FinAlFinal ==
    /\ us \notin {"une", "fin"} => corriendo
    /\ comm = "vacia" => rota \/ us \in {"une", "fin"}

\* Where the query of a call that waits is: in the outgoing message, on its way,
\* answered, or lost with the connection.
Localizada ==
    EnEspera =>
        /\ espera = llamada.desde
        /\ \/ siguiente = llamada.desde /\ llamada.c \in pide
           \/ camino.id = llamada.desde /\ llamada.c \in camino.pide
           \/ buzon[llamada.c] >= llamada.desde
           \/ /\ rota /\ camino.id = NADA
              /\ ultimo < llamada.desde \/ buzon[llamada.c] = NADA

\* A call that stopped waiting in time has seen the reply arrive.
VistaATiempo ==
    us = "recoge" /\ llamada.desde # NADA /\ ~llamada.vencio =>
        ultimo >= llamada.desde

Respuesta ==
    EnSucesion /\ FinAlFinal /\ Localizada /\ VistaATiempo /\ RespuestaPropia

LEMMA RespuestaInit == Init => Respuesta
  BY DEF Init, Respuesta, EnSucesion, FinAlFinal, Localizada, VistaATiempo,
         RespuestaPropia, EnEspera, NADA, Vacio

\* What a call that waits relies on, unchanged by the steps of neither the
\* messages nor the calls.
LEMMA RespuestaQuieta ==
    ASSUME Respuesta,
           UNCHANGED <<us, llamada, devuelto, corriendo, pide, siguiente, ultimo,
                       espera, buzon, camino, rota>>,
           comm' = "vacia" => comm = "vacia" \/ us \in {"une", "fin"},
           comm = "recibe" => comm' = "recibe" \/ camino.id = NADA
    PROVE  Respuesta'
  BY DEF Respuesta, EnSucesion, FinAlFinal, Localizada, VistaATiempo,
         RespuestaPropia, EnEspera

LEMMA RespuestaUsuario ==
    ASSUME Tipos, Respuesta, EnLlamada \/ Llama
    PROVE  Respuesta'
<1> USE DEF Respuesta, EnSucesion, FinAlFinal, Localizada, VistaATiempo,
            RespuestaPropia, EnEspera, NADA
<1>1. CASE TerminaArranque
  BY <1>1 DEF TerminaArranque, salida, entrada
<1>2. CASE DejaEsperar
  <2>1. /\ llamada' = [llamada EXCEPT !.vencio = ultimo < espera]
        /\ us = "aguarda" /\ us' = "recoge"
        /\ UNCHANGED <<devuelto, comm, corriendo, salida, entrada, espera, camino, rota>>
    BY <1>2 DEF DejaEsperar
  <2>2. /\ llamada'.c = llamada.c /\ llamada'.desde = llamada.desde
        /\ llamada'.vencio = (ultimo < espera)
    BY <2>1 DEF Tipos, TypeOK
  <2>3. ultimo \in Int /\ espera \in Int
    BY RemotoSupuestos DEF Tipos, TypeOK, Mensajes
  <2>4. Localizada' /\ FinAlFinal' /\ EnSucesion' /\ RespuestaPropia'
    BY <2>1, <2>2 DEF salida, entrada
  <2>5. VistaATiempo'
    <3>1. llamada.desde # NADA /\ ~llamada'.vencio => espera = llamada.desde
                                                     /\ ~(ultimo < espera)
      BY <2>1, <2>2
    <3> QED BY <2>1, <2>2, <2>3, <3>1 DEF entrada
  <2> QED BY <2>4, <2>5
<1>3. CASE Recoge
  <2>1. /\ us = "recoge" /\ us' \in {"libre", "retira"}
        /\ UNCHANGED <<llamada, comm, corriendo, salida, entrada, camino, rota>>
        /\ devuelto' = [valor |-> buzon[llamada.c], desde |-> llamada.desde,
                        vencio |-> llamada.vencio]
    BY <1>3 DEF Recoge
  <2>2. llamada.c \in Consultas
    BY <2>1 DEF Tipos
  <2>3. /\ ultimo \in Int /\ siguiente \in Int /\ camino.id \in Int
        /\ llamada.desde \in Int /\ buzon[llamada.c] \in Int
    BY <2>2, RemotoSupuestos DEF Tipos, TypeOK, Mensajes
  <2>4. llamada.desde # NADA /\ ~llamada.vencio =>
           \/ buzon[llamada.c] >= llamada.desde
           \/ buzon[llamada.c] = NADA /\ rota
    BY <2>1, <2>3
  <2>5. RespuestaPropia'
    BY <2>1, <2>4 DEF entrada
  <2> QED BY <2>1, <2>5 DEF salida, entrada
<1>4. CASE Retira
  <2>1. /\ us = "retira" /\ us' = "libre"
        /\ UNCHANGED <<llamada, devuelto, comm, corriendo, salida, ultimo, camino, rota>>
        /\ buzon' = [buzon EXCEPT ![llamada.c] = NADA]
    BY <1>4 DEF Retira
  <2>2. NADA <= ultimo /\ buzon \in [Consultas -> Mensajes \cup {NADA}]
    BY RemotoSupuestos DEF Tipos, TypeOK, Mensajes
  <2>3. \A c \in Consultas : buzon'[c] <= ultimo'
    BY <2>1, <2>2
  <2> QED BY <2>1, <2>3 DEF salida
<1>5. CASE Finaliza
  BY <1>5 DEF Finaliza, entrada
<1>6. CASE PideFin \/ Une
  BY <1>6 DEF PideFin, Une, salida, entrada
<1>7. ASSUME NEW c \in Consultas, NEW espere \in BOOLEAN, Consulta(c, espere)
      PROVE  Respuesta'
  <2>1. /\ us = "libre" /\ us' = IF espere THEN "aguarda" ELSE "recoge"
        /\ pide' = pide \cup {c}
        /\ espera' = IF espere THEN siguiente ELSE espera
        /\ llamada' = [c |-> c, desde |-> IF espere THEN siguiente ELSE NADA,
                       vencio |-> FALSE]
        /\ UNCHANGED <<devuelto, comm, corriendo, siguiente, entrada, camino, rota>>
    BY <1>7 DEF Consulta, Esperada
  <2>2. Localizada' /\ VistaATiempo'
    BY <2>1
  <2>3. EnSucesion' /\ FinAlFinal' /\ RespuestaPropia'
    BY <2>1 DEF entrada
  <2> QED BY <2>2, <2>3
<1>8. ASSUME NEW o \in Ordenes, Ordena(o)
      PROVE  Respuesta'
  BY <1>8 DEF Ordena, usuario, entrada
<1>9. CASE Pausa
  BY <1>9, RespuestaQuieta DEF Pausa, usuario, salida, entrada
<1>10. CASE Termina
  BY <1>10 DEF Termina, salida, entrada
<1> QED BY <1>1, <1>2, <1>3, <1>4, <1>5, <1>6, <1>7, <1>8, <1>9, <1>10
        DEF EnLlamada, Llama

LEMMA RespuestaMensajes ==
    ASSUME Tipos, Respuesta, HiloComunicacion \/ Atiende \/ Rompe
    PROVE  Respuesta'
<1> DEFINE Enteros == /\ ultimo \in Int /\ siguiente \in Nat /\ camino.id \in Int
                      /\ llamada.desde \in Int
                      /\ \A c \in Consultas : buzon[c] \in Int
<1>0. Enteros
  BY RemotoSupuestos DEF Tipos, TypeOK, Mensajes, NADA
<1>1. CASE Conecta \/ Gira \/ Bloquea \/ Sale
  <2>1. corriendo' = corriendo \/ corriendo'
    BY <1>1 DEF Conecta, Gira, Bloquea, Sale, usuario, salida, entrada
  <2> QED BY <1>1, <2>1
          DEF Conecta, Gira, Bloquea, Sale, usuario, salida, entrada, Respuesta,
              EnSucesion, FinAlFinal, Localizada, VistaATiempo, RespuestaPropia,
              EnEspera
<1>2. CASE Revisa
  <2>1. /\ comm = "revisa" /\ comm' \in {"vacia", "gira", "bloquea"}
        /\ comm' = "vacia" => ~corriendo
        /\ UNCHANGED <<usuario, corriendo, salida, entrada, espera, camino, rota>>
    BY <1>2 DEF Revisa
  <2> QED BY <2>1, RespuestaQuieta
          DEF usuario, salida, entrada, Respuesta, FinAlFinal
<1>3. CASE Envia
  <2> USE DEF Respuesta, EnSucesion, FinAlFinal, Localizada, VistaATiempo,
              RespuestaPropia, EnEspera, NADA
  <2>1. /\ comm = "envia" /\ camino.id = NADA /\ siguiente' = siguiente + 1
        /\ UNCHANGED <<usuario, corriendo, entrada, espera>>
    BY <1>3 DEF Envia
  <2>2. CASE rota \/ siguiente >= MAX_MENSAJES
    <3>1. comm' = "vacia" /\ rota' = TRUE /\ camino' = camino
      BY <1>3, <2>2 DEF Envia
    <3>2. Localizada'
      BY <1>0, <2>1, <3>1 DEF usuario, entrada
    <3> QED BY <1>0, <2>1, <3>1, <3>2 DEF usuario, entrada
  <2>3. CASE ~(rota \/ siguiente >= MAX_MENSAJES)
    <3>1. /\ comm' = "recibe" /\ rota' = rota
          /\ camino' = [id |-> siguiente, pide |-> pide, ordena |-> ordena,
                        vuelve |-> FALSE]
      BY <1>3, <2>3 DEF Envia
    <3>2. Localizada'
      BY <1>0, <2>1, <2>3, <3>1 DEF usuario, entrada
    <3> QED BY <1>0, <2>1, <3>1, <3>2 DEF usuario, entrada
  <2> QED BY <2>2, <2>3
<1>4. CASE Recibe
  <2> USE DEF Respuesta, EnSucesion, FinAlFinal, Localizada, VistaATiempo,
              RespuestaPropia, EnEspera, NADA
  <2>1. /\ comm = "recibe" /\ comm' \in {"revisa", "vacia"}
        /\ camino'.id = -1 /\ camino'.vuelve = FALSE
        /\ UNCHANGED <<usuario, corriendo, salida, espera, rota>>
    BY <1>4 DEF Recibe, Vacio
  <2>2. us \in {"aguarda", "recoge"} => llamada.c \in Consultas
    BY DEF Tipos
  <2>3. CASE camino.vuelve
    <3>1. PICK cuerpo \in ConCuerpo :
                ultimo' = IF cuerpo THEN camino.id ELSE ultimo
      BY <1>4, <2>3 DEF Recibe
    <3>2. /\ buzon' = [c \in Consultas |->
                          IF c \in camino.pide THEN camino.id ELSE buzon[c]]
          /\ comm' = "revisa"
      BY <1>4, <2>3 DEF Recibe
    <3>3. camino.id # NADA /\ ultimo < camino.id /\ camino.id < siguiente
      BY <2>3
    <3>4. ultimo <= ultimo' /\ ultimo' < siguiente /\ ultimo' \in Int
      BY <1>0, <3>1, <3>3
    <3>5. ASSUME NEW c \in Consultas
          PROVE  buzon[c] <= buzon'[c] /\ buzon'[c] <= ultimo' /\ buzon'[c] \in Int
      <4>1. c \in camino.pide => cuerpo
        BY <3>1 DEF ConCuerpo
      <4> QED BY <1>0, <3>1, <3>2, <3>3, <4>1
    <3>6. EnSucesion'
      BY <1>0, <2>1, <3>2, <3>4, <3>5 DEF salida
    <3>7. Localizada'
      <4>1. SUFFICES ASSUME EnEspera
                     PROVE  espera = llamada.desde /\
                            \/ siguiente = llamada.desde /\ llamada.c \in pide
                            \/ buzon'[llamada.c] >= llamada.desde
        BY <2>1 DEF usuario, salida
      <4>2. llamada.c \in Consultas
        BY <2>2, <4>1
      <4>3. camino.id = llamada.desde /\ llamada.c \in camino.pide
               => buzon'[llamada.c] >= llamada.desde
        BY <1>0, <3>2, <4>2
      <4>4. buzon[llamada.c] <= buzon'[llamada.c] /\ buzon'[llamada.c] \in Int
        BY <3>5, <4>2
      <4>5. buzon[llamada.c] >= llamada.desde => buzon'[llamada.c] >= llamada.desde
        BY <1>0, <4>2, <4>4
      <4> QED BY <3>3, <4>1, <4>3, <4>5
    <3>8. VistaATiempo'
      BY <1>0, <2>1, <3>4 DEF usuario
    <3>9. FinAlFinal' /\ RespuestaPropia'
      BY <2>1, <3>2 DEF usuario
    <3> QED BY <3>6, <3>7, <3>8, <3>9
  <2>4. CASE ~camino.vuelve
    <3>1. rota /\ comm' = "vacia" /\ UNCHANGED entrada
      BY <1>4, <2>4 DEF Recibe
    <3>2. Localizada'
      BY <1>0, <2>1, <3>1 DEF usuario, salida, entrada
    <3>3. -1 < siguiente
      BY <1>0
    <3>4. EnSucesion'
      BY <2>1, <3>1, <3>3 DEF salida, entrada
    <3>5. VistaATiempo' /\ FinAlFinal' /\ RespuestaPropia'
      BY <2>1, <3>1 DEF usuario, entrada
    <3> QED BY <3>2, <3>4, <3>5
  <2> QED BY <2>3, <2>4
<1>5. CASE Vacia
  <2> USE DEF Respuesta, EnSucesion, FinAlFinal, Localizada, VistaATiempo,
              RespuestaPropia, EnEspera, NADA
  <2>1. /\ comm = "vacia" /\ comm' = "aparcado" /\ camino.id = -1
        /\ buzon' = [c \in Consultas |-> NADA]
        /\ UNCHANGED <<usuario, corriendo, siguiente, ultimo, espera, camino, rota>>
    BY <1>5 DEF Vacia
  <2>2. -1 <= ultimo
    BY RemotoSupuestos DEF Tipos, TypeOK, Mensajes
  <2>3. EnSucesion'
    BY <2>1, <2>2
  <2>4. us \in {"aguarda", "recoge"} => llamada.c \in Consultas
    BY DEF Tipos
  <2>5. Localizada'
    BY <2>1, <2>4 DEF usuario
  <2>6. FinAlFinal' /\ VistaATiempo' /\ RespuestaPropia'
    BY <2>1 DEF usuario
  <2> QED BY <2>3, <2>5, <2>6
<1>6. CASE Atiende
  <2> USE DEF Respuesta, EnSucesion, FinAlFinal, Localizada, VistaATiempo,
              RespuestaPropia, EnEspera, NADA
  <2>1. /\ camino.id # NADA /\ ~rota
        /\ camino' = [camino EXCEPT !.vuelve = TRUE]
        /\ UNCHANGED <<usuario, comm, corriendo, salida, entrada, espera>>
    BY <1>6 DEF Atiende
  <2>2. camino'.id = camino.id /\ camino'.pide = camino.pide
    BY <2>1 DEF Tipos, TypeOK
  <2> QED BY <2>1, <2>2 DEF usuario, salida, entrada
<1>7. CASE Rompe
  <2> USE DEF Respuesta, EnSucesion, FinAlFinal, Localizada, VistaATiempo,
              RespuestaPropia, EnEspera, NADA
  <2>1. /\ rota' = TRUE /\ camino'.id = -1 /\ camino'.vuelve = FALSE
        /\ ~rota /\ comm # "vacia"
        /\ UNCHANGED <<usuario, comm, corriendo, salida, entrada, espera>>
    BY <1>7 DEF Rompe, Vacio
  <2>2. Localizada'
    BY <1>0, <2>1 DEF usuario, salida, entrada
  <2>3. EnSucesion'
    BY <1>0, <2>1 DEF salida, entrada
  <2> QED BY <2>1, <2>2, <2>3 DEF usuario, entrada
<1> QED BY <1>1, <1>2, <1>3, <1>4, <1>5, <1>6, <1>7 DEF HiloComunicacion

LEMMA RespuestaSiempre == Spec => []Respuesta
<1>1. Init => Respuesta
  BY RespuestaInit
<1>2. Tipos /\ Respuesta /\ [Next]_vars => Respuesta'
  <2>1. CASE UNCHANGED vars
    BY <2>1, RespuestaQuieta DEF vars, usuario, salida, entrada, Respuesta, EnSucesion
  <2> QED BY <2>1, RespuestaUsuario, RespuestaMensajes DEF Next
<1> QED BY <1>1, <1>2, TiposSiempre, PTL DEF Spec

\* A call that waited and reports no timeout returns a value computed after it
\* began, however many queries, orders and messages there are.
THEOREM RespuestasPropias == Spec => []RespuestaPropia
<1>1. Respuesta => RespuestaPropia
  BY DEF Respuesta
<1> QED BY <1>1, RespuestaSiempre, PTL

-----------------------------------------------------------------------------
(* The last order is never lost while the connection lasts *)

\* Nothing is given before the connection is made, and nothing is on its way
\* but between sending and receiving.
Ida ==
    /\ comm # "recibe" => camino = Vacio
    /\ comm = "conecta" =>
          /\ conexion = NADA
          /\ \A o \in Ordenes : emitido[o] = 0 /\ ordena[o] = 0 /\ mundo[o] = 0
    /\ us \notin {"arranca", "finaliza", "duerme", "une", "fin"} => comm # "conecta"

Conectada == conexion # NADA /\ ~rota /\ comm # "vacia"

\* Where the last value given to each joint is.
Ultima ==
    Conectada =>
        \A o \in Ordenes :
            /\ emitido[o] = IF ordena[o] # 0 THEN ordena[o]
                            ELSE IF camino.ordena[o] # 0 THEN camino.ordena[o]
                            ELSE mundo[o]
            /\ camino.vuelve /\ camino.ordena[o] # 0 => mundo[o] = camino.ordena[o]

Entrega == Ida /\ Ultima

LEMMA EntregaInit == Init => Entrega
  BY DEF Init, Entrega, Ida, Ultima, Conectada

LEMMA EntregaQuieta ==
    ASSUME Entrega,
           UNCHANGED <<conexion, ordena, camino, rota, mundo, emitido>>,
           comm' = comm \/ comm \notin {"conecta", "recibe", "vacia"},
           comm' # "conecta" \/ comm = "conecta",
           us' \in {"arranca", "finaliza", "duerme", "une", "fin"} \/ comm # "conecta"
    PROVE  Entrega'
  BY DEF Entrega, Ida, Ultima, Conectada

LEMMA EntregaPaso ==
    ASSUME Tipos, Entrega, [Next]_vars
    PROVE  Entrega'
<1>1. CASE UNCHANGED vars
  BY <1>1 DEF vars, usuario, salida, historia, Entrega, Ida, Ultima, Conectada
<1>2. CASE TerminaArranque
  BY <1>2, EntregaQuieta DEF TerminaArranque, salida, historia, Entrega, Ida
<1>3. CASE DejaEsperar \/ Recoge \/ Retira \/ Pausa \/ Termina
  BY <1>3, EntregaQuieta
     DEF DejaEsperar, Recoge, Retira, Pausa, Termina, usuario, salida, historia,
         Entrega, Ida
<1>4. CASE Finaliza \/ PideFin \/ Une
  BY <1>4, EntregaQuieta DEF Finaliza, PideFin, Une, salida, historia
<1>5. ASSUME NEW c \in Consultas, NEW espere \in BOOLEAN, Consulta(c, espere)
      PROVE  Entrega'
  BY <1>5, EntregaQuieta DEF Consulta, historia, Entrega, Ida
<1>6. ASSUME NEW o \in Ordenes, Ordena(o)
      PROVE  Entrega'
  <2>1. /\ us = "libre" /\ comm # "conecta"
        /\ emitido' = [emitido EXCEPT ![o] = @ + 1]
        /\ ordena' = [ordena EXCEPT ![o] = emitido'[o]]
        /\ UNCHANGED <<us, comm, conexion, camino, rota, mundo>>
    BY <1>6 DEF Ordena, Anota, usuario, Entrega, Ida
  <2>2. emitido \in [Ordenes -> Nat] /\ ordena \in [Ordenes -> Nat]
    BY RemotoSupuestos DEF Tipos, TypeOK, Valores
  <2>3. emitido'[o] # 0 /\ ordena'[o] = emitido'[o]
    BY <2>1, <2>2
  <2>4. \A q \in Ordenes \ {o} : emitido'[q] = emitido[q] /\ ordena'[q] = ordena[q]
    BY <2>1, <2>2
  <2>5. Ida'
    BY <2>1 DEF Entrega, Ida
  <2>6. Ultima'
    BY <2>1, <2>3, <2>4 DEF Entrega, Ultima, Conectada
  <2> QED BY <2>5, <2>6 DEF Entrega
<1>7. CASE Conecta
  <2>1. /\ comm = "conecta" /\ comm' \in {"revisa", "aparcado", "fin"}
        /\ UNCHANGED <<us, ordena, camino, rota, mundo, emitido>>
    BY <1>7 DEF Conecta, usuario, salida, historia
  <2>2. camino = Vacio
    BY <2>1 DEF Entrega, Ida
  <2>3. Ida'
    BY <2>1, <2>2 DEF Entrega, Ida, Vacio
  <2>4. Ultima'
    BY <2>1, <2>2 DEF Entrega, Ida, Ultima, Vacio
  <2> QED BY <2>3, <2>4 DEF Entrega
<1>8. CASE Revisa \/ Gira \/ Bloquea \/ Sale
  BY <1>8, EntregaQuieta
     DEF Revisa, Gira, Bloquea, Sale, usuario, salida, historia
<1>9. CASE Envia
  <2>1. /\ comm = "envia" /\ camino = Vacio
        /\ ordena' = [o \in Ordenes |-> 0]
        /\ comm' \in {"vacia", "recibe"}
        /\ UNCHANGED <<us, conexion, mundo, emitido>>
    BY <1>9 DEF Envia, usuario, Entrega, Ida
  <2>2. comm' = "vacia" => camino' = camino
    BY <1>9 DEF Envia
  <2>3. comm' = "recibe" =>
           /\ rota' = rota
           /\ camino' = [id |-> siguiente, pide |-> pide, ordena |-> ordena,
                         vuelve |-> FALSE]
    BY <1>9 DEF Envia
  <2>4. Ida'
    BY <2>1, <2>2 DEF Ida
  <2>5. \A o \in Ordenes : camino.ordena[o] = 0
    BY <2>1 DEF Vacio
  <2>6. Ultima'
    BY <2>1, <2>3, <2>5 DEF Entrega, Ultima, Conectada
  <2> QED BY <2>4, <2>6 DEF Entrega
<1>10. CASE Recibe
  <2>1. /\ comm = "recibe" /\ camino' = Vacio
        /\ comm' \in {"revisa", "vacia"}
        /\ comm' = "revisa" => camino.vuelve
        /\ UNCHANGED <<us, conexion, ordena, rota, mundo, emitido>>
    BY <1>10 DEF Recibe, usuario, salida, historia
  <2>2. Ida'
    BY <2>1 DEF Entrega, Ida
  <2>3. \A o \in Ordenes : camino'.ordena[o] = 0
    BY <2>1 DEF Vacio
  <2>4. Ultima'
    BY <2>1, <2>3 DEF Entrega, Ultima, Conectada
  <2> QED BY <2>2, <2>4 DEF Entrega
<1>11. CASE Vacia
  <2>1. /\ comm = "vacia" /\ comm' = "aparcado" /\ conexion' = NADA
        /\ UNCHANGED <<us, camino>>
    BY <1>11 DEF Vacia, usuario
  <2> QED BY <2>1 DEF Entrega, Ida, Ultima, Conectada
<1>12. CASE Atiende
  <2>1. /\ ~rota /\ UNCHANGED <<us, comm, conexion, ordena, emitido>>
        /\ mundo' = [o \in Ordenes |->
                       IF camino.ordena[o] # 0 THEN camino.ordena[o] ELSE mundo[o]]
        /\ camino' = [camino EXCEPT !.vuelve = TRUE]
        /\ camino.id # NADA
    BY <1>12 DEF Atiende, usuario, salida, historia
  <2>2. comm = "recibe"
    BY <2>1 DEF Entrega, Ida, Vacio
  <2>3. camino'.ordena = camino.ordena
    BY <2>1 DEF Tipos, TypeOK
  <2>4. Ida'
    BY <2>1, <2>2 DEF Entrega, Ida
  <2>5. Ultima'
    BY <2>1, <2>3 DEF Entrega, Ultima, Conectada
  <2> QED BY <2>4, <2>5 DEF Entrega
<1>13. CASE Rompe
  <2>1. /\ rota' = TRUE /\ camino' = Vacio /\ comm # "conecta"
        /\ UNCHANGED <<us, comm>>
    BY <1>13 DEF Rompe, usuario
  <2> QED BY <2>1 DEF Entrega, Ida, Ultima, Conectada
<1> QED BY <1>1, <1>2, <1>3, <1>4, <1>5, <1>6, <1>7, <1>8, <1>9, <1>10, <1>11,
           <1>12, <1>13
        DEF Next, Llama, EnLlamada, HiloComunicacion

LEMMA EntregaSiempre == Spec => []Entrega
<1>1. Init => Entrega
  BY EntregaInit
<1>2. Tipos /\ Entrega /\ [Next]_vars => Entrega'
  BY EntregaPaso
<1> QED BY <1>1, <1>2, TiposSiempre, PTL DEF Spec

\* While the connection lasts the last value given to each joint is in the
\* outgoing message, on its way or in the simulator.
THEOREM OrdenesNoSePierden == Spec => []NoSePierde
<1>1. Entrega => NoSePierde
  BY DEF Entrega, Ultima, Conectada, NoSePierde
<1> QED BY <1>1, EntregaSiempre, PTL

=============================================================================
