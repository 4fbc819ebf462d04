---------------------------- MODULE ErpUdpProofs ----------------------------
(***************************************************************************)
(* Theorems about ErpUdp, for any capacities, delays, clients and numbers  *)
(* of datagrams.                                                           *)
(***************************************************************************)
EXTENDS ErpUdp, TLAPS

\* The two threads of a direction that has something to do, or the clock.
LEMMA QuienMueve ==
    ASSUME [Next]_vars
    PROVE  \/ \E s \in Sentidos : Entrada(s) \/ Salida(s) \/ RetornoEspurio(s)
           \/ Avanza
           \/ UNCHANGED vars
  BY DEF Next

-----------------------------------------------------------------------------
(* Type correctness                                                        *)

LEMMA HilosEntrada ==
    ASSUME TipoHilos, NEW s \in Sentidos, Entrada(s)
    PROVE  TipoHilos'
<1> USE DEF TipoHilos, PasoEntrada, reloj, cerrojos, EstadosEntrada
<1>1. CASE RecibeDelCliente
  BY <1>1 DEF RecibeDelCliente
<1>2. CASE RecibeDelServidor
  BY <1>2 DEF RecibeDelServidor
<1>3. CASE BloqueaDireccion
  BY <1>3 DEF BloqueaDireccion, TomaDireccion
<1>4. CASE CopiaPuerto
  BY <1>4 DEF CopiaPuerto
<1>5. CASE CopiaIP
  BY <1>5 DEF CopiaIP
<1>6. CASE SellaLlegada(s)
  BY <1>6 DEF SellaLlegada
<1>7. CASE BloqueaEntrada(s)
  BY <1>7 DEF BloqueaEntrada, Toma
<1>8. CASE EscribeDatos(s)
  BY <1>8 DEF EscribeDatos
<1>9. CASE AnotaTiempo(s)
  BY <1>9 DEF AnotaTiempo, Avisa, Suelta
<1> QED BY <1>1, <1>2, <1>3, <1>4, <1>5, <1>6, <1>7, <1>8, <1>9 DEF Entrada

LEMMA HilosSalida ==
    ASSUME TipoHilos, NEW s \in Sentidos, Salida(s)
    PROVE  TipoHilos'
<1> USE DEF TipoHilos, PasoSalida, reloj, cerrojos, EstadosSalida, ConSello
<1>1. CASE BloqueaSalida(s)
  BY <1>1 DEF BloqueaSalida, Toma
<1>2. CASE Sondea(s)
  BY <1>2 DEF Sondea, Suelta
<1>3. CASE Despierta(s)
  BY <1>3 DEF Despierta
<1>4. CASE LeeDatos(s)
  BY <1>4 DEF LeeDatos
<1>5. CASE LeeTiempo(s)
  BY <1>5 DEF LeeTiempo
<1>6. CASE Calcula(s)
  BY <1>6 DEF Calcula
<1>7. CASE DivideEntreCero(s)
  BY <1>7 DEF DivideEntreCero
<1>8. CASE Sortea(s)
  <2>1. PICK hasta \in EstadosSalida : PasoSalida(s, "retarda", hasta)
    BY <1>8 DEF Sortea
  <2> QED BY <1>8, <2>1 DEF Sortea
<1>9. CASE TomaDireccionSalida
  BY <1>9 DEF TomaDireccionSalida, TomaDireccion
<1>10. CASE Envia(s)
  BY <1>10 DEF Envia
<1>11. CASE Termina(s)
  BY <1>11 DEF Termina, Suelta
<1> QED BY <1>1, <1>2, <1>3, <1>4, <1>5, <1>6, <1>7, <1>8, <1>9, <1>10, <1>11 DEF Salida

\* What arrived stays arrived: the numbers of a direction only grow.
LEMMA MasNumeros ==
    ASSUME NEW n \in Nat, NEW q \in Seq(1 .. n)
    PROVE  q \in Seq(1 .. n + 1) /\ q \in Seq(Nat)
  OBVIOUS

LEMMA MeteNumero ==
    ASSUME NEW n \in Nat, NEW q \in Seq(1 .. n), NEW k \in 1 .. n
    PROVE  /\ Append(q, k) \in Seq(1 .. n) /\ Append(q, k) \in Seq(Nat)
           /\ Len(Append(q, k)) = Len(q) + 1
  OBVIOUS

LEMMA SacaNumero ==
    ASSUME NEW n \in Nat, NEW q \in Seq(1 .. n), q # <<>>
    PROVE  /\ Head(q) \in 1 .. n /\ Head(q) \in Nat
           /\ Tail(q) \in Seq(1 .. n) /\ Tail(q) \in Seq(Nat)
           /\ Len(Tail(q)) = Len(q) - 1
  OBVIOUS

LEMMA UneNumeros ==
    ASSUME NEW n \in Nat, NEW q \in Seq(1 .. n), NEW r \in Seq(1 .. n)
    PROVE  q \o r \in Seq(1 .. n) /\ q \o r \in Seq(Nat)
  OBVIOUS

\* Whoever has read the clock for a datagram has a datagram.
LlegadaSellada ==
    \A s \in Sentidos : entrada[s] \in {"bloquea", "escribe", "anota"} => llegada[s] # <<>>

Tipos == TypeOK /\ LlegadaSellada

LEMMA TiposInit == Init => Tipos
<1> SUFFICES ASSUME Init PROVE Tipos
  OBVIOUS
<1>1. <<>> \in Seq(Nat) /\ Len(<<>>) = 0 /\ \A n \in Nat : <<>> \in Seq(1 .. n)
  OBVIOUS
<1>2. TipoHilos
  BY DEF Init, TipoHilos, EstadosEntrada, EstadosSalida
<1>3. TipoTubos
  BY <1>1, ErpSupuestos DEF Init, TipoTubos, Recibidos
<1>4. TipoLocales
  BY <1>1, ErpSupuestos DEF Init, TipoLocales, Recibidos, ConSello
<1> QED BY <1>2, <1>3, <1>4 DEF Init, Tipos, TypeOK, LlegadaSellada

\* What the entrada threads leave alone keeps its type while llegada grows.
LEMMA TubosQuietos ==
    ASSUME TipoTubos, UNCHANGED tubos
    PROVE  TipoTubos'
  BY DEF TipoTubos, tubos, Recibidos

LEMMA LocalesQuietos ==
    ASSUME TipoLocales, UNCHANGED <<tubos, locales, reenviados, direcciones, salida>>
    PROVE  TipoLocales'
  BY DEF TipoLocales, tubos, locales, direcciones, Recibidos

LEMMA NumerosEntrada ==
    ASSUME Tipos, NEW s \in Sentidos, Entrada(s)
    PROVE  TipoTubos' /\ TipoLocales' /\ LlegadaSellada'
<1> USE DEF Tipos, TypeOK, PasoEntrada, LlegadaSellada
<1>t. entrada \in [Sentidos -> EstadosEntrada]
  BY DEF TipoHilos
<1>1. CASE RecibeDelCliente
  <2>1. TipoTubos' /\ LlegadaSellada'
    BY <1>1, <1>t, TubosQuietos DEF RecibeDelCliente, tubos
  <2>2. TipoLocales'
    BY <1>1 DEF RecibeDelCliente, TipoLocales, tubos, locales, Recibidos
  <2> QED BY <2>1, <2>2
<1>2. CASE RecibeDelServidor
  BY <1>2, <1>t, TubosQuietos, LocalesQuietos DEF RecibeDelServidor, tubos
<1>3. CASE BloqueaDireccion
  BY <1>3, <1>t, TubosQuietos, LocalesQuietos DEF BloqueaDireccion, tubos
<1>4. CASE CopiaPuerto
  <2>1. TipoTubos' /\ LlegadaSellada'
    BY <1>4, <1>t, TubosQuietos DEF CopiaPuerto, tubos
  <2>2. direccionCliente' \in [puerto : Clientes \cup {SinDireccion}, ip : Clientes \cup {SinDireccion}]
    BY <1>4 DEF CopiaPuerto, TipoLocales
  <2>3. TipoLocales'
    BY <1>4, <2>2 DEF CopiaPuerto, TipoLocales, tubos, locales, Recibidos
  <2> QED BY <2>1, <2>3
<1>5. CASE CopiaIP
  <2>1. TipoTubos' /\ LlegadaSellada'
    BY <1>5, <1>t, TubosQuietos DEF CopiaIP, tubos
  <2>2. direccionCliente' \in [puerto : Clientes \cup {SinDireccion}, ip : Clientes \cup {SinDireccion}]
    BY <1>5 DEF CopiaIP, TipoLocales
  <2>3. TipoLocales'
    BY <1>5, <2>2 DEF CopiaIP, TipoLocales, tubos, locales, Recibidos
  <2> QED BY <2>1, <2>3
<1>6. CASE SellaLlegada(s)
  <2>1. llegada' = [llegada EXCEPT ![s] = Append(@, ahora)] /\ ahora \in Nat
    BY <1>6 DEF SellaLlegada, Mete, TipoHilos
  <2>2. llegada' \in [Sentidos -> Seq(Nat)] /\ llegada'[s] # <<>>
    <3>1. llegada[s] \in Seq(Nat)
      BY DEF TipoTubos
    <3>2. Append(llegada[s], ahora) \in Seq(Nat) /\ Append(llegada[s], ahora) # <<>>
      BY <2>1, <3>1
    <3> QED BY <2>1, <3>2 DEF TipoTubos
  <2>3. ASSUME NEW r \in Sentidos
        PROVE  Len(llegada[r]) \in Nat /\ Len(llegada'[r]) \in {Len(llegada[r]), Len(llegada[r]) + 1}
    BY <2>1 DEF TipoTubos
  <2>4. ASSUME NEW r \in Sentidos, NEW q \in Seq(Recibidos(r))
        PROVE  q \in Seq(Recibidos(r)')
    BY <2>3, MasNumeros DEF Recibidos
  <2>5. ASSUME NEW r \in Sentidos PROVE Recibidos(r) \subseteq Recibidos(r)'
    BY <2>3 DEF Recibidos
  <2>6. TipoTubos'
    BY <1>6, <2>2, <2>4 DEF SellaLlegada, TipoTubos
  <2>7. TipoLocales'
    BY <1>6, <2>4, <2>5 DEF SellaLlegada, TipoLocales, locales, direcciones
  <2>8. LlegadaSellada'
    BY <1>6, <1>t, <2>1, <2>2 DEF SellaLlegada, TipoTubos
  <2> QED BY <2>6, <2>7, <2>8
<1>7. CASE BloqueaEntrada(s)
  BY <1>7, <1>t, TubosQuietos, LocalesQuietos DEF BloqueaEntrada, tubos
<1>n. ASSUME entrada[s] \in {"escribe", "anota"}
      PROVE  Len(llegada[s]) \in Nat /\ Len(llegada[s]) \in Recibidos(s)
  BY <1>n DEF TipoTubos, Recibidos
<1>8. CASE EscribeDatos(s)
  <2>1. Len(llegada[s]) \in Nat /\ Len(llegada[s]) \in Recibidos(s)
    BY <1>8, <1>n DEF EscribeDatos
  <2>2. LlegadaSellada' /\ TipoLocales'
    BY <1>8, <1>t DEF EscribeDatos, TipoLocales, locales, direcciones, Recibidos
  <2>3. CASE Len(datos[s]) < TUBO /\ Mete(datos, s, Len(llegada[s]))
    <3>1. /\ Append(datos[s], Len(llegada[s])) \in Seq(Recibidos(s))
          /\ Append(datos[s], Len(llegada[s])) \in Seq(Nat)
          /\ Len(Append(datos[s], Len(llegada[s]))) <= TUBO
      BY <2>1, <2>3, MeteNumero, ErpSupuestos DEF TipoTubos, Recibidos
    <3> QED BY <1>8, <2>2, <2>3, <3>1 DEF EscribeDatos, TipoTubos, Mete, Recibidos
  <2>4. CASE UNCHANGED datos
    BY <1>8, <2>2, <2>4, TubosQuietos DEF EscribeDatos, tubos
  <2> QED BY <1>8, <2>3, <2>4 DEF EscribeDatos
<1>9. CASE AnotaTiempo(s)
  <2>1. Len(llegada[s]) \in Nat /\ Len(llegada[s]) \in Recibidos(s)
    BY <1>9, <1>n DEF AnotaTiempo
  <2>2. LlegadaSellada' /\ TipoLocales'
    BY <1>9, <1>t DEF AnotaTiempo, TipoLocales, locales, direcciones, Recibidos
  <2>3. /\ Append(tiempos[s], Len(llegada[s])) \in Seq(Recibidos(s))
        /\ Append(tiempos[s], Len(llegada[s])) \in Seq(Nat)
        /\ Len(Append(tiempos[s], Len(llegada[s]))) <= TUBO_TIEMPO
    BY <1>9, <2>1, MeteNumero, ErpSupuestos DEF AnotaTiempo, TipoTubos, Recibidos
  <2> QED BY <1>9, <2>2, <2>3 DEF AnotaTiempo, TipoTubos, Mete, Recibidos
<1> QED BY <1>1, <1>2, <1>3, <1>4, <1>5, <1>6, <1>7, <1>8, <1>9 DEF Entrada

LEMMA NumerosSalida ==
    ASSUME Tipos, NEW s \in Sentidos, Salida(s)
    PROVE  TipoTubos' /\ TipoLocales' /\ LlegadaSellada'
<1> USE DEF Tipos, TypeOK, PasoSalida, LlegadaSellada
<1>n. /\ Len(llegada[s]) \in Nat
      /\ <<>> \in Seq(Recibidos(s)) /\ <<>> \in Seq(Nat) /\ Len(<<>>) = 0
  BY DEF TipoTubos
<1>t. salida \in [Sentidos -> EstadosSalida]
  BY DEF TipoHilos
<1>q. ASSUME UNCHANGED <<tubos, locales, reenviados, direcciones, entrada>>,
             \A r \in Sentidos : salida'[r] \in ConSello => salida[r] \in ConSello
      PROVE  TipoTubos' /\ TipoLocales' /\ LlegadaSellada'
  <2>1. TipoTubos' /\ LlegadaSellada'
    BY <1>q, TubosQuietos DEF tubos
  <2>2. TipoLocales'
    BY <1>q DEF TipoLocales, tubos, locales, direcciones, Recibidos
  <2> QED BY <2>1, <2>2
<1>1. CASE BloqueaSalida(s)
  <2>1. \A r \in Sentidos : salida'[r] \in ConSello => salida[r] \in ConSello
    BY <1>1, <1>t DEF BloqueaSalida, ConSello
  <2> QED BY <1>1, <1>q, <2>1 DEF BloqueaSalida
<1>2. CASE Sondea(s)
  <2>1. \A r \in Sentidos : salida'[r] \in ConSello => salida[r] \in ConSello
    BY <1>2, <1>t DEF Sondea, ConSello
  <2> QED BY <1>2, <1>q, <2>1 DEF Sondea
<1>3. CASE Despierta(s)
  <2>1. \A r \in Sentidos : salida'[r] \in ConSello => salida[r] \in ConSello
    BY <1>3, <1>t DEF Despierta, ConSello
  <2> QED BY <1>3, <1>q, <2>1 DEF Despierta
<1>4. CASE LeeDatos(s)
  <2>1. datos[s] \in Seq(Recibidos(s)) /\ datos[s] \in Seq(Nat)
    BY DEF TipoTubos
  <2>2. TipoTubos' /\ LlegadaSellada'
    <3>1. Len(<<>>) <= TUBO
      BY <1>n, ErpSupuestos
    <3>2. /\ datos' = [datos EXCEPT ![s] = <<>>]
          /\ UNCHANGED <<llegada, tiempos, entrada>>
      BY <1>4 DEF LeeDatos
    <3>3. datos' \in [Sentidos -> Seq(Nat)] /\ \A r \in Sentidos : datos'[r] \in {datos[r], <<>>}
      BY <1>n, <3>2 DEF TipoTubos
    <3>4. \A r \in Sentidos : datos'[r] \in Seq(Recibidos(r)) /\ Len(datos'[r]) <= TUBO
      BY <1>n, <3>1, <3>3 DEF TipoTubos, Recibidos
    <3> QED BY <3>2, <3>3, <3>4 DEF TipoTubos, Recibidos
  <2>3. TipoLocales'
    BY <1>4, <1>t, <2>1 DEF LeeDatos, TipoLocales, direcciones, Recibidos, ConSello
  <2> QED BY <2>2, <2>3
<1>5. CASE LeeTiempo(s)
  <2>1. tiempos[s] \in Seq(Recibidos(s)) /\ tiempos[s] # <<>> /\ Len(tiempos[s]) <= TUBO_TIEMPO
    BY <1>5 DEF LeeTiempo, TipoTubos
  <2>2. /\ Head(tiempos[s]) \in Recibidos(s) /\ Head(tiempos[s]) \in Nat
        /\ Tail(tiempos[s]) \in Seq(Recibidos(s)) /\ Tail(tiempos[s]) \in Seq(Nat)
        /\ Len(Tail(tiempos[s])) <= TUBO_TIEMPO
    <3>1. /\ Head(tiempos[s]) \in Recibidos(s) /\ Head(tiempos[s]) \in Nat
          /\ Tail(tiempos[s]) \in Seq(Recibidos(s)) /\ Tail(tiempos[s]) \in Seq(Nat)
          /\ Len(Tail(tiempos[s])) = Len(tiempos[s]) - 1
      BY <1>n, <2>1, SacaNumero DEF Recibidos
    <3>2. Len(tiempos[s]) \in Nat
      BY <2>1
    <3> QED BY <2>1, <3>1, <3>2, ErpSupuestos
  <2>3. TipoTubos' /\ LlegadaSellada'
    BY <1>5, <2>2 DEF LeeTiempo, TipoTubos, Recibidos
  <2>4. TipoLocales'
    BY <1>5, <1>t, <2>2 DEF LeeTiempo, TipoLocales, direcciones, Recibidos
  <2> QED BY <2>3, <2>4
<1>6. CASE Calcula(s)
  <2>1. sello[s] \in Recibidos(s) /\ t_reenvio[s] \in Nat
    BY <1>6 DEF Calcula, TipoLocales, ConSello
  <2>2. t_ll(s) \in Nat
    BY <1>n, <2>1 DEF t_ll, TipoTubos, Recibidos
  <2>3. t1(s) \in Int /\ t2(s) \in Int
    BY <2>1, <2>2, ErpSupuestos DEF t1, t2, Mayor
  <2>4. PICK u_sec \in Siestas(s) : despierta' = [despierta EXCEPT ![s] = ahora + u_sec]
    BY <1>6 DEF Calcula
  <2>5. ahora + u_sec \in Nat
    BY <2>3, <2>4 DEF Siestas, Mayor, TipoHilos
  <2>6. TipoTubos' /\ LlegadaSellada'
    BY <1>6, TubosQuietos DEF Calcula, tubos
  <2>7. TipoLocales'
    BY <1>6, <1>t, <2>1, <2>4, <2>5 DEF Calcula, TipoLocales, tubos, direcciones, Recibidos
  <2> QED BY <2>6, <2>7
<1>7. CASE DivideEntreCero(s)
  BY <1>7, TubosQuietos, LocalesQuietos DEF DivideEntreCero, tubos
<1>8. CASE Sortea(s)
  <2>1. PICK hasta \in ConSello : PasoSalida(s, "retarda", hasta)
    BY <1>8 DEF Sortea, ConSello
  <2>2. \A r \in Sentidos : salida'[r] \in ConSello => salida[r] \in ConSello
    BY <2>1, <1>t DEF ConSello
  <2> QED BY <1>8, <1>q, <2>1, <2>2 DEF Sortea
<1>9. CASE TomaDireccionSalida
  <2>1. \A r \in Sentidos : salida'[r] \in ConSello => salida[r] \in ConSello
    BY <1>9, <1>t DEF TomaDireccionSalida, ConSello
  <2> QED BY <1>9, <1>q, <2>1 DEF TomaDireccionSalida
<1>10. CASE Envia(s)
  <2>1. /\ mensaje[s] \in Seq(Recibidos(s)) /\ reenviados[s] \in Seq(Recibidos(s))
        /\ reenviados[s] \o mensaje[s] \in Seq(Recibidos(s))
        /\ reenviados[s] \o mensaje[s] \in Seq(Nat)
    BY <1>n, UneNumeros DEF TipoLocales, Recibidos
  <2>2. TipoTubos' /\ LlegadaSellada'
    BY <1>10, TubosQuietos DEF Envia, tubos
  <2>3. \/ reenviados' = reenviados
        \/ reenviados' = [reenviados EXCEPT ![s] = reenviados[s] \o mensaje[s]]
    BY <1>10 DEF Envia
  <2>4. TipoLocales'
    BY <1>10, <1>t, <1>n, <2>1, <2>3
    DEF Envia, TipoLocales, tubos, direcciones, Recibidos, ConSello
  <2> QED BY <2>2, <2>4
<1>11. CASE Termina(s)
  <2>1. TipoTubos' /\ LlegadaSellada'
    BY <1>11, TubosQuietos DEF Termina, tubos
  <2>2. TipoLocales'
    BY <1>11, <1>t, <1>n DEF Termina, TipoLocales, TipoHilos, tubos, direcciones, Recibidos, ConSello
  <2> QED BY <2>1, <2>2
<1> QED BY <1>1, <1>2, <1>3, <1>4, <1>5, <1>6, <1>7, <1>8, <1>9, <1>10, <1>11 DEF Salida

LEMMA TiposPaso == Tipos /\ [Next]_vars => Tipos'
<1> SUFFICES ASSUME Tipos, [Next]_vars PROVE Tipos'
  OBVIOUS
<1> USE DEF Tipos, TypeOK
<1>1. ASSUME NEW s \in Sentidos, Entrada(s) PROVE Tipos'
  BY <1>1, HilosEntrada, NumerosEntrada
<1>2. ASSUME NEW s \in Sentidos, Salida(s) PROVE Tipos'
  BY <1>2, HilosSalida, NumerosSalida
<1>3. ASSUME NEW s \in Sentidos, RetornoEspurio(s) PROVE Tipos'
  <2>1. TipoHilos'
    BY <1>3 DEF RetornoEspurio, TipoHilos, reloj
  <2> QED BY <1>3, <2>1, TubosQuietos, LocalesQuietos
    DEF RetornoEspurio, tubos, LlegadaSellada
<1>4. CASE Avanza
  <2>1. TipoHilos'
    BY <1>4 DEF Avanza, TipoHilos, cerrojos
  <2> QED BY <1>4, <2>1, TubosQuietos, LocalesQuietos DEF Avanza, tubos, LlegadaSellada
<1>5. CASE UNCHANGED vars
  <2>1. TipoHilos'
    BY <1>5 DEF vars, TipoHilos, cerrojos, reloj
  <2> QED BY <1>5, <2>1, TubosQuietos, LocalesQuietos DEF vars, tubos, LlegadaSellada
<1> QED BY <1>1, <1>2, <1>3, <1>4, <1>5, QuienMueve

LEMMA TiposSiempre == Spec => []Tipos
  BY TiposInit, TiposPaso, PTL DEF Spec

\* Whatever the capacities and the delays, the pipes, the mutexes and the
\* threads' locals keep their types: no pipe holds more than it can, and what
\* they hold has arrived.
THEOREM TiposCorrectos == Spec => []TypeOK
  BY TiposSiempre, PTL DEF Tipos

-----------------------------------------------------------------------------
(* Who owns the mutexes                                                    *)

ConFIFO == {"sondea", "lee", "leeTiempo"} \cup ConSello

\* The mutex of a direction belongs to the thread that is between its lock
\* and its unlock; a thread that waits on the condition variable has given
\* it up.
CandadoDe(s) ==
    /\ FIFO[s] = "entrada" <=> entrada[s] \in {"escribe", "anota"}
    /\ FIFO[s] = "salida" <=> salida[s] \in ConFIFO
    /\ esperando[s] => salida[s] = "duerme"

Candado == \A s \in Sentidos : CandadoDe(s)

\* The same for the mutex of the client's address.
CandadoDireccion ==
    /\ mutex_cliaddr = "entrada" <=> entrada["Cliente"] \in {"copiaPuerto", "copiaIP"}
    /\ mutex_cliaddr = "salida" <=> salida["Servidor"] = "envia"

LEMMA CandadoEntrada ==
    ASSUME TipoHilos, Candado, NEW s \in Sentidos, Entrada(s)
    PROVE  Candado'
<1> USE DEF TipoHilos, PasoEntrada, cerrojos, Candado, CandadoDe
<1>1. CASE RecibeDelCliente
  BY <1>1 DEF RecibeDelCliente
<1>2. CASE RecibeDelServidor
  BY <1>2 DEF RecibeDelServidor
<1>3. CASE BloqueaDireccion
  BY <1>3 DEF BloqueaDireccion, TomaDireccion
<1>4. CASE CopiaPuerto
  BY <1>4 DEF CopiaPuerto
<1>5. CASE CopiaIP
  BY <1>5 DEF CopiaIP
<1>6. CASE SellaLlegada(s)
  BY <1>6 DEF SellaLlegada
<1>7. CASE BloqueaEntrada(s)
  BY <1>7 DEF BloqueaEntrada, Toma
<1>8. CASE EscribeDatos(s)
  BY <1>8 DEF EscribeDatos
<1>9. CASE AnotaTiempo(s)
  BY <1>9 DEF AnotaTiempo, Avisa, Suelta
<1> QED BY <1>1, <1>2, <1>3, <1>4, <1>5, <1>6, <1>7, <1>8, <1>9 DEF Entrada

LEMMA CandadoSalida ==
    ASSUME TipoHilos, Candado, NEW s \in Sentidos, Salida(s)
    PROVE  Candado'
<1> USE DEF TipoHilos, PasoSalida, cerrojos, Candado, CandadoDe, ConFIFO, ConSello
<1>1. CASE BloqueaSalida(s)
  BY <1>1 DEF BloqueaSalida, Toma
<1>2. CASE Sondea(s)
  BY <1>2 DEF Sondea, Suelta
<1>3. CASE Despierta(s)
  BY <1>3 DEF Despierta
<1>4. CASE LeeDatos(s)
  BY <1>4 DEF LeeDatos
<1>5. CASE LeeTiempo(s)
  BY <1>5 DEF LeeTiempo
<1>6. CASE Calcula(s)
  BY <1>6 DEF Calcula
<1>7. CASE DivideEntreCero(s)
  BY <1>7 DEF DivideEntreCero
<1>8. CASE Sortea(s)
  BY <1>8 DEF Sortea
<1>9. CASE TomaDireccionSalida
  BY <1>9 DEF TomaDireccionSalida, TomaDireccion
<1>10. CASE Envia(s)
  BY <1>10 DEF Envia
<1>11. CASE Termina(s)
  BY <1>11 DEF Termina, Suelta
<1> QED BY <1>1, <1>2, <1>3, <1>4, <1>5, <1>6, <1>7, <1>8, <1>9, <1>10, <1>11 DEF Salida

LEMMA DireccionEntrada ==
    ASSUME TipoHilos, CandadoDireccion, NEW s \in Sentidos, Entrada(s)
    PROVE  CandadoDireccion'
<1> USE DEF TipoHilos, PasoEntrada, cerrojos, CandadoDireccion, Sentidos
<1>1. CASE RecibeDelCliente
  BY <1>1 DEF RecibeDelCliente
<1>2. CASE RecibeDelServidor
  BY <1>2 DEF RecibeDelServidor
<1>3. CASE BloqueaDireccion
  BY <1>3 DEF BloqueaDireccion, TomaDireccion
<1>4. CASE CopiaPuerto
  BY <1>4 DEF CopiaPuerto
<1>5. CASE CopiaIP
  BY <1>5 DEF CopiaIP
<1>6. CASE SellaLlegada(s)
  BY <1>6 DEF SellaLlegada
<1>7. CASE BloqueaEntrada(s)
  BY <1>7 DEF BloqueaEntrada, Toma
<1>8. CASE EscribeDatos(s)
  BY <1>8 DEF EscribeDatos
<1>9. CASE AnotaTiempo(s)
  BY <1>9 DEF AnotaTiempo, Avisa, Suelta
<1> QED BY <1>1, <1>2, <1>3, <1>4, <1>5, <1>6, <1>7, <1>8, <1>9 DEF Entrada

LEMMA DireccionSalida ==
    ASSUME TipoHilos, CandadoDireccion, NEW s \in Sentidos, Salida(s)
    PROVE  CandadoDireccion'
<1> USE DEF TipoHilos, PasoSalida, cerrojos, CandadoDireccion, Sentidos
<1>1. CASE BloqueaSalida(s)
  BY <1>1 DEF BloqueaSalida, Toma
<1>2. CASE Sondea(s)
  BY <1>2 DEF Sondea, Suelta
<1>3. CASE Despierta(s)
  BY <1>3 DEF Despierta
<1>4. CASE LeeDatos(s)
  BY <1>4 DEF LeeDatos
<1>5. CASE LeeTiempo(s)
  BY <1>5 DEF LeeTiempo
<1>6. CASE Calcula(s)
  BY <1>6 DEF Calcula
<1>7. CASE DivideEntreCero(s)
  BY <1>7 DEF DivideEntreCero
<1>8. CASE Sortea(s)
  BY <1>8 DEF Sortea
<1>9. CASE TomaDireccionSalida
  BY <1>9 DEF TomaDireccionSalida, TomaDireccion
<1>10. CASE Envia(s)
  BY <1>10 DEF Envia
<1>11. CASE Termina(s)
  BY <1>11 DEF Termina, Suelta
<1> QED BY <1>1, <1>2, <1>3, <1>4, <1>5, <1>6, <1>7, <1>8, <1>9, <1>10, <1>11 DEF Salida

Cerrojos == Tipos /\ Candado /\ CandadoDireccion

LEMMA CerrojosInit == Init => Cerrojos
<1> SUFFICES ASSUME Init PROVE Candado /\ CandadoDireccion
  BY TiposInit DEF Cerrojos
<1>1. Candado
  BY DEF Init, Candado, CandadoDe, ConFIFO, ConSello
<1>2. CandadoDireccion
  BY DEF Init, CandadoDireccion, Sentidos
<1> QED BY <1>1, <1>2

LEMMA CerrojosPaso == Cerrojos /\ [Next]_vars => Cerrojos'
<1> SUFFICES ASSUME Cerrojos, [Next]_vars PROVE Candado' /\ CandadoDireccion'
  BY TiposPaso DEF Cerrojos
<1> USE DEF Cerrojos, Tipos, TypeOK
<1>1. ASSUME NEW s \in Sentidos, Entrada(s) PROVE Candado' /\ CandadoDireccion'
  BY <1>1, CandadoEntrada, DireccionEntrada
<1>2. ASSUME NEW s \in Sentidos, Salida(s) PROVE Candado' /\ CandadoDireccion'
  BY <1>2, CandadoSalida, DireccionSalida
<1>3. ASSUME NEW s \in Sentidos, RetornoEspurio(s) PROVE Candado' /\ CandadoDireccion'
  BY <1>3 DEF RetornoEspurio, Candado, CandadoDe, CandadoDireccion, TipoHilos
<1>4. CASE Avanza
  BY <1>4 DEF Avanza, Candado, CandadoDe, CandadoDireccion, cerrojos
<1>5. CASE UNCHANGED vars
  BY <1>5 DEF vars, Candado, CandadoDe, CandadoDireccion, cerrojos
<1> QED BY <1>1, <1>2, <1>3, <1>4, <1>5, QuienMueve

LEMMA CerrojosSiempre == Spec => []Cerrojos
  BY CerrojosInit, CerrojosPaso, PTL DEF Spec

-----------------------------------------------------------------------------
(* What the two pipes of a direction say of each other                     *)

\* The bytes of a message never run ahead of their time: whenever the data
\* pipe holds something the time pipe does too, unless the writer is between
\* the two, and the oldest timestamp is never newer than the oldest bytes.
TuboDe(s) ==
    /\ esperando[s] /\ datos[s] # <<>> => entrada[s] = "anota"
    /\ salida[s] = "lee" => datos[s] # <<>>
    /\ salida[s] = "leeTiempo" =>
          /\ datos[s] = <<>> /\ mensaje[s] # <<>> /\ tiempos[s] # <<>>
          /\ Head(tiempos[s]) <= Head(mensaje[s])
    /\ datos[s] # <<>> /\ entrada[s] # "anota" => tiempos[s] # <<>>
    /\ datos[s] # <<>> /\ tiempos[s] # <<>> => Head(tiempos[s]) <= Head(datos[s])
    /\ datos[s] # <<>> /\ tiempos[s] = <<>> => Head(datos[s]) = Len(llegada[s])
    /\ salida[s] \in ConSello /\ mensaje[s] # <<>> => sello[s] <= Head(mensaje[s])

Tubos == \A s \in Sentidos : TuboDe(s)

LEMMA TubosInit == Init => Tubos
  BY DEF Init, Tubos, TuboDe, ConSello

\* A direction none of whose variables moves stays as it is.
LEMMA TuboAjeno ==
    ASSUME NEW r \in Sentidos, TuboDe(r),
           esperando'[r] = esperando[r], entrada'[r] = entrada[r], salida'[r] = salida[r],
           llegada'[r] = llegada[r], datos'[r] = datos[r], tiempos'[r] = tiempos[r],
           mensaje'[r] = mensaje[r], sello'[r] = sello[r]
    PROVE  TuboDe(r)'
  BY DEF TuboDe

\* Appending keeps the head, and makes one where there was none.
LEMMA CabezaTrasMeter ==
    ASSUME NEW q \in Seq(Nat), NEW k \in Nat
    PROVE  /\ Append(q, k) # <<>>
           /\ q # <<>> => Head(Append(q, k)) = Head(q)
           /\ q = <<>> => Head(Append(q, k)) = k
  OBVIOUS

LEMMA Cabeza ==
    ASSUME NEW n \in Nat, NEW q \in Seq(1 .. n), q # <<>>
    PROVE  Head(q) \in 1 .. n
  OBVIOUS

LEMMA TubosEntrada ==
    ASSUME Cerrojos, Tubos, NEW s \in Sentidos, Entrada(s)
    PROVE  Tubos'
<1> USE DEF Cerrojos, Tipos, TypeOK, PasoEntrada, cerrojos, tubos, locales
<1>t. entrada \in [Sentidos -> EstadosEntrada] /\ esperando \in [Sentidos -> BOOLEAN]
  BY DEF TipoHilos
<1>s. Len(llegada[s]) \in Nat
  BY DEF TipoTubos
<1>n. ASSUME entrada[s] \in {"bloquea", "escribe", "anota"}
      PROVE  Len(llegada[s]) >= 1
  BY <1>n, <1>s DEF TipoTubos, LlegadaSellada
<1>m. UNCHANGED <<salida, mensaje, sello>>
  BY DEF Entrada, RecibeDelCliente, RecibeDelServidor, BloqueaDireccion, CopiaPuerto, CopiaIP,
         SellaLlegada, BloqueaEntrada, EscribeDatos, AnotaTiempo
<1>1. CASE RecibeDelCliente
  BY <1>1, <1>t DEF RecibeDelCliente, Tubos, TuboDe
<1>2. CASE RecibeDelServidor
  BY <1>2, <1>t DEF RecibeDelServidor, Tubos, TuboDe
<1>3. CASE BloqueaDireccion
  BY <1>3, <1>t DEF BloqueaDireccion, Tubos, TuboDe
<1>4. CASE CopiaPuerto
  BY <1>4, <1>t DEF CopiaPuerto, Tubos, TuboDe
<1>5. CASE CopiaIP
  BY <1>5, <1>t DEF CopiaIP, Tubos, TuboDe
<1>6. CASE SellaLlegada(s)
  <2>1. TuboDe(s)'
    BY <1>6, <1>t DEF SellaLlegada, Tubos, TuboDe
  <2>2. ASSUME NEW r \in Sentidos, r # s PROVE TuboDe(r)'
    BY <1>6, <1>t, <2>2, TuboAjeno DEF SellaLlegada, Mete, Tubos, TipoTubos
  <2> QED BY <2>1, <2>2 DEF Tubos
<1>7. CASE BloqueaEntrada(s)
  BY <1>7, <1>t DEF BloqueaEntrada, Tubos, TuboDe
<1>8. CASE EscribeDatos(s)
  <2>1. CASE Mete(datos, s, Len(llegada[s]))
    <3>1. datos'[s] = Append(datos[s], Len(llegada[s])) /\ entrada'[s] = "anota"
      BY <1>8, <1>t, <2>1 DEF EscribeDatos, Mete, TipoTubos
    <3>2. datos'[s] # <<>> /\ (datos[s] # <<>> => Head(datos'[s]) = Head(datos[s]))
                           /\ (datos[s] = <<>> => Head(datos'[s]) = Len(llegada[s]))
      BY <1>s, <3>1, CabezaTrasMeter DEF TipoTubos
    <3>3. tiempos[s] # <<>> => Head(tiempos[s]) \in 1 .. Len(llegada[s])
      BY <1>s, Cabeza DEF TipoTubos, Recibidos
    <3>4. salida[s] \notin ConFIFO
      BY <1>8 DEF EscribeDatos, Candado, CandadoDe
    <3>5. TuboDe(s)'
      BY <1>8, <1>m, <1>s, <3>1, <3>2, <3>3, <3>4 DEF EscribeDatos, Tubos, TuboDe, ConFIFO
    <3>6. ASSUME NEW r \in Sentidos, r # s PROVE TuboDe(r)'
      BY <1>8, <1>t, <1>m, <2>1, <3>6, TuboAjeno DEF EscribeDatos, Mete, Tubos, TipoTubos
    <3> QED BY <3>5, <3>6 DEF Tubos
  <2>2. CASE UNCHANGED datos
    BY <1>8, <1>t, <2>2 DEF EscribeDatos, Tubos, TuboDe
  <2> QED BY <1>8, <2>1, <2>2 DEF EscribeDatos
<1>9. CASE AnotaTiempo(s)
  <2>1. /\ tiempos'[s] = Append(tiempos[s], Len(llegada[s]))
        /\ ~esperando'[s] /\ entrada'[s] = "recibe" /\ UNCHANGED <<datos, llegada>>
    BY <1>9, <1>t DEF AnotaTiempo, Avisa, Mete, TipoTubos
  <2>2. tiempos'[s] # <<>> /\ (tiempos[s] # <<>> => Head(tiempos'[s]) = Head(tiempos[s]))
                           /\ (tiempos[s] = <<>> => Head(tiempos'[s]) = Len(llegada[s]))
    BY <1>s, <2>1, CabezaTrasMeter DEF TipoTubos
  <2>3. salida[s] \notin ConFIFO
    BY <1>9 DEF AnotaTiempo, Candado, CandadoDe
  <2>4. TuboDe(s)'
    BY <1>m, <1>s, <2>1, <2>2, <2>3 DEF Tubos, TuboDe, ConFIFO
  <2>5. ASSUME NEW r \in Sentidos, r # s PROVE TuboDe(r)'
    BY <1>9, <1>t, <1>m, <2>5, TuboAjeno DEF AnotaTiempo, Avisa, Mete, Tubos, TipoTubos
  <2> QED BY <2>4, <2>5 DEF Tubos
<1> QED BY <1>1, <1>2, <1>3, <1>4, <1>5, <1>6, <1>7, <1>8, <1>9 DEF Entrada

LEMMA TubosSalida ==
    ASSUME Cerrojos, Tubos, NEW s \in Sentidos, Salida(s)
    PROVE  Tubos'
<1> USE DEF Cerrojos, Tipos, TypeOK, PasoSalida, cerrojos, tubos, locales
<1>t. /\ salida \in [Sentidos -> EstadosSalida] /\ esperando \in [Sentidos -> BOOLEAN]
      /\ datos \in [Sentidos -> Seq(Nat)] /\ tiempos \in [Sentidos -> Seq(Nat)]
      /\ mensaje \in [Sentidos -> Seq(Nat)] /\ sello \in [Sentidos -> Nat]
  BY DEF TipoHilos, TipoTubos, TipoLocales
<1>u. TuboDe(s) /\ CandadoDe(s)
  BY DEF Tubos, Candado
<1>r. ASSUME TuboDe(s)', \A r \in Sentidos \ {s} :
                 /\ esperando'[r] = esperando[r] /\ entrada'[r] = entrada[r]
                 /\ salida'[r] = salida[r] /\ llegada'[r] = llegada[r]
                 /\ datos'[r] = datos[r] /\ tiempos'[r] = tiempos[r]
                 /\ mensaje'[r] = mensaje[r] /\ sello'[r] = sello[r]
      PROVE  Tubos'
  BY <1>r, TuboAjeno DEF Tubos
<1>1. CASE BloqueaSalida(s)
  <2>1. TuboDe(s)'
    BY <1>1, <1>t, <1>u DEF BloqueaSalida, TuboDe, ConSello
  <2> QED BY <1>1, <1>t, <1>r, <2>1 DEF BloqueaSalida
<1>2. CASE Sondea(s)
  <2>1. TuboDe(s)'
    BY <1>2, <1>t, <1>u DEF Sondea, TuboDe, ConSello
  <2> QED BY <1>2, <1>t, <1>r, <2>1 DEF Sondea
<1>3. CASE Despierta(s)
  <2>1. TuboDe(s)'
    BY <1>3, <1>t, <1>u DEF Despierta, TuboDe, ConSello
  <2> QED BY <1>3, <1>t, <1>r, <2>1 DEF Despierta
<1>4. CASE LeeDatos(s)
  <2>1. entrada[s] # "anota"
    BY <1>4, <1>u DEF LeeDatos, CandadoDe, ConFIFO
  <2>2. TuboDe(s)'
    BY <1>4, <1>t, <1>u, <2>1 DEF LeeDatos, TuboDe, ConSello
  <2> QED BY <1>4, <1>t, <1>r, <2>2 DEF LeeDatos
<1>5. CASE LeeTiempo(s)
  <2>1. TuboDe(s)'
    BY <1>5, <1>t, <1>u DEF LeeTiempo, TuboDe, ConSello
  <2> QED BY <1>5, <1>t, <1>r, <2>1 DEF LeeTiempo
<1>6. CASE Calcula(s)
  <2>1. TuboDe(s)'
    BY <1>6, <1>t, <1>u DEF Calcula, TuboDe, ConSello
  <2> QED BY <1>6, <1>t, <1>r, <2>1 DEF Calcula
<1>7. CASE DivideEntreCero(s)
  BY <1>7 DEF DivideEntreCero, Tubos, TuboDe
<1>8. CASE Sortea(s)
  <2>1. PICK hasta \in ConSello : PasoSalida(s, "retarda", hasta)
    BY <1>8 DEF Sortea, ConSello
  <2>2. TuboDe(s)'
    BY <1>8, <1>t, <1>u, <2>1 DEF Sortea, TuboDe, ConSello
  <2> QED BY <1>8, <1>t, <1>r, <2>1, <2>2 DEF Sortea
<1>9. CASE TomaDireccionSalida
  BY <1>9, <1>t DEF TomaDireccionSalida, Tubos, TuboDe, ConSello
<1>10. CASE Envia(s)
  <2>1. TuboDe(s)'
    BY <1>10, <1>t, <1>u DEF Envia, TuboDe, ConSello
  <2> QED BY <1>10, <1>t, <1>r, <2>1 DEF Envia
<1>11. CASE Termina(s)
  <2>1. TuboDe(s)'
    BY <1>11, <1>t, <1>u DEF Termina, TuboDe, ConSello
  <2> QED BY <1>11, <1>t, <1>r, <2>1 DEF Termina
<1> QED BY <1>1, <1>2, <1>3, <1>4, <1>5, <1>6, <1>7, <1>8, <1>9, <1>10, <1>11 DEF Salida

LEMMA TubosPaso == Cerrojos /\ Tubos /\ [Next]_vars => Tubos'
<1> SUFFICES ASSUME Cerrojos, Tubos, [Next]_vars PROVE Tubos'
  OBVIOUS
<1>1. ASSUME NEW s \in Sentidos, RetornoEspurio(s) PROVE Tubos'
  BY <1>1 DEF RetornoEspurio, Tubos, TuboDe, tubos, locales, Cerrojos, Tipos, TypeOK, TipoHilos
<1>2. CASE Avanza
  BY <1>2 DEF Avanza, Tubos, TuboDe, tubos, locales, cerrojos
<1>3. CASE UNCHANGED vars
  BY <1>3 DEF vars, Tubos, TuboDe, tubos, locales, cerrojos
<1> QED BY <1>1, <1>2, <1>3, QuienMueve, TubosEntrada, TubosSalida

LEMMA TubosSiempre == Spec => [](Cerrojos /\ Tubos)
<1>1. Init => Cerrojos /\ Tubos
  BY CerrojosInit, TubosInit
<1>2. Cerrojos /\ Tubos /\ [Next]_vars => (Cerrojos /\ Tubos)'
  BY CerrojosPaso, TubosPaso
<1> QED BY <1>1, <1>2, PTL DEF Spec

\* A salida thread never sleeps on a pipe that holds a datagram, unless the
\* thread that wrote it is about to signal.
THEOREM AvisoCorrecto == Spec => []SinAvisoPerdido
<1>1. Cerrojos /\ Tubos => SinAvisoPerdido
  BY DEF Cerrojos, Candado, CandadoDe, Tubos, TuboDe, SinAvisoPerdido
<1> QED BY <1>1, TubosSiempre, PTL

\* The second read of a salida thread, made with the mutex held, never blocks.
THEOREM TiempoCorrecto == Spec => []TiempoDisponible
<1>1. Tubos => TiempoDisponible
  BY DEF Tubos, TuboDe, TiempoDisponible
<1> QED BY <1>1, TubosSiempre, PTL

\* However far the pipes have drifted apart, a delay is computed from a
\* datagram no newer than the message.
THEOREM SelloCorrecto == Spec => []SelloNoPosterior
<1>1. Tubos => SelloNoPosterior
  BY DEF Tubos, TuboDe, SelloNoPosterior
<1> QED BY <1>1, TubosSiempre, PTL

-----------------------------------------------------------------------------
(* The client's address                                                    *)

\* Outside the copy the address is whole; half-way, its port is the new one.
DireccionInv ==
    /\ entrada["Cliente"] # "copiaIP" => direccionCliente.puerto = direccionCliente.ip
    /\ entrada["Cliente"] = "copiaIP" => direccionCliente.puerto = direccionCliente_tmp

LEMMA DireccionInvPaso == Cerrojos /\ DireccionInv /\ [Next]_vars => DireccionInv'
<1> SUFFICES ASSUME Cerrojos, DireccionInv, [Next]_vars PROVE DireccionInv'
  OBVIOUS
<1> USE DEF PasoEntrada, PasoSalida, direcciones, DireccionInv
<1>t. /\ entrada \in [Sentidos -> EstadosEntrada] /\ "Cliente" \in Sentidos
      /\ direccionCliente \in [puerto : Clientes \cup {SinDireccion},
                               ip : Clientes \cup {SinDireccion}]
  BY DEF Cerrojos, Tipos, TypeOK, TipoHilos, TipoLocales, Sentidos
<1>1. CASE RecibeDelCliente
  BY <1>1, <1>t DEF RecibeDelCliente
<1>2. CASE CopiaPuerto
  <2>1. direccionCliente'.puerto = direccionCliente_tmp
    BY <1>2, <1>t DEF CopiaPuerto
  <2> QED BY <1>2, <1>t, <2>1 DEF CopiaPuerto
<1>3. CASE CopiaIP
  <2>1. direccionCliente'.puerto = direccionCliente.puerto
        /\ direccionCliente'.ip = direccionCliente_tmp
    BY <1>3, <1>t DEF CopiaIP
  <2> QED BY <1>3, <1>t, <2>1 DEF CopiaIP
<1>4. CASE BloqueaDireccion \/ RecibeDelServidor
  BY <1>4, <1>t DEF BloqueaDireccion, RecibeDelServidor
<1>5. ASSUME NEW s \in Sentidos,
             SellaLlegada(s) \/ BloqueaEntrada(s) \/ EscribeDatos(s) \/ AnotaTiempo(s)
      PROVE  DireccionInv'
  BY <1>5, <1>t DEF SellaLlegada, BloqueaEntrada, EscribeDatos, AnotaTiempo
<1>6. ASSUME NEW s \in Sentidos, Salida(s) PROVE DireccionInv'
  BY <1>6 DEF Salida, BloqueaSalida, Sondea, Despierta, LeeDatos, LeeTiempo, Calcula,
              DivideEntreCero, Sortea, TomaDireccionSalida, Envia, Termina
<1>7. ASSUME NEW s \in Sentidos, RetornoEspurio(s) PROVE DireccionInv'
  BY <1>7 DEF RetornoEspurio
<1>8. CASE Avanza \/ UNCHANGED vars
  BY <1>8 DEF Avanza, vars
<1> QED BY <1>1, <1>2, <1>3, <1>4, <1>5, <1>6, <1>7, <1>8, QuienMueve DEF Entrada

\* No answer is ever sent to an address made of two clients' halves.
THEOREM DireccionCorrecta == Spec => []DireccionEntera
<1>1. Init => Cerrojos /\ DireccionInv
  BY CerrojosInit DEF Init, DireccionInv, Sentidos
<1>2. Cerrojos /\ DireccionInv /\ [Next]_vars => (Cerrojos /\ DireccionInv)'
  BY CerrojosPaso, DireccionInvPaso
<1>3. Cerrojos /\ DireccionInv => DireccionEntera
  BY DEF Cerrojos, CandadoDireccion, DireccionInv, DireccionEntera
<1> QED BY <1>1, <1>2, <1>3, PTL DEF Spec

-----------------------------------------------------------------------------
(* The order of what is forwarded                                          *)

Sube(q) == \A j \in 1 .. Len(q) : \A i \in 1 .. j - 1 : q[i] < q[j]

\* Everything of q before everything of r.
Antes(q, r) == \A i \in 1 .. Len(q) : \A j \in 1 .. Len(r) : q[i] < r[j]

Menores(q, n) == \A i \in 1 .. Len(q) : q[i] < n

\* What a concatenation holds.
LEMMA Union ==
    ASSUME NEW q \in Seq(Nat), NEW r \in Seq(Nat)
    PROVE  /\ q \o r \in Seq(Nat) /\ Len(q) \in Nat /\ Len(r) \in Nat
           /\ Len(q \o r) = Len(q) + Len(r)
           /\ \A i \in 1 .. Len(q) : (q \o r)[i] = q[i]
           /\ \A i \in 1 .. Len(q) + Len(r) : i > Len(q) =>
                 (q \o r)[i] = r[i - Len(q)] /\ i - Len(q) \in 1 .. Len(r)
  OBVIOUS

LEMMA UnionSube ==
    ASSUME NEW q \in Seq(Nat), NEW r \in Seq(Nat), Sube(q), Sube(r), Antes(q, r)
    PROVE  Sube(q \o r)
<1> DEFINE t == q \o r
           a == Len(q)
           b == Len(r)
<1>1. /\ a \in Nat /\ b \in Nat /\ Len(t) = a + b
      /\ \A i \in 1 .. a : t[i] = q[i]
      /\ \A i \in 1 .. a + b : i > a => t[i] = r[i - a] /\ i - a \in 1 .. b
  BY Union
<1>2. /\ \A j \in 1 .. a : \A i \in 1 .. j - 1 : q[i] < q[j]
      /\ \A j \in 1 .. b : \A i \in 1 .. j - 1 : r[i] < r[j]
      /\ \A i \in 1 .. a : \A j \in 1 .. b : q[i] < r[j]
  BY DEF Sube, Antes
<1> HIDE DEF t, a, b
<1> SUFFICES ASSUME NEW j \in 1 .. a + b, NEW i \in 1 .. j - 1
             PROVE  t[i] < t[j]
  BY <1>1 DEF Sube, t
<1>3. CASE j <= a
  <2>1. j \in 1 .. a /\ i \in 1 .. a
    BY <1>1, <1>3
  <2> QED BY <1>1, <1>2, <2>1
<1>4. CASE j > a /\ i <= a
  <2>1. i \in 1 .. a
    BY <1>1, <1>4
  <2>2. t[i] = q[i] /\ t[j] = r[j - a] /\ j - a \in 1 .. b
    BY <1>1, <1>4, <2>1
  <2> QED BY <1>2, <2>1, <2>2
<1>5. CASE j > a /\ i > a
  <2>1. i \in 1 .. a + b /\ i - a \in 1 .. (j - a) - 1
    BY <1>1, <1>5
  <2>2. t[i] = r[i - a] /\ t[j] = r[j - a] /\ j - a \in 1 .. b
    BY <1>1, <1>5, <2>1
  <2> QED BY <1>2, <2>1, <2>2
<1> QED BY <1>1, <1>3, <1>4, <1>5

\* An element of a concatenation is an element of one of its parts.
LEMMA UnionElemento ==
    ASSUME NEW q \in Seq(Nat), NEW r \in Seq(Nat), NEW i \in 1 .. Len(q \o r)
    PROVE  \/ \E k \in 1 .. Len(q) : (q \o r)[i] = q[k]
           \/ \E k \in 1 .. Len(r) : (q \o r)[i] = r[k]
<1>1. CASE i <= Len(q)
  BY <1>1, Union
<1>2. CASE i > Len(q)
  <2>1. i \in 1 .. Len(q) + Len(r)
    BY Union
  <2>2. i - Len(q) \in 1 .. Len(r) /\ (q \o r)[i] = r[i - Len(q)]
    BY <1>2, <2>1, Union
  <2> QED BY <2>2
<1>3. Len(q) \in Nat /\ i \in Int
  BY Union
<1> QED BY <1>1, <1>2, <1>3

LEMMA UnionAntes ==
    ASSUME NEW q \in Seq(Nat), NEW r \in Seq(Nat), NEW t \in Seq(Nat),
           Antes(q, t), Antes(r, t)
    PROVE  Antes(q \o r, t)
<1> SUFFICES ASSUME NEW i \in 1 .. Len(q \o r), NEW j \in 1 .. Len(t)
             PROVE  (q \o r)[i] < t[j]
  BY DEF Antes
<1>1. \/ \E k \in 1 .. Len(q) : (q \o r)[i] = q[k]
      \/ \E k \in 1 .. Len(r) : (q \o r)[i] = r[k]
  BY UnionElemento
<1> QED BY <1>1 DEF Antes

LEMMA UnionMenores ==
    ASSUME NEW q \in Seq(Nat), NEW r \in Seq(Nat), NEW n, Menores(q, n), Menores(r, n)
    PROVE  Menores(q \o r, n)
<1> SUFFICES ASSUME NEW i \in 1 .. Len(q \o r)
             PROVE  (q \o r)[i] < n
  BY DEF Menores
<1> QED BY UnionElemento DEF Menores

\* A new number goes after everything smaller than it.
LEMMA MeteAlFinal ==
    ASSUME NEW q \in Seq(Nat), NEW k \in Nat, Sube(q), Menores(q, k)
    PROVE  Sube(Append(q, k)) /\ \A t : Antes(t, q) /\ Menores(t, k) => Antes(t, Append(q, k))
<1> DEFINE u == Append(q, k)
           a == Len(q)
<1>1. /\ a \in Nat /\ Len(u) = a + 1 /\ \A i \in 1 .. a : u[i] = q[i]
      /\ u[a + 1] = k
  OBVIOUS
<1>2. /\ \A j \in 1 .. a : \A i \in 1 .. j - 1 : q[i] < q[j]
      /\ \A i \in 1 .. a : q[i] < k
  BY DEF Sube, Menores
<1> HIDE DEF u, a
<1>3. Sube(u)
  <2> SUFFICES ASSUME NEW j \in 1 .. a + 1, NEW i \in 1 .. j - 1
               PROVE  u[i] < u[j]
    BY <1>1 DEF Sube
  <2>1. i \in 1 .. a
    BY <1>1
  <2>2. CASE j = a + 1
    BY <1>1, <1>2, <2>1, <2>2
  <2>3. CASE j # a + 1
    <3>1. j \in 1 .. a
      BY <1>1, <2>3
    <3> QED BY <1>1, <1>2, <2>1, <3>1
  <2> QED BY <2>2, <2>3
<1>4. ASSUME NEW t, Antes(t, q), Menores(t, k)
      PROVE  Antes(t, u)
  <2> SUFFICES ASSUME NEW i \in 1 .. Len(t), NEW j \in 1 .. a + 1
               PROVE  t[i] < u[j]
    BY <1>1 DEF Antes
  <2>1. CASE j = a + 1
    BY <1>1, <1>4, <2>1 DEF Menores
  <2>2. CASE j # a + 1
    <3>1. j \in 1 .. a
      BY <1>1, <2>2
    <3> QED BY <1>1, <1>4, <3>1 DEF Antes, a
  <2> QED BY <2>1, <2>2
<1> QED BY <1>3, <1>4 DEF u

LEMMA NadaQueOrdenar ==
    /\ Sube(<<>>) /\ \A n : Menores(<<>>, n)
    /\ \A q : Antes(q, <<>>) /\ Antes(<<>>, q)
<1>1. Len(<<>>) = 0
  OBVIOUS
<1> QED BY <1>1 DEF Sube, Menores, Antes

LEMMA Elemento ==
    ASSUME NEW S, NEW q \in Seq(S), NEW i \in 1 .. Len(q)
    PROVE  q[i] \in S
  OBVIOUS

\* What is forwarded, what is delayed and what is in the pipe go up, each after
\* the one before; and while a datagram waits for its turn to be written, all of
\* it is older.
OrdenDe(s) ==
    /\ Sube(reenviados[s]) /\ Sube(mensaje[s]) /\ Sube(datos[s])
    /\ Antes(reenviados[s], mensaje[s]) /\ Antes(reenviados[s], datos[s])
    /\ Antes(mensaje[s], datos[s])
    /\ entrada[s] \in {"bloquea", "escribe"} =>
          /\ Menores(reenviados[s], Len(llegada[s]))
          /\ Menores(mensaje[s], Len(llegada[s]))
          /\ Menores(datos[s], Len(llegada[s]))

Orden == \A s \in Sentidos : OrdenDe(s)

LEMMA OrdenInit == Init => Orden
  BY NadaQueOrdenar DEF Init, Orden, OrdenDe

LEMMA OrdenAjeno ==
    ASSUME NEW r \in Sentidos, OrdenDe(r),
           reenviados'[r] = reenviados[r], mensaje'[r] = mensaje[r], datos'[r] = datos[r],
           llegada'[r] = llegada[r],
           entrada'[r] \in {"bloquea", "escribe"} => entrada[r] \in {"bloquea", "escribe"}
    PROVE  OrdenDe(r)'
  BY DEF OrdenDe, Sube, Antes, Menores

LEMMA OrdenEntrada ==
    ASSUME Tipos, Orden, NEW s \in Sentidos, Entrada(s)
    PROVE  Orden'
<1> USE DEF Tipos, TypeOK, PasoEntrada, tubos, locales
<1>t. /\ entrada \in [Sentidos -> EstadosEntrada] /\ llegada \in [Sentidos -> Seq(Nat)]
      /\ datos \in [Sentidos -> Seq(Nat)]
      /\ reenviados \in [Sentidos -> Seq(Nat)] /\ mensaje \in [Sentidos -> Seq(Nat)]
  BY DEF TipoHilos, TipoTubos, TipoLocales
<1>m. UNCHANGED <<reenviados, mensaje>> /\ OrdenDe(s)
  BY DEF Entrada, RecibeDelCliente, RecibeDelServidor, BloqueaDireccion, CopiaPuerto, CopiaIP,
         SellaLlegada, BloqueaEntrada, EscribeDatos, AnotaTiempo, Orden
<1>q. ASSUME UNCHANGED <<datos, llegada>>, \A r \in Sentidos :
                entrada'[r] \in {"bloquea", "escribe"} => entrada[r] \in {"bloquea", "escribe"}
      PROVE  Orden'
  BY <1>m, <1>q, OrdenAjeno DEF Orden
<1>r. ASSUME OrdenDe(s)', \A r \in Sentidos \ {s} :
                 entrada'[r] = entrada[r] /\ llegada'[r] = llegada[r] /\ datos'[r] = datos[r]
      PROVE  Orden'
  BY <1>m, <1>r, OrdenAjeno DEF Orden
<1>1. CASE RecibeDelCliente
  BY <1>1, <1>t, <1>q DEF RecibeDelCliente
<1>2. CASE RecibeDelServidor
  BY <1>2, <1>t, <1>q DEF RecibeDelServidor
<1>3. CASE BloqueaDireccion
  BY <1>3, <1>t, <1>q DEF BloqueaDireccion
<1>4. CASE CopiaPuerto
  BY <1>4, <1>t, <1>q DEF CopiaPuerto
<1>5. CASE CopiaIP
  BY <1>5, <1>t, <1>q DEF CopiaIP
<1>6. CASE SellaLlegada(s)
  <2>1. llegada' = [llegada EXCEPT ![s] = Append(@, ahora)] /\ UNCHANGED datos
    BY <1>6 DEF SellaLlegada, Mete
  <2>2. Len(llegada[s]) \in Nat /\ Len(llegada'[s]) = Len(llegada[s]) + 1
    BY <1>t, <2>1
  <2>3. \A q \in Seq(Recibidos(s)) : Menores(q, Len(llegada'[s]))
    BY <2>2 DEF Menores, Recibidos
  <2>4. /\ Menores(reenviados[s], Len(llegada'[s])) /\ Menores(mensaje[s], Len(llegada'[s]))
        /\ Menores(datos[s], Len(llegada'[s]))
    BY <2>3 DEF TipoTubos, TipoLocales
  <2>5. OrdenDe(s)'
    BY <1>m, <2>1, <2>4 DEF OrdenDe
  <2> QED BY <1>6, <1>t, <1>r, <2>1, <2>5 DEF SellaLlegada
<1>7. CASE BloqueaEntrada(s)
  BY <1>7, <1>t, <1>q DEF BloqueaEntrada
<1>8. CASE EscribeDatos(s)
  <2>1. CASE Mete(datos, s, Len(llegada[s]))
    <3>1. datos'[s] = Append(datos[s], Len(llegada[s])) /\ entrada'[s] = "anota"
          /\ entrada[s] = "escribe" /\ Len(llegada[s]) \in Nat
      BY <1>8, <1>t, <2>1 DEF EscribeDatos, Mete
    <3>2. OrdenDe(s)'
      <4>1. datos[s] \in Seq(Nat) /\ Sube(datos[s]) /\ Menores(datos[s], Len(llegada[s]))
        BY <1>t, <1>m, <3>1 DEF OrdenDe
      <4>2. Sube(datos'[s]) /\ \A t : Antes(t, datos[s]) /\ Menores(t, Len(llegada[s])) =>
                                        Antes(t, datos'[s])
        BY <3>1, <4>1, MeteAlFinal
      <4> QED BY <1>m, <3>1, <4>2 DEF OrdenDe
    <3>3. \A r \in Sentidos \ {s} :
             entrada'[r] = entrada[r] /\ llegada'[r] = llegada[r] /\ datos'[r] = datos[r]
      BY <1>8, <1>t, <2>1 DEF EscribeDatos, Mete
    <3> QED BY <1>r, <3>2, <3>3
  <2>2. CASE UNCHANGED datos
    BY <1>8, <1>t, <1>q, <2>2 DEF EscribeDatos
  <2> QED BY <1>8, <2>1, <2>2 DEF EscribeDatos
<1>9. CASE AnotaTiempo(s)
  BY <1>9, <1>t, <1>q DEF AnotaTiempo
<1> QED BY <1>1, <1>2, <1>3, <1>4, <1>5, <1>6, <1>7, <1>8, <1>9 DEF Entrada

LEMMA OrdenSalida ==
    ASSUME Tipos, Orden, NEW s \in Sentidos, Salida(s)
    PROVE  Orden'
<1> USE DEF Tipos, TypeOK, tubos, locales
<1>t. /\ datos \in [Sentidos -> Seq(Nat)]
      /\ reenviados \in [Sentidos -> Seq(Nat)] /\ mensaje \in [Sentidos -> Seq(Nat)]
  BY DEF TipoTubos, TipoLocales
<1>m. UNCHANGED <<llegada, entrada>> /\ OrdenDe(s)
  BY DEF PasoSalida, Salida, BloqueaSalida, Sondea, Despierta, LeeDatos, LeeTiempo, Calcula,
         DivideEntreCero, Sortea, TomaDireccionSalida, Envia, Termina, Orden
<1>q. ASSUME UNCHANGED <<datos, reenviados, mensaje>>
      PROVE  Orden'
  BY <1>m, <1>q, OrdenAjeno DEF Orden
<1>r. ASSUME OrdenDe(s)', \A r \in Sentidos \ {s} :
                 reenviados'[r] = reenviados[r] /\ mensaje'[r] = mensaje[r] /\ datos'[r] = datos[r]
      PROVE  Orden'
  BY <1>m, <1>r, OrdenAjeno DEF Orden
<1>1. CASE LeeDatos(s)
  <2>1. mensaje'[s] = datos[s] /\ datos'[s] = <<>> /\ reenviados' = reenviados
    BY <1>1, <1>t DEF LeeDatos
  <2>2. OrdenDe(s)'
    BY <1>m, <2>1, NadaQueOrdenar DEF OrdenDe
  <2> QED BY <1>1, <1>t, <1>r, <2>2 DEF LeeDatos
<1>2. CASE Envia(s)
  <2>1. UNCHANGED datos /\ mensaje'[s] = <<>>
    BY <1>2, <1>t DEF Envia
  <2>2. reenviados'[s] = reenviados[s] \/ reenviados'[s] = reenviados[s] \o mensaje[s]
    BY <1>2, <1>t DEF Envia
  <2>3. /\ Sube(reenviados[s] \o mensaje[s])
        /\ Antes(reenviados[s] \o mensaje[s], datos[s])
        /\ entrada[s] \in {"bloquea", "escribe"} =>
              Menores(reenviados[s] \o mensaje[s], Len(llegada[s]))
    BY <1>t, <1>m, UnionSube, UnionAntes, UnionMenores DEF OrdenDe
  <2>4. OrdenDe(s)'
    BY <1>m, <2>1, <2>2, <2>3, NadaQueOrdenar DEF OrdenDe
  <2> QED BY <1>2, <1>t, <1>r, <2>4 DEF Envia
<1>3. CASE Termina(s)
  <2>1. UNCHANGED <<datos, reenviados>> /\ mensaje'[s] = <<>>
    BY <1>3, <1>t DEF Termina
  <2>2. OrdenDe(s)'
    BY <1>m, <2>1, NadaQueOrdenar DEF OrdenDe
  <2> QED BY <1>3, <1>t, <1>r, <2>2 DEF Termina
<1>4. CASE \/ BloqueaSalida(s) \/ Sondea(s) \/ Despierta(s) \/ LeeTiempo(s) \/ Calcula(s)
           \/ DivideEntreCero(s) \/ Sortea(s) \/ TomaDireccionSalida
  BY <1>4, <1>q DEF BloqueaSalida, Sondea, Despierta, LeeTiempo, Calcula, DivideEntreCero,
     Sortea, TomaDireccionSalida
<1> QED BY <1>1, <1>2, <1>3, <1>4 DEF Salida

LEMMA OrdenPaso == Tipos /\ Orden /\ [Next]_vars => Orden'
<1> SUFFICES ASSUME Tipos, Orden, [Next]_vars PROVE Orden'
  OBVIOUS
<1>1. ASSUME UNCHANGED <<entrada, llegada, datos, mensaje, reenviados>>
      PROVE  Orden'
  BY <1>1, OrdenAjeno DEF Orden
<1>2. ASSUME NEW s \in Sentidos, RetornoEspurio(s) PROVE Orden'
  BY <1>1, <1>2 DEF RetornoEspurio, tubos, locales
<1>3. CASE Avanza \/ UNCHANGED vars
  BY <1>1, <1>3 DEF Avanza, vars, tubos, locales
<1> QED BY <1>2, <1>3, QuienMueve, OrdenEntrada, OrdenSalida

\* A direction forwards its datagrams in the order they arrived, each at most
\* once, whatever is lost and however the threads interleave.
THEOREM OrdenCorrecto == Spec => []EnOrden
<1>1. Tipos /\ Orden => EnOrden
  <2> SUFFICES ASSUME Tipos, Orden, NEW s \in Sentidos
               PROVE  \A j \in 1 .. Len(Recorrido(s)) :
                         /\ Recorrido(s)[j] <= Len(llegada[s])
                         /\ \A i \in 1 .. j - 1 : Recorrido(s)[i] < Recorrido(s)[j]
    BY DEF EnOrden
  <2> DEFINE n == Len(llegada[s])
             q == reenviados[s] \o mensaje[s]
  <2>1. /\ n \in Nat /\ reenviados[s] \in Seq(1 .. n) /\ mensaje[s] \in Seq(1 .. n)
        /\ datos[s] \in Seq(1 .. n)
    BY DEF Tipos, TypeOK, TipoTubos, TipoLocales, Recibidos
  <2>2. q \in Seq(1 .. n) /\ Recorrido(s) \in Seq(1 .. n)
    BY <2>1, UneNumeros DEF Recorrido
  <2>3. /\ reenviados[s] \in Seq(Nat) /\ mensaje[s] \in Seq(Nat) /\ datos[s] \in Seq(Nat)
        /\ q \in Seq(Nat)
    BY <2>1, <2>2, MasNumeros
  <2>4. Sube(q) /\ Antes(q, datos[s])
    BY <2>3, UnionSube, UnionAntes DEF Orden, OrdenDe
  <2>5. Sube(Recorrido(s))
    BY <2>3, <2>4, UnionSube DEF Orden, OrdenDe, Recorrido
  <2> HIDE DEF n
  <2>6. \A j \in 1 .. Len(Recorrido(s)) : Recorrido(s)[j] \in 1 .. n
    BY <2>2, Elemento
  <2>7. \A j \in 1 .. Len(Recorrido(s)) : Recorrido(s)[j] <= n
    BY <2>1, <2>6
  <2> QED BY <2>5, <2>7 DEF Sube, n
<1> QED BY <1>1, TiposSiempre, OrdenInit, OrdenPaso, PTL DEF Spec

=============================================================================
