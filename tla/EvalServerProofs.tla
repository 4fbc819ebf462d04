-------------------------- MODULE EvalServerProofs --------------------------
(***************************************************************************)
(* Theorems about EvalServer, for any number of client threads, organisms, *)
(* generations and spurious returns.                                       *)
(***************************************************************************)
EXTENDS EvalServer, FiniteSetTheorems, TLAPS

-----------------------------------------------------------------------------
(* Type correctness                                                        *)

\* A thread's step moves that thread and no other.
LEMMA PasoMueve ==
    ASSUME TipoPc, NEW t \in Hebras, NEW desde, NEW hasta, Paso(t, desde, hasta)
    PROVE  /\ pc[t] = desde
           /\ pc'[t] = hasta
           /\ \A k \in Hebras \ {t} : pc'[k] = pc[k]
           /\ pc' = [pc EXCEPT ![t] = hasta]
  BY DEF Paso, TipoPc

LEMMA PasoHilo ==
    ASSUME TipoPc, NEW h \in Hilos, NEW desde, NEW hasta \in EstadosHilo,
           Paso(h, desde, hasta)
    PROVE  TipoPc'
  BY ServidorSupuestos DEF Paso, TipoPc, Hebras

LEMMA PasoPrincipal ==
    ASSUME TipoPc, NEW desde, NEW hasta \in EstadosPrincipal,
           Paso(Principal, desde, hasta)
    PROVE  TipoPc'
  BY ServidorSupuestos DEF Paso, TipoPc, Hebras

LEMMA Signaliza ==
    ASSUME TipoSinc, NEW c \in Condiciones, Signal(c)
    PROVE  esperando' \in [Condiciones -> SUBSET Hebras]
<1>1. CASE esperando[c] = {}
  BY <1>1 DEF Signal, TipoSinc
<1>2. ASSUME NEW t \in esperando[c], esperando' = [esperando EXCEPT ![c] = @ \ {t}]
      PROVE  esperando' \in [Condiciones -> SUBSET Hebras]
  BY <1>2 DEF TipoSinc
<1> QED BY <1>1, <1>2 DEF Signal

\* A client thread about to decrement, or that has just decremented, read a
\* count above zero: what keeps organismosDisponibles from going negative.
Reserva == \A h \in Hilos : pc[h] \in {"decrementa", "elige"} => organismoElecto[h] >= 1

Tipos == TypeOK /\ Reserva

LEMMA TiposInit == Init => Tipos
<1> SUFFICES ASSUME Init PROVE Tipos
  OBVIOUS
<1>1. TipoPc
  BY ServidorSupuestos DEF Init, TipoPc, Hebras, EstadosHilo, EstadosPrincipal
<1>2. TipoSinc
  BY ServidorSupuestos DEF Init, TipoSinc
<1>3. TipoDatos
  <2>1. SinEvaluar \in Int
    BY DEF SinEvaluar
  <2>2. organismoElecto \in [Hilos -> 0 .. POPULATION_MAX] /\ 0 \in 0 .. POPULATION_MAX
    BY ServidorSupuestos DEF Init
  <2>3. enviado \in [Hilos -> Int] /\ fitness \in [Posiciones -> Int]
    BY <2>1 DEF Init
  <2>4. neatIsReady \in BOOLEAN /\ configurado \in SUBSET Hilos
    BY DEF Init
  <2>5. /\ organismosDisponibles \in 0 .. POPULATION_MAX
        /\ cantidadHebrasListas \in Int /\ generacion \in Nat
    BY <2>2 DEF Init
  <2> QED BY <2>2, <2>3, <2>4, <2>5 DEF TipoDatos
<1>4. Reserva
  BY ServidorSupuestos DEF Init, Reserva, Hebras
<1> QED BY <1>1, <1>2, <1>3, <1>4 DEF Tipos, TypeOK

\* The part of the state most steps leave alone.
LEMMA DatosQuietos ==
    ASSUME TipoDatos, UNCHANGED <<arranque, contadores, poblacion, locales>>
    PROVE  TipoDatos'
  BY DEF TipoDatos, arranque, contadores, poblacion, locales

LEMMA TiposBloquea ==
    ASSUME Tipos, NEW t \in Hebras, NEW desde, NEW m, NEW hasta,
           Bloquea(t, desde, m, hasta)
    PROVE  TipoSinc' /\ TipoDatos' /\ Paso(t, desde, hasta)
  BY DatosQuietos DEF Bloquea, Tipos, TypeOK, TipoSinc

LEMMA TiposDuerme ==
    ASSUME Tipos, NEW t \in Hebras, NEW desde, NEW c \in Condiciones, NEW m, NEW hasta,
           Duerme(t, desde, c, m, hasta)
    PROVE  TipoSinc' /\ TipoDatos' /\ Paso(t, desde, hasta)
<1>1. TipoDatos' /\ Paso(t, desde, hasta)
  BY DatosQuietos DEF Duerme, Tipos, TypeOK
<1>2. dueno' \in [Cerrojos -> Hebras \cup {Nadie}]
  BY DEF Duerme, Desbloquea, Tipos, TypeOK, TipoSinc
<1>3. esperando' \in [Condiciones -> SUBSET Hebras]
  BY DEF Duerme, Tipos, TypeOK, TipoSinc
<1> QED BY <1>1, <1>2, <1>3 DEF Duerme, Tipos, TypeOK, TipoSinc

LEMMA TiposDespierta ==
    ASSUME Tipos, NEW t \in Hebras, NEW desde, NEW c, NEW m, NEW hasta,
           Despierta(t, desde, c, m, hasta)
    PROVE  TipoSinc' /\ TipoDatos' /\ Paso(t, desde, hasta)
  BY DatosQuietos DEF Despierta, Tipos, TypeOK, TipoSinc, sinc

LEMMA DesbloqueaTipo ==
    ASSUME TipoSinc, NEW m, Desbloquea(m)
    PROVE  dueno' \in [Cerrojos -> Hebras \cup {Nadie}]
  BY DEF TipoSinc, Desbloquea
LEMMA TiposHilo ==
    ASSUME Tipos, NEW h \in Hilos, HiloCliente(h)
    PROVE  TipoPc' /\ TipoSinc' /\ TipoDatos'
<1> USE DEF Tipos, TypeOK
<1>h. h \in Hebras
  BY DEF Hebras
<1>s. /\ {"enviaConfiguracion", "compruebaNEAT", "bucle", "consulta",
          "incrementa", "descuenta", "decrementaCantidad", "sincroniza",
          "decrementa", "cuenta", "elige", "envia", "evalua", "duerme",
          "espera", "esperaNEAT"} \subseteq EstadosHilo
      /\ "fin" \in EstadosPrincipal
      /\ {"NEAT_OK", "HayOrganismosNuevos", "TodasHebrasEstanListas"} \subseteq Condiciones
  BY DEF EstadosHilo, EstadosPrincipal, Condiciones
<1>1. ASSUME NEW d, NEW m, NEW hasta \in EstadosHilo, Bloquea(h, d, m, hasta)
      PROVE  TipoPc' /\ TipoSinc' /\ TipoDatos'
  BY <1>1, <1>h, TiposBloquea, PasoHilo
<1>2. ASSUME NEW d, NEW c, NEW m, NEW hasta \in EstadosHilo, Despierta(h, d, c, m, hasta)
      PROVE  TipoPc' /\ TipoSinc' /\ TipoDatos'
  BY <1>2, <1>h, TiposDespierta, PasoHilo
<1>3. ASSUME NEW d, NEW c \in Condiciones, NEW m, NEW hasta \in EstadosHilo,
             Duerme(h, d, c, m, hasta)
      PROVE  TipoPc' /\ TipoSinc' /\ TipoDatos'
  BY <1>3, <1>h, TiposDuerme, PasoHilo
<1>4. ASSUME NEW d, Aborta(h, d) PROVE TipoPc' /\ TipoSinc' /\ TipoDatos'
  <2>1. TipoPc'
    BY <1>4, <1>s, ServidorSupuestos DEF Aborta, TipoPc, Hebras
  <2> QED BY <2>1, <1>4, DatosQuietos DEF Aborta, TipoSinc, sinc
<1>5. CASE EnviaConfiguracion(h)
  <2>1. TipoPc'
    BY <1>5, <1>s, PasoHilo DEF EnviaConfiguracion
  <2>2. TipoSinc'
    BY <1>5, DesbloqueaTipo DEF EnviaConfiguracion, TipoSinc
  <2>3. TipoDatos'
    BY <1>5 DEF EnviaConfiguracion, TipoDatos, contadores, poblacion, locales
  <2> QED BY <2>1, <2>2, <2>3
<1>6. CASE /\ Paso(h, "compruebaNEAT", "bucle")
           /\ Desbloquea("inicial")
           /\ UNCHANGED <<esperando, espurios, arranque, contadores, poblacion, locales>>
  <2>1. TipoPc'
    BY <1>6, <1>s, PasoHilo
  <2>2. TipoSinc'
    BY <1>6, DesbloqueaTipo DEF TipoSinc
  <2> QED BY <2>1, <2>2, <1>6, DatosQuietos
<1>7. CASE Consulta(h)
  <2>1. TipoPc'
    BY <1>7, <1>s, PasoHilo DEF Consulta
  <2>2. TipoDatos'
    BY <1>7 DEF Consulta, TipoDatos, arranque, contadores, poblacion
  <2> QED BY <2>1, <2>2, <1>7 DEF Consulta, TipoSinc, sinc
<1>8. CASE Decrementa(h)
  <2>1. TipoPc'
    BY <1>8, <1>s, PasoHilo DEF Decrementa
  <2>2. organismosDisponibles' \in 0 .. POPULATION_MAX
    BY <1>8, ServidorSupuestos DEF Decrementa, TipoDatos, Reserva, Paso
  <2>3. TipoDatos'
    BY <1>8, <2>2 DEF Decrementa, TipoDatos, arranque, poblacion, locales
  <2> QED BY <2>1, <2>3, <1>8 DEF Decrementa, TipoSinc, sinc
<1>9. CASE Elige(h)
  <2>1. TipoPc'
    BY <1>9, <1>s, PasoHilo DEF Elige
  <2>2. TipoSinc'
    BY <1>9, DesbloqueaTipo DEF Elige, TipoSinc
  <2>3. organismoElecto[h] - 1 \in 0 .. POPULATION_MAX
    BY <1>9, ServidorSupuestos DEF Elige, TipoDatos, Reserva, Paso
  <2>4. organismoElecto' \in [Hilos -> 0 .. POPULATION_MAX]
    BY <1>9, <2>3 DEF Elige, TipoDatos
  <2>5. TipoDatos'
    BY <1>9, <2>4 DEF Elige, TipoDatos, arranque, contadores, poblacion
  <2> QED BY <2>1, <2>2, <2>5
<1>10. CASE Envia(h)
  <2>1. TipoPc'
    BY <1>10, <1>s, PasoHilo DEF Envia
  <2>2. PICK g \in {generacion} \cup (IF EnEpoca THEN {generacion + 1} ELSE {}) :
               enviado' = [enviado EXCEPT ![h] = g]
    BY <1>10 DEF Envia
  <2>3. g \in Int
    BY <2>2 DEF TipoDatos
  <2>4. TipoDatos'
    BY <1>10, <2>2, <2>3 DEF Envia, TipoDatos, arranque, contadores, poblacion
  <2> QED BY <2>1, <2>4, <1>10 DEF Envia, TipoSinc, sinc
<1>11. CASE RecibeFitness(h)
  <2>1. TipoPc'
    BY <1>11, <1>s, PasoHilo DEF RecibeFitness
  <2>2. fitness' \in [Posiciones -> Int]
    BY <1>11 DEF RecibeFitness, TipoDatos
  <2>3. enviado' \in [Hilos -> Int]
    BY <1>11 DEF RecibeFitness, TipoDatos, SinEvaluar
  <2>4. TipoDatos'
    BY <1>11, <2>2, <2>3 DEF RecibeFitness, TipoDatos, arranque, contadores
  <2> QED BY <2>1, <2>4, <1>11 DEF RecibeFitness, TipoSinc, sinc
<1>12. CASE IncrementaYSenala(h)
  <2>1. TipoPc'
    BY <1>12, <1>s, PasoHilo DEF IncrementaYSenala
  <2>2. esperando' \in [Condiciones -> SUBSET Hebras]
    BY <1>12, <1>s, Signaliza DEF IncrementaYSenala, TipoSinc
  <2>3. TipoSinc'
    BY <1>12, <2>2, DesbloqueaTipo DEF IncrementaYSenala, TipoSinc
  <2>4. TipoDatos'
    BY <1>12 DEF IncrementaYSenala, TipoDatos, arranque, poblacion, locales
  <2> QED BY <2>1, <2>3, <2>4
<1>13. CASE Descuenta(h)
  <2>1. TipoPc'
    BY <1>13, <1>s, PasoHilo DEF Descuenta
  <2>2. TipoSinc'
    BY <1>13, DesbloqueaTipo DEF Descuenta, TipoSinc
  <2>3. TipoDatos'
    BY <1>13 DEF Descuenta, TipoDatos, arranque, poblacion, locales
  <2> QED BY <2>1, <2>2, <2>3
<1> QED
  BY <1>s, <1>1, <1>2, <1>3, <1>4, <1>5, <1>6, <1>7, <1>8, <1>9, <1>10, <1>11, <1>12, <1>13
     DEF HiloCliente, CompruebaNEAT, EsperaOrganismos
LEMMA TiposPrincipal ==
    ASSUME Tipos, HebraPrincipal
    PROVE  TipoPc' /\ TipoSinc' /\ TipoDatos'
<1> USE DEF Tipos, TypeOK
<1>s. /\ Principal \in Hebras
      /\ {"llena", "publica", "difundeNEAT", "generacion", "aguarda", "enEpoca",
          "rellena", "difunde", "fin"} \subseteq EstadosPrincipal
      /\ {"NEAT_OK", "HayOrganismosNuevos", "TodasHebrasEstanListas"} \subseteq Condiciones
  BY DEF Hebras, EstadosPrincipal, Condiciones
<1>1. CASE Construye
  BY <1>1, <1>s, PasoPrincipal, DatosQuietos DEF Construye, TipoSinc, sinc
<1>2. ASSUME NEW d, NEW hasta \in EstadosPrincipal, Rellena(d, hasta)
      PROVE  TipoPc' /\ TipoSinc' /\ TipoDatos'
  <2>1. TipoPc'
    BY <1>2, PasoPrincipal DEF Rellena
  <2>2. organismosDisponibles' \in 0 .. POPULATION_MAX
    BY <1>2, ServidorSupuestos DEF Rellena
  <2>3. TipoDatos'
    BY <1>2, <2>2 DEF Rellena, TipoDatos, arranque, poblacion, locales
  <2> QED BY <2>1, <2>3, <1>2 DEF Rellena, TipoSinc, sinc
<1>3. CASE Bloquea(Principal, "publica", "inicial", "difundeNEAT")
  BY <1>3, <1>s, TiposBloquea, PasoPrincipal
<1>4. CASE PublicaNEAT
  <2>1. TipoPc'
    BY <1>4, <1>s, PasoPrincipal DEF PublicaNEAT
  <2>2. esperando' \in [Condiciones -> SUBSET Hebras]
    BY <1>4 DEF PublicaNEAT, Anuncia, Broadcast, TipoSinc
  <2>3. TipoSinc'
    BY <1>4, <2>2, DesbloqueaTipo DEF PublicaNEAT, TipoSinc
  <2>4. TipoDatos'
    BY <1>4 DEF PublicaNEAT, TipoDatos, contadores, poblacion, locales
  <2> QED BY <2>1, <2>3, <2>4
<1>5. CASE AguardaHebras
  <2>1. TipoPc'
    BY <1>5, <1>s, PasoPrincipal DEF AguardaHebras
  <2>2. esperando' \in [Condiciones -> SUBSET Hebras]
    BY <1>5, <1>s DEF AguardaHebras, TipoSinc
  <2> QED BY <2>1, <2>2, <1>5, DatosQuietos DEF AguardaHebras, TipoSinc
<1>6. CASE Termina
  BY <1>6, <1>s, PasoPrincipal, DatosQuietos DEF Termina, TipoSinc, sinc
<1>7. CASE EmpiezaEpoca
  <2>1. TipoPc'
    BY <1>7, <1>s, PasoPrincipal DEF EmpiezaEpoca
  <2>2. fitness' \in [Posiciones -> Int]
    BY <1>7 DEF EmpiezaEpoca, SinEvaluar
  <2>3. TipoDatos'
    BY <1>7, <2>2 DEF EmpiezaEpoca, TipoDatos, arranque, contadores, locales
  <2> QED BY <2>1, <2>3, <1>7 DEF EmpiezaEpoca, TipoSinc, sinc
<1>8. CASE TerminaEpoca
  <2>1. TipoPc'
    BY <1>8, <1>s, PasoPrincipal DEF TerminaEpoca
  <2>2. TipoDatos'
    BY <1>8 DEF TerminaEpoca, TipoDatos, arranque, contadores, locales
  <2> QED BY <2>1, <2>2, <1>8 DEF TerminaEpoca, TipoSinc, sinc
<1>9. CASE DifundeOrganismos
  <2>1. TipoPc'
    BY <1>9, <1>s, PasoPrincipal DEF DifundeOrganismos
  <2>2. esperando' \in [Condiciones -> SUBSET Hebras]
    BY <1>9 DEF DifundeOrganismos, Broadcast, TipoSinc
  <2> QED BY <2>1, <2>2, <1>9, DatosQuietos DEF DifundeOrganismos, TipoSinc
<1> QED
  BY <1>s, <1>1, <1>2, <1>3, <1>4, <1>5, <1>6, <1>7, <1>8, <1>9 DEF HebraPrincipal

LEMMA ReservaPaso ==
    ASSUME Tipos, [Next]_vars
    PROVE  Reserva'
<1> SUFFICES ASSUME NEW h \in Hilos, pc'[h] \in {"decrementa", "elige"}
             PROVE  organismoElecto'[h] >= 1
  BY DEF Reserva
<1> USE DEF Tipos, TypeOK, TipoPc, TipoDatos, Reserva, Hebras
<1>1. CASE \E k \in Hilos : HiloCliente(k)
  <2> PICK k \in Hilos : HiloCliente(k)
    BY <1>1
  <2>1. CASE k # h
    BY <2>1, ServidorSupuestos
       DEF HiloCliente, Bloquea, EnviaConfiguracion, CompruebaNEAT, Duerme, Despierta,
           Consulta, Decrementa, Elige, Envia, Aborta, RecibeFitness,
           IncrementaYSenala, EsperaOrganismos, Descuenta, Paso, locales
  <2>2. CASE k = h /\ Consulta(h)
    BY <2>2, ServidorSupuestos DEF Consulta, HayOrganismos, Paso
  <2>3. CASE k = h /\ Decrementa(h)
    BY <2>3 DEF Decrementa, Paso, locales
  <2>4. CASE k = h /\ ~Consulta(h) /\ ~Decrementa(h)
    BY <2>4, ServidorSupuestos
       DEF HiloCliente, Bloquea, EnviaConfiguracion, CompruebaNEAT, Duerme, Despierta,
           Elige, Envia, Aborta, RecibeFitness,
           IncrementaYSenala, EsperaOrganismos, Descuenta, Paso, locales
  <2> QED BY <2>1, <2>2, <2>3, <2>4
<1>2. CASE HebraPrincipal
  BY <1>2, ServidorSupuestos
     DEF HebraPrincipal, Construye, Rellena, Bloquea, PublicaNEAT, AguardaHebras, Termina,
         EmpiezaEpoca, TerminaEpoca, DifundeOrganismos, Paso, locales
<1>3. CASE RetornoEspurio \/ UNCHANGED vars
  BY <1>3 DEF RetornoEspurio, vars, locales
<1> QED BY <1>1, <1>2, <1>3 DEF Next

LEMMA TiposPaso == Tipos /\ [Next]_vars => Tipos'
<1> SUFFICES ASSUME Tipos, [Next]_vars PROVE Tipos'
  OBVIOUS
<1>1. CASE \E h \in Hilos : HiloCliente(h)
  BY <1>1, TiposHilo, ReservaPaso DEF Tipos, TypeOK
<1>2. CASE HebraPrincipal
  BY <1>2, TiposPrincipal, ReservaPaso DEF Tipos, TypeOK
<1>3. CASE RetornoEspurio
  <2>1. PICK c \in Espurios : \E t \in esperando[c] :
               esperando' = [esperando EXCEPT ![c] = @ \ {t}]
    BY <1>3 DEF RetornoEspurio
  <2>2. esperando' \in [Condiciones -> SUBSET Hebras]
    BY <2>1, ServidorSupuestos DEF Tipos, TypeOK, TipoSinc
  <2>3. TipoSinc'
    BY <1>3, <2>2, ServidorSupuestos DEF RetornoEspurio, Tipos, TypeOK, TipoSinc
  <2> QED
    BY <1>3, <2>3, DatosQuietos, ReservaPaso DEF RetornoEspurio, Tipos, TypeOK, TipoPc
<1>4. CASE UNCHANGED vars
  BY <1>4, DatosQuietos, ReservaPaso DEF vars, sinc, Tipos, TypeOK, TipoPc, TipoSinc
<1> QED BY <1>1, <1>2, <1>3, <1>4 DEF Next

\* The shared counters and the threads' locals keep their types whatever the
\* threads interleave: in particular no thread elects a position beyond
\* POPULATION_MAX and organismosDisponibles is never negative.
THEOREM TiposCorrectos == Spec => []TypeOK
<1>1. Spec => []Tipos
  BY TiposInit, TiposPaso, PTL DEF Spec
<1>2. Tipos => TypeOK
  BY DEF Tipos
<1> QED BY <1>1, <1>2, PTL
-----------------------------------------------------------------------------
(* The count of the threads that are ready                                 *)

ZonaContada == {"duerme", "espera", "descuenta", "decrementaCantidad"}

LEMMA ContadasFinito == IsFiniteSet(Contadas) /\ Cardinality(Contadas) \in Nat
  BY ServidorSupuestos, FS_Subset, FS_CardinalityType DEF Contadas

LEMMA ContadasQuietas ==
    ASSUME TipoPc, NEW h \in Hilos, NEW desde, NEW hasta, Paso(h, desde, hasta),
           desde \in ZonaContada <=> hasta \in ZonaContada
    PROVE  Contadas' = Contadas
  BY PasoMueve DEF Contadas, ZonaContada, Hebras

LEMMA ContadasPrincipal ==
    ASSUME TipoPc, NEW desde, NEW hasta, Paso(Principal, desde, hasta)
    PROVE  Contadas' = Contadas
  BY PasoMueve, ServidorSupuestos DEF Contadas, Hebras

\* The thread that counts itself enters Contadas.
LEMMA CuentaSube ==
    ASSUME Tipos, NEW h \in Hilos, IncrementaYSenala(h)
    PROVE  Contadas' = Contadas \cup {h} /\ h \notin Contadas
  BY PasoMueve DEF IncrementaYSenala, Contadas, Hebras, Tipos, TypeOK

LEMMA CuentaBaja ==
    ASSUME Tipos, NEW h \in Hilos, Descuenta(h)
    PROVE  Contadas' = Contadas \ {h} /\ h \in Contadas
  BY PasoMueve DEF Descuenta, Contadas, Hebras, Tipos, TypeOK

LEMMA CuentaHilo ==
    ASSUME Tipos, CuentaExacta, NEW h \in Hilos, HiloCliente(h)
    PROVE  CuentaExacta'
<1> USE DEF Tipos, TypeOK
<1>1. ASSUME NEW d, NEW m, NEW hasta, Bloquea(h, d, m, hasta),
             d \in ZonaContada <=> hasta \in ZonaContada
      PROVE  CuentaExacta'
  BY <1>1, ContadasQuietas DEF Bloquea, CuentaExacta, contadores
<1>2. ASSUME NEW d, NEW c, NEW m, NEW hasta, Despierta(h, d, c, m, hasta),
             d \in ZonaContada <=> hasta \in ZonaContada
      PROVE  CuentaExacta'
  BY <1>2, ContadasQuietas DEF Despierta, CuentaExacta, contadores
<1>3. ASSUME NEW d, NEW c, NEW m, NEW hasta, Duerme(h, d, c, m, hasta),
             d \in ZonaContada <=> hasta \in ZonaContada
      PROVE  CuentaExacta'
  BY <1>3, ContadasQuietas DEF Duerme, CuentaExacta, contadores
<1>4. ASSUME NEW d, Aborta(h, d) PROVE CuentaExacta'
  BY <1>4, ServidorSupuestos DEF Aborta, Contadas, CuentaExacta, contadores, TipoPc, Hebras
<1>5. ASSUME NEW d, NEW hasta, Paso(h, d, hasta),
             d \in ZonaContada <=> hasta \in ZonaContada, UNCHANGED cantidadHebrasListas
      PROVE  CuentaExacta'
  BY <1>5, ContadasQuietas DEF CuentaExacta
<1>6. CASE EnviaConfiguracion(h)
  BY <1>6, <1>5 DEF EnviaConfiguracion, contadores, ZonaContada
<1>7. CASE CompruebaNEAT(h)
  BY <1>7, <1>3, <1>5 DEF CompruebaNEAT, contadores, ZonaContada
<1>8. CASE Consulta(h)
  BY <1>8, <1>5 DEF Consulta, contadores, ZonaContada
<1>9. CASE Decrementa(h)
  BY <1>9, <1>5 DEF Decrementa, ZonaContada
<1>10. CASE Elige(h)
  BY <1>10, <1>5 DEF Elige, contadores, ZonaContada
<1>11. CASE Envia(h)
  BY <1>11, <1>5 DEF Envia, contadores, ZonaContada
<1>12. CASE RecibeFitness(h)
  BY <1>12, <1>5 DEF RecibeFitness, contadores, ZonaContada
<1>13. CASE IncrementaYSenala(h)
  BY <1>13, CuentaSube, ContadasFinito, FS_AddElement DEF IncrementaYSenala, CuentaExacta
<1>14. CASE Descuenta(h)
  BY <1>14, CuentaBaja, ContadasFinito, FS_RemoveElement DEF Descuenta, CuentaExacta
<1>15. CASE EsperaOrganismos(h)
  BY <1>15, <1>3 DEF EsperaOrganismos, ZonaContada
<1> QED
  BY <1>1, <1>2, <1>4, <1>6, <1>7, <1>8, <1>9, <1>10, <1>11, <1>12, <1>13, <1>14, <1>15
     DEF HiloCliente, ZonaContada

LEMMA CuentaPaso ==
    ASSUME Tipos, CuentaExacta, [Next]_vars
    PROVE  CuentaExacta'
<1> USE DEF Tipos, TypeOK
<1>1. CASE \E h \in Hilos : HiloCliente(h)
  BY <1>1, CuentaHilo
<1>2. CASE HebraPrincipal
  <2>1. PICK d, hasta : Paso(Principal, d, hasta)
    BY <1>2 DEF HebraPrincipal, Construye, Rellena, Bloquea, PublicaNEAT, AguardaHebras,
                Termina, EmpiezaEpoca, TerminaEpoca, DifundeOrganismos
  <2>2. UNCHANGED cantidadHebrasListas
    BY <1>2 DEF HebraPrincipal, Construye, Rellena, Bloquea, PublicaNEAT, AguardaHebras,
                Termina, EmpiezaEpoca, TerminaEpoca, DifundeOrganismos, contadores
  <2> QED BY <2>1, <2>2, ContadasPrincipal DEF CuentaExacta
<1>3. CASE RetornoEspurio \/ UNCHANGED vars
  BY <1>3 DEF RetornoEspurio, vars, contadores, CuentaExacta, Contadas
<1> QED BY <1>1, <1>2, <1>3 DEF Next

LEMMA CuentaInit == Init => CuentaExacta
<1> SUFFICES ASSUME Init PROVE CuentaExacta
  OBVIOUS
<1>1. Contadas = {}
  BY ServidorSupuestos DEF Init, Contadas, Hebras
<1> QED BY <1>1, FS_EmptySet DEF Init, CuentaExacta

\* cantidadHebrasListas is exactly the number of client threads between their
\* increment and their decrement, for any number of them: it never underflows
\* and reaches hostClientes.size() only when all of them are counted.
THEOREM CuentaCorrecta == Spec => []CuentaExacta
<1>1. Init => Tipos /\ CuentaExacta
  BY TiposInit, CuentaInit
<1>2. Tipos /\ CuentaExacta /\ [Next]_vars => (Tipos /\ CuentaExacta)'
  BY TiposPaso, CuentaPaso
<1> QED BY <1>1, <1>2, PTL DEF Spec

\* Only the thread that completes the count signals the main thread.
LEMMA QuienSenala ==
    ASSUME Tipos, [Next]_vars,
           Principal \in esperando["TodasHebrasEstanListas"],
           Principal \notin esperando'["TodasHebrasEstanListas"],
           espurios' = espurios
    PROVE  \E h \in Hilos : IncrementaYSenala(h) /\ EstanTodas(cantidadHebrasListas')
<1> USE DEF Tipos, TypeOK, TipoSinc, Condiciones
<1>1. CASE \E h \in Hilos : HiloCliente(h)
  <2> PICK h \in Hilos : HiloCliente(h)
    BY <1>1
  <2>1. CASE IncrementaYSenala(h)
    BY <2>1 DEF IncrementaYSenala
  <2>2. CASE ~IncrementaYSenala(h)
    BY <2>2
       DEF HiloCliente, Bloquea, EnviaConfiguracion, CompruebaNEAT, Duerme, Despierta, Consulta,
           Decrementa, Elige, Envia, Aborta, RecibeFitness, EsperaOrganismos, Descuenta, sinc
  <2> QED BY <2>1, <2>2
<1>2. CASE HebraPrincipal
  BY <1>2
     DEF HebraPrincipal, Construye, Rellena, Bloquea, PublicaNEAT, Anuncia, Broadcast,
         AguardaHebras, Termina, EmpiezaEpoca, TerminaEpoca, DifundeOrganismos, sinc
<1>3. CASE RetornoEspurio
  BY <1>3 DEF RetornoEspurio, TipoSinc
<1>4. CASE UNCHANGED vars
  BY <1>4 DEF vars, sinc
<1> QED BY <1>1, <1>2, <1>3, <1>4 DEF Next

\* When the count is complete every client thread is counted.
LEMMA TodasContadas ==
    ASSUME CuentaExacta', EstanTodas(cantidadHebrasListas')
    PROVE  Contadas' = Hilos
<1>1. Contadas' \in SUBSET Hilos
  BY DEF Contadas
<1> QED BY <1>1, FS_Subset, ServidorSupuestos DEF CuentaExacta, EstanTodas

\* The main thread is woken for an epoch only when no client thread holds an
\* organism, for any number of client threads.
THEOREM SenalCorrecta == Spec => SenalSinTrabajo
<1> DEFINE Senal == /\ Principal \in esperando["TodasHebrasEstanListas"]
                    /\ Principal \notin esperando'["TodasHebrasEstanListas"]
                    /\ espurios' = espurios
           Libres == \A h \in Hilos : pc[h] \notin {"decrementa", "elige", "envia", "evalua"}
<1>1. Tipos /\ CuentaExacta /\ [Next]_vars => [Senal => Libres]_vars
  <2> SUFFICES ASSUME Tipos, CuentaExacta, [Next]_vars, Senal PROVE Libres
    OBVIOUS
  <2>1. PICK h \in Hilos : IncrementaYSenala(h) /\ EstanTodas(cantidadHebrasListas')
    BY QuienSenala
  <2>2. Contadas' = Hilos
    BY <2>1, CuentaPaso, TodasContadas
  <2>3. Contadas' = Contadas \cup {h}
    BY <2>1, CuentaSube
  <2>4. pc[h] = "incrementa"
    BY <2>1 DEF IncrementaYSenala, Paso
  <2> QED BY <2>2, <2>3, <2>4 DEF Contadas
<1>2. Init => Tipos /\ CuentaExacta
  BY TiposInit, CuentaInit
<1>3. Tipos /\ CuentaExacta /\ [Next]_vars => (Tipos /\ CuentaExacta)'
  BY TiposPaso, CuentaPaso
<1>4. Spec => [][Senal => Libres]_vars
  BY <1>1, <1>2, <1>3, PTL DEF Spec
<1> QED BY <1>4 DEF SenalSinTrabajo
-----------------------------------------------------------------------------
(* The distribution of the first generation                                *)

\* Until the counter is filled nobody has found an organism, and nothing is
\* evaluated.
AntesDeLlenar ==
    pc[Principal] \in {"construye", "llena"} =>
        /\ generacion = 0 /\ organismosDisponibles = 0
        /\ \A o \in Posiciones : fitness[o] = SinEvaluar
        /\ \A h \in Hilos : pc[h] \notin {"decrementa", "elige", "envia", "evalua"}

TrasEpoca == pc[Principal] \in {"rellena", "difunde"} => generacion >= 1

\* From the test of the counter to the election, and on to the wait, the
\* thread owns mutex_ObtenerOrganismo.
ZonaObtener == {"consulta", "decrementa", "elige", "cuenta", "incrementa", "duerme"}

Candado == \A h \in Hilos : pc[h] \in ZonaObtener => dueno["obtener"] = h

\* What the threads' locals stand for while nobody else writes the counter.
LocalesFieles ==
    PrimeraFase =>
        /\ \A h \in Hilos :
              /\ pc[h] = "decrementa" => organismoElecto[h] = organismosDisponibles
              /\ pc[h] = "elige" => organismoElecto[h] - 1 = organismosDisponibles
              /\ pc[h] = "evalua" => enviado[h] = 0
        /\ \A o \in Posiciones : fitness[o] \in {SinEvaluar, 0}

IReparto == AntesDeLlenar /\ TrasEpoca /\ Candado /\ LocalesFieles /\ RepartoUnico

LEMMA RepartoInit == Init => IReparto
<1> SUFFICES ASSUME Init PROVE IReparto
  OBVIOUS
<1>1. /\ pc[Principal] = "construye"
      /\ \A h \in Hilos : pc[h] = "conecta"
  BY ServidorSupuestos DEF Init, Hebras
<1> QED
  BY <1>1 DEF Init, IReparto, AntesDeLlenar, TrasEpoca, Candado, ZonaObtener, LocalesFieles,
              RepartoUnico, PrimeraFase

LEMMA CandadoPaso ==
    ASSUME Tipos, Candado, [Next]_vars
    PROVE  Candado'
<1> SUFFICES ASSUME NEW k \in Hilos, pc'[k] \in ZonaObtener
             PROVE  dueno'["obtener"] = k
  BY DEF Candado
<1> USE ServidorSupuestos
    DEF Tipos, TypeOK, TipoPc, TipoSinc, Cerrojos, Hebras, Candado, Paso
<1>1. CASE \E h \in Hilos : HiloCliente(h)
  <2> PICK h \in Hilos : HiloCliente(h)
    BY <1>1
  <2>1. ASSUME NEW d, NEW m, NEW hasta, Bloquea(h, d, m, hasta),
               hasta \in ZonaObtener => d \in ZonaObtener \/ m = "obtener"
        PROVE  dueno'["obtener"] = k
    BY <2>1 DEF Bloquea
  <2>2. ASSUME NEW d, NEW hasta, Paso(h, d, hasta), UNCHANGED dueno,
               hasta \in ZonaObtener => d \in ZonaObtener
        PROVE  dueno'["obtener"] = k
    BY <2>2
  <2>4. ASSUME NEW d \in ZonaObtener, NEW hasta, Paso(h, d, hasta), Desbloquea("obtener"),
               hasta \notin ZonaObtener
        PROVE  dueno'["obtener"] = k
    BY <2>4 DEF Desbloquea
  <2>5. ASSUME NEW d, Aborta(h, d) PROVE dueno'["obtener"] = k
    BY <2>5 DEF Aborta, sinc
  <2>6. CASE \/ Bloquea(h, "conecta", "lectura", "enviaConfiguracion")
             \/ Bloquea(h, "sincroniza", "inicial", "compruebaNEAT")
             \/ Bloquea(h, "bucle", "obtener", "consulta")
             \/ Bloquea(h, "cuenta", "cantidad", "incrementa")
             \/ Bloquea(h, "descuenta", "cantidad", "decrementaCantidad")
    BY <2>6, <2>1 DEF ZonaObtener
  <2>7. CASE EnviaConfiguracion(h) \/ CompruebaNEAT(h) \/ IncrementaYSenala(h) \/ Descuenta(h)
    <3>1. CASE EnviaConfiguracion(h)
      BY <3>1 DEF EnviaConfiguracion, Desbloquea, ZonaObtener
    <3>2. CASE CompruebaNEAT(h)
      BY <3>2 DEF CompruebaNEAT, Duerme, Desbloquea, ZonaObtener
    <3>3. CASE IncrementaYSenala(h)
      BY <3>3 DEF IncrementaYSenala, Desbloquea, ZonaObtener
    <3>4. CASE Descuenta(h)
      BY <3>4 DEF Descuenta, Desbloquea, ZonaObtener
    <3> QED BY <2>7, <3>1, <3>2, <3>3, <3>4
  <2>8. CASE \/ Despierta(h, "esperaNEAT", "NEAT_OK", "inicial", "bucle")
             \/ Despierta(h, "espera", "HayOrganismosNuevos", CerrojoDeEspera, "descuenta")
             \/ Consulta(h) \/ Decrementa(h) \/ Envia(h) \/ RecibeFitness(h)
    BY <2>8, <2>2 DEF Despierta, Consulta, Decrementa, Envia, RecibeFitness, ZonaObtener, sinc
  <2>9. CASE Elige(h) \/ EsperaOrganismos(h)
    BY <2>9, <2>4 DEF Elige, EsperaOrganismos, Duerme, CerrojoDeEspera, ZonaObtener
  <2> QED BY <2>5, <2>6, <2>7, <2>8, <2>9 DEF HiloCliente
<1>2. CASE HebraPrincipal
  BY <1>2
     DEF HebraPrincipal, Construye, Rellena, Bloquea, PublicaNEAT, Desbloquea, AguardaHebras,
         Termina, EmpiezaEpoca, TerminaEpoca, DifundeOrganismos, sinc
<1>3. CASE RetornoEspurio \/ UNCHANGED vars
  BY <1>3 DEF RetornoEspurio, vars, sinc
<1> QED BY <1>1, <1>2, <1>3 DEF Next

\* What the steps of a client thread leave alone unless they are about the
\* distribution.
LEMMA HiloAjeno ==
    ASSUME TipoPc, NEW h \in Hilos, HiloCliente(h),
           ~Consulta(h), ~Decrementa(h), ~Elige(h), ~Envia(h), ~RecibeFitness(h),
           ~Aborta(h, "envia"), ~Aborta(h, "evalua")
    PROVE  /\ UNCHANGED <<organismosDisponibles, fitness, generacion, organismoElecto, enviado>>
           /\ UNCHANGED pc[Principal]
           /\ \A k \in Hilos : k # h => pc'[k] = pc[k]
           /\ {pc[h], pc'[h]} \cap {"decrementa", "elige", "envia", "evalua"} = {}
<1>1. \E d, hasta : /\ Paso(h, d, hasta)
                    /\ {d, hasta} \cap {"decrementa", "elige", "envia", "evalua"} = {}
  BY DEF HiloCliente, Bloquea, EnviaConfiguracion, CompruebaNEAT, Duerme, Despierta,
         IncrementaYSenala, EsperaOrganismos, Descuenta
<1>2. UNCHANGED <<organismosDisponibles, fitness, generacion, organismoElecto, enviado>>
  BY DEF HiloCliente, Bloquea, EnviaConfiguracion, CompruebaNEAT, Duerme, Despierta,
         IncrementaYSenala, EsperaOrganismos, Descuenta, contadores, poblacion, locales
<1> QED BY <1>1, <1>2, PasoMueve, ServidorSupuestos DEF Hebras

LEMMA AntesPaso ==
    ASSUME Tipos, AntesDeLlenar, [Next]_vars
    PROVE  AntesDeLlenar'
<1> USE ServidorSupuestos DEF Tipos, TypeOK
<1>1. CASE \E h \in Hilos : HiloCliente(h)
  <2> PICK h \in Hilos : HiloCliente(h)
    BY <1>1
  <2>1. CASE Consulta(h)
    BY <2>1, PasoMueve DEF Consulta, HayOrganismos, AntesDeLlenar, poblacion, contadores, Hebras
  <2>2. CASE Decrementa(h) \/ Elige(h) \/ Envia(h) \/ RecibeFitness(h)
    BY <2>2, PasoMueve
       DEF Decrementa, Elige, Envia, RecibeFitness, AntesDeLlenar, Hebras, Paso
  <2>3. CASE Aborta(h, "envia") \/ Aborta(h, "evalua")
    BY <2>3 DEF Aborta, AntesDeLlenar, TipoPc, Hebras
  <2>4. CASE ~( \/ Consulta(h) \/ Decrementa(h) \/ Elige(h) \/ Envia(h) \/ RecibeFitness(h)
                \/ Aborta(h, "envia") \/ Aborta(h, "evalua"))
    BY <2>4, HiloAjeno DEF AntesDeLlenar
  <2> QED BY <2>1, <2>2, <2>3, <2>4
<1>2. CASE HebraPrincipal
  BY <1>2
     DEF HebraPrincipal, Construye, Rellena, Bloquea, PublicaNEAT, AguardaHebras, Termina,
         EmpiezaEpoca, TerminaEpoca, DifundeOrganismos, AntesDeLlenar, Paso, TipoPc, Hebras,
         contadores, poblacion
<1>3. CASE RetornoEspurio \/ UNCHANGED vars
  BY <1>3 DEF RetornoEspurio, vars, AntesDeLlenar, contadores, poblacion
<1> QED BY <1>1, <1>2, <1>3 DEF Next

LEMMA TrasPaso ==
    ASSUME Tipos, TrasEpoca, [Next]_vars
    PROVE  TrasEpoca'
<1> USE ServidorSupuestos DEF Tipos, TypeOK
<1>1. CASE \E h \in Hilos : HiloCliente(h)
  <2> PICK h \in Hilos : HiloCliente(h)
    BY <1>1
  <2>1. CASE Aborta(h, "envia") \/ Aborta(h, "evalua")
    BY <2>1 DEF Aborta, TrasEpoca, TipoPc, Hebras
  <2>2. CASE Consulta(h) \/ Decrementa(h) \/ Elige(h) \/ Envia(h) \/ RecibeFitness(h)
    BY <2>2, PasoMueve
       DEF Consulta, Decrementa, Elige, Envia, RecibeFitness, TrasEpoca, Hebras, poblacion
  <2> QED BY <2>1, <2>2, HiloAjeno DEF TrasEpoca
<1>2. CASE HebraPrincipal
  BY <1>2
     DEF HebraPrincipal, Construye, Rellena, Bloquea, PublicaNEAT, AguardaHebras, Termina,
         EmpiezaEpoca, TerminaEpoca, DifundeOrganismos, TrasEpoca, Paso, TipoPc, TipoDatos, Hebras,
         poblacion
<1>3. CASE RetornoEspurio \/ UNCHANGED vars
  BY <1>3 DEF RetornoEspurio, vars, TrasEpoca, poblacion
<1> QED BY <1>1, <1>2, <1>3 DEF Next

\* The distribution invariant once the phase is known.
EnMarcha ==
    /\ \A h \in Hilos :
          /\ pc[h] = "decrementa" => organismoElecto[h] = organismosDisponibles
          /\ pc[h] = "elige" => organismoElecto[h] - 1 = organismosDisponibles
          /\ pc[h] = "evalua" => enviado[h] = 0
    /\ \A o \in Posiciones : fitness[o] \in {SinEvaluar, 0} /\ EnUnSitio(o)

LEMMA EnMarchaEs == PrimeraFase => (LocalesFieles /\ RepartoUnico <=> EnMarcha)
  BY DEF EnMarcha, LocalesFieles, RepartoUnico

LEMMA EnMarchaEsDespues == PrimeraFase' => (LocalesFieles' /\ RepartoUnico' <=> EnMarcha')
  BY DEF EnMarcha, LocalesFieles, RepartoUnico

\* Steps that touch neither the counter, nor the fitness, nor who holds what.
LEMMA EnMarchaQuieta ==
    ASSUME EnMarcha,
           UNCHANGED <<organismosDisponibles, fitness, organismoElecto, enviado>>,
           NEW h \in Hilos \cup {Principal},
           \A k \in Hilos \ {h} : pc'[k] = pc[k],
           h \in Hilos => {pc[h], pc'[h]} \cap {"decrementa", "elige", "envia", "evalua"} = {}
    PROVE  EnMarcha'
<1>1. \A o \in Posiciones, k \in Hilos : Porta(k, o)' <=> Porta(k, o)
  BY DEF Porta
<1> QED BY <1>1 DEF EnMarcha, EnUnSitio

LEMMA MarchaConsulta ==
    ASSUME Tipos, Candado, EnMarcha, NEW h \in Hilos, Consulta(h)
    PROVE  EnMarcha'
<1>1. /\ pc[h] = "consulta" /\ pc'[h] \in {"decrementa", "cuenta"}
      /\ \A k \in Hilos \ {h} : pc'[k] = pc[k]
  BY PasoMueve DEF Consulta, Tipos, TypeOK, Hebras
<1>2. \A k \in Hilos \ {h} : pc[k] \notin {"decrementa", "elige"}
  BY <1>1 DEF Candado, ZonaObtener
<1>3. /\ organismoElecto'[h] = organismosDisponibles
      /\ \A k \in Hilos \ {h} : organismoElecto'[k] = organismoElecto[k]
      /\ UNCHANGED <<organismosDisponibles, fitness, enviado>>
  BY DEF Consulta, Tipos, TypeOK, TipoDatos, contadores, poblacion
<1>4. \A o \in Posiciones, k \in Hilos : Porta(k, o)' <=> Porta(k, o)
  BY <1>1, <1>3 DEF Porta
<1> QED BY <1>1, <1>2, <1>3, <1>4 DEF EnMarcha, EnUnSitio

LEMMA MarchaDecrementa ==
    ASSUME Tipos, Candado, EnMarcha, NEW h \in Hilos, Decrementa(h)
    PROVE  EnMarcha'
<1>1. /\ pc[h] = "decrementa" /\ pc'[h] = "elige"
      /\ \A k \in Hilos \ {h} : pc'[k] = pc[k]
  BY PasoMueve DEF Decrementa, Tipos, TypeOK, Hebras
<1>2. \A k \in Hilos \ {h} : pc[k] \notin {"decrementa", "elige"}
  BY <1>1 DEF Candado, ZonaObtener
<1>3. /\ organismosDisponibles' = organismosDisponibles - 1
      /\ organismoElecto[h] = organismosDisponibles
      /\ organismosDisponibles \in Int /\ organismosDisponibles >= 1
      /\ UNCHANGED <<organismoElecto, fitness, enviado>>
  BY <1>1, ServidorSupuestos
     DEF Decrementa, EnMarcha, Tipos, TypeOK, TipoDatos, Reserva, poblacion, locales
<1>4. /\ \A o \in Posiciones, k \in Hilos \ {h} : Porta(k, o)' <=> Porta(k, o)
      /\ \A o \in Posiciones : ~Porta(h, o) /\ (Porta(h, o)' <=> o = organismosDisponibles - 1)
  BY <1>1, <1>3 DEF Porta
<1>5. \A o \in Posiciones : EnUnSitio(o)'
  <2> SUFFICES ASSUME NEW o \in Posiciones PROVE EnUnSitio(o)'
    OBVIOUS
  <2>0. o \in Int /\ EnUnSitio(o) /\ SinEvaluar # 0
    BY ServidorSupuestos DEF EnMarcha, Posiciones, SinEvaluar
  <2>1. CASE o = organismosDisponibles - 1
    <3>1. fitness[o] = SinEvaluar /\ \A k \in Hilos : ~Porta(k, o)
      BY <2>0, <2>1, <1>3 DEF EnUnSitio
    <3> QED BY <3>1, <2>0, <2>1, <1>3, <1>4 DEF EnUnSitio
  <2>2. CASE o # organismosDisponibles - 1
    <3>1. o < organismosDisponibles - 1 <=> o < organismosDisponibles
      BY <2>0, <2>2, <1>3
    <3> QED BY <3>1, <2>0, <2>2, <1>3, <1>4 DEF EnUnSitio
  <2> QED BY <2>1, <2>2
<1>6. \A k \in Hilos :
        /\ pc'[k] = "decrementa" => organismoElecto'[k] = organismosDisponibles'
        /\ pc'[k] = "elige" => organismoElecto'[k] - 1 = organismosDisponibles'
        /\ pc'[k] = "evalua" => enviado'[k] = 0
  BY <1>1, <1>2, <1>3 DEF EnMarcha
<1> QED BY <1>3, <1>5, <1>6 DEF EnMarcha

LEMMA MarchaElige ==
    ASSUME Tipos, Candado, EnMarcha, NEW h \in Hilos, Elige(h)
    PROVE  EnMarcha'
<1>1. /\ pc[h] = "elige" /\ pc'[h] = "envia"
      /\ \A k \in Hilos \ {h} : pc'[k] = pc[k]
  BY PasoMueve DEF Elige, Tipos, TypeOK, Hebras
<1>2. \A k \in Hilos \ {h} : pc[k] \notin {"decrementa", "elige"}
  BY <1>1 DEF Candado, ZonaObtener
<1>3. /\ organismoElecto'[h] = organismoElecto[h] - 1
      /\ \A k \in Hilos \ {h} : organismoElecto'[k] = organismoElecto[k]
      /\ UNCHANGED <<organismosDisponibles, fitness, enviado>>
  BY <1>1 DEF Elige, EnMarcha, Tipos, TypeOK, TipoDatos, contadores, poblacion
<1>4. \A o \in Posiciones, k \in Hilos : Porta(k, o)' <=> Porta(k, o)
  BY <1>1, <1>3 DEF Porta
<1> QED BY <1>1, <1>2, <1>3, <1>4 DEF EnMarcha, EnUnSitio

LEMMA MarchaEnvia ==
    ASSUME Tipos, EnMarcha, PrimeraFase, NEW h \in Hilos, Envia(h)
    PROVE  EnMarcha'
<1>1. /\ pc[h] = "envia" /\ pc'[h] = "evalua"
      /\ \A k \in Hilos \ {h} : pc'[k] = pc[k]
  BY PasoMueve DEF Envia, Tipos, TypeOK, Hebras
<1>2. /\ enviado'[h] = 0
      /\ \A k \in Hilos \ {h} : enviado'[k] = enviado[k]
      /\ UNCHANGED <<organismosDisponibles, fitness, organismoElecto>>
  BY DEF Envia, PrimeraFase, EnEpoca, Tipos, TypeOK, TipoDatos, contadores, poblacion
<1>3. \A o \in Posiciones, k \in Hilos : Porta(k, o)' <=> Porta(k, o)
  BY <1>1, <1>2 DEF Porta
<1> QED BY <1>1, <1>2, <1>3 DEF EnMarcha, EnUnSitio

LEMMA MarchaRecibe ==
    ASSUME Tipos, EnMarcha, PrimeraFase, NEW h \in Hilos, RecibeFitness(h)
    PROVE  EnMarcha'
<1>1. /\ pc[h] = "evalua" /\ pc'[h] = "bucle"
      /\ \A k \in Hilos \ {h} : pc'[k] = pc[k]
  BY PasoMueve DEF RecibeFitness, Tipos, TypeOK, Hebras
<1>2. /\ fitness' = [fitness EXCEPT ![organismoElecto[h]] = 0]
      /\ \A k \in Hilos \ {h} : enviado'[k] = enviado[k]
      /\ UNCHANGED <<organismosDisponibles, organismoElecto>>
  BY <1>1 DEF RecibeFitness, EnMarcha, PrimeraFase, EnEpoca, Tipos, TypeOK, TipoDatos, contadores
<1>3. /\ \A o \in Posiciones, k \in Hilos \ {h} : Porta(k, o)' <=> Porta(k, o)
      /\ \A o \in Posiciones : (Porta(h, o) <=> o = organismoElecto[h]) /\ ~Porta(h, o)'
  BY <1>1, <1>2 DEF Porta
<1>4. \A o \in Posiciones : fitness'[o] \in {SinEvaluar, 0} /\ EnUnSitio(o)'
  <2> SUFFICES ASSUME NEW o \in Posiciones
               PROVE  fitness'[o] \in {SinEvaluar, 0} /\ EnUnSitio(o)'
    OBVIOUS
  <2>0. EnUnSitio(o) /\ SinEvaluar # 0 /\ fitness[o] \in {SinEvaluar, 0}
    BY DEF EnMarcha, SinEvaluar
  <2>1. CASE o = organismoElecto[h]
    <3>1. fitness'[o] = 0
      BY <1>2, <2>1 DEF Tipos, TypeOK, TipoDatos
    <3>2. \A k \in Hilos : ~Porta(k, o)'
      BY <1>3, <2>0, <2>1 DEF EnUnSitio
    <3>3. ~(o < organismosDisponibles)
      BY <1>3, <2>0, <2>1 DEF EnUnSitio
    <3> QED BY <3>1, <3>2, <3>3, <2>0, <1>2 DEF EnUnSitio
  <2>2. CASE o # organismoElecto[h]
    <3>1. fitness'[o] = fitness[o]
      BY <1>2, <2>2 DEF Tipos, TypeOK, TipoDatos
    <3> QED BY <3>1, <2>0, <2>2, <1>2, <1>3 DEF EnUnSitio
  <2> QED BY <2>1, <2>2
<1>5. \A k \in Hilos :
        /\ pc'[k] = "decrementa" => organismoElecto'[k] = organismosDisponibles'
        /\ pc'[k] = "elige" => organismoElecto'[k] - 1 = organismosDisponibles'
        /\ pc'[k] = "evalua" => enviado'[k] = 0
  BY <1>1, <1>2 DEF EnMarcha
<1> QED BY <1>4, <1>5 DEF EnMarcha

LEMMA MarchaLlena ==
    ASSUME Tipos, AntesDeLlenar, Rellena("llena", "publica")
    PROVE  EnMarcha'
<1>1. /\ \A o \in Posiciones : fitness[o] = SinEvaluar
      /\ \A h \in Hilos : pc[h] \notin {"decrementa", "elige", "envia", "evalua"}
  BY DEF AntesDeLlenar, Rellena, Paso
<1>2. /\ \A h \in Hilos : pc'[h] = pc[h]
      /\ organismosDisponibles' = POPULATION_MAX
      /\ UNCHANGED <<fitness, organismoElecto>>
  BY PasoMueve, ServidorSupuestos DEF Rellena, Tipos, TypeOK, Hebras, poblacion, locales
<1>3. \A o \in Posiciones : o < POPULATION_MAX /\ SinEvaluar # 0
  BY ServidorSupuestos DEF Posiciones, SinEvaluar
<1>4. \A o \in Posiciones, h \in Hilos : ~Porta(h, o)'
  BY <1>1, <1>2 DEF Porta
<1> QED BY <1>1, <1>2, <1>3, <1>4 DEF EnMarcha, EnUnSitio

LEMMA RepartoPaso ==
    ASSUME Tipos, IReparto, [Next]_vars
    PROVE  LocalesFieles' /\ RepartoUnico'
<1> USE DEF IReparto
<1> SUFFICES ASSUME PrimeraFase' PROVE EnMarcha'
  BY EnMarchaEsDespues DEF LocalesFieles, RepartoUnico
<1>1. CASE \E h \in Hilos : HiloCliente(h)
  <2> PICK h \in Hilos : HiloCliente(h)
    BY <1>1
  <2>1. CASE Aborta(h, "envia") \/ Aborta(h, "evalua")
    BY <2>1 DEF Aborta, PrimeraFase, Tipos, TypeOK, TipoPc, Hebras
  <2>2. CASE Consulta(h) \/ Decrementa(h) \/ Elige(h) \/ Envia(h) \/ RecibeFitness(h)
    <3>1. PrimeraFase
      BY <2>2, PasoMueve, ServidorSupuestos
         DEF PrimeraFase, Consulta, Decrementa, Elige, Envia, RecibeFitness, poblacion,
             Tipos, TypeOK, Hebras
    <3> QED
      BY <2>2, <3>1, EnMarchaEs, MarchaConsulta, MarchaDecrementa, MarchaElige, MarchaEnvia,
         MarchaRecibe
  <2>3. CASE ~( \/ Consulta(h) \/ Decrementa(h) \/ Elige(h) \/ Envia(h) \/ RecibeFitness(h)
                \/ Aborta(h, "envia") \/ Aborta(h, "evalua"))
    BY <2>3, HiloAjeno, EnMarchaEs, EnMarchaQuieta DEF PrimeraFase, Tipos, TypeOK
  <2> QED BY <2>1, <2>2, <2>3
<1>2. CASE HebraPrincipal
  <2>1. CASE Rellena("llena", "publica")
    BY <2>1, MarchaLlena
  <2>2. CASE ~Rellena("llena", "publica")
    <3>1. /\ PrimeraFase
          /\ UNCHANGED <<organismosDisponibles, fitness, organismoElecto, enviado>>
          /\ \E d, hasta : Paso(Principal, d, hasta)
      BY <1>2, <2>2
         DEF HebraPrincipal, Construye, Rellena, Bloquea, PublicaNEAT, AguardaHebras, Termina,
             EmpiezaEpoca, TerminaEpoca, DifundeOrganismos, TrasEpoca, Paso, PrimeraFase,
             Tipos, TypeOK, TipoPc, Hebras, contadores, poblacion, locales
    <3> QED
      BY <3>1, EnMarchaEs, EnMarchaQuieta, PasoMueve, ServidorSupuestos
         DEF Tipos, TypeOK, Hebras
  <2> QED BY <2>1, <2>2
<1>3. CASE RetornoEspurio \/ UNCHANGED vars
  <2>1. PrimeraFase /\ UNCHANGED <<pc, organismosDisponibles, fitness, organismoElecto, enviado>>
    BY <1>3 DEF RetornoEspurio, vars, PrimeraFase, contadores, poblacion, locales
  <2> QED BY <2>1, EnMarchaEs DEF EnMarcha, EnUnSitio, Porta
<1> QED BY <1>1, <1>2, <1>3 DEF Next

LEMMA IRepartoPaso == Tipos /\ IReparto /\ [Next]_vars => (Tipos /\ IReparto)'
  BY TiposPaso, AntesPaso, TrasPaso, CandadoPaso, RepartoPaso DEF IReparto

\* In the first generation no organism is handed to two clients and none is
\* lost, for any number of client threads and any spurious returns.
THEOREM RepartoCorrecto == Spec => []RepartoUnico
<1>1. Init => Tipos /\ IReparto
  BY TiposInit, RepartoInit
<1>2. Tipos /\ IReparto => RepartoUnico
  BY DEF IReparto
<1> QED BY <1>1, <1>2, IRepartoPaso, PTL DEF Spec

-----------------------------------------------------------------------------
(* The first epoch.  The theorem takes from the waits that they do not     *)
(* return unsignalled, except the one for HayOrganismosNuevos: a thread let *)
(* in before the counter is filled, or a main thread that goes on without   *)
(* its signal, would start the epoch on organisms nobody evaluated.         *)

Entrada == {"conecta", "enviaConfiguracion", "sincroniza", "compruebaNEAT", "esperaNEAT"}

\* Until neatIsReady is published every client thread is before the loop, and
\* those past the test of the flag are waiting to be told.
Puerta ==
    /\ pc[Principal] \in {"construye", "llena", "publica", "difundeNEAT"} => ~neatIsReady
    /\ ~neatIsReady => \A h \in Hilos :
          /\ pc[h] \in Entrada
          /\ pc[h] = "esperaNEAT" => h \in esperando["NEAT_OK"]

\* A thread that has found no organism in the first generation is right for as
\* long as that generation lasts.
Agotado ==
    PrimeraFase => \A h \in Hilos :
        pc[h] \in {"cuenta", "incrementa"} \cup ZonaContada => organismosDisponibles = 0

\* The waiting sets change by a signal, a broadcast, a wait or, for the
\* conditions in Espurios, by themselves.
LEMMA PuertaPaso ==
    ASSUME Tipos, Puerta, [Next]_vars, Espurios \subseteq {"HayOrganismosNuevos"}
    PROVE  Puerta'
<1> USE ServidorSupuestos DEF Tipos, TypeOK, TipoPc, TipoSinc, Condiciones, Hebras
<1>1. CASE \E h \in Hilos : HiloCliente(h)
  <2> PICK h \in Hilos : HiloCliente(h)
    BY <1>1
  <2>1. UNCHANGED neatIsReady
    BY DEF HiloCliente, Bloquea, EnviaConfiguracion, CompruebaNEAT, Duerme, Despierta, Consulta,
           Decrementa, Elige, Envia, Aborta, RecibeFitness, IncrementaYSenala, EsperaOrganismos,
           Descuenta, arranque
  <2>2. pc'[Principal] \in {pc[Principal], "fin"} /\ \A k \in Hilos \ {h} : pc'[k] = pc[k]
    BY DEF HiloCliente, Bloquea, EnviaConfiguracion, CompruebaNEAT, Duerme, Despierta, Consulta,
           Decrementa, Elige, Envia, Aborta, RecibeFitness, IncrementaYSenala, EsperaOrganismos,
           Descuenta, Paso
  <2>3. ASSUME ~neatIsReady
        PROVE  /\ pc'[h] \in Entrada
               /\ pc'[h] = "esperaNEAT" => h \in esperando'["NEAT_OK"]
               /\ esperando["NEAT_OK"] \subseteq esperando'["NEAT_OK"]
    <3>1. pc[h] \in Entrada /\ (pc[h] = "esperaNEAT" => h \in esperando["NEAT_OK"])
      BY <2>3 DEF Puerta
    <3>2. CASE Bloquea(h, "conecta", "lectura", "enviaConfiguracion")
      BY <3>2 DEF Bloquea, Paso, Entrada
    <3>3. CASE EnviaConfiguracion(h)
      BY <3>3 DEF EnviaConfiguracion, Paso, Entrada
    <3>4. CASE Bloquea(h, "sincroniza", "inicial", "compruebaNEAT")
      BY <3>4 DEF Bloquea, Paso, Entrada
    <3>5. CASE CompruebaNEAT(h)
      BY <2>3, <3>5 DEF CompruebaNEAT, FaltaNEAT, Duerme, Paso, Entrada
    <3>6. ~( \/ Bloquea(h, "conecta", "lectura", "enviaConfiguracion") \/ EnviaConfiguracion(h)
             \/ Bloquea(h, "sincroniza", "inicial", "compruebaNEAT") \/ CompruebaNEAT(h)) => FALSE
      BY <3>1 DEF Entrada, HiloCliente, Bloquea, Despierta, Consulta, Decrementa, Elige, Envia,
                  Aborta, RecibeFitness, IncrementaYSenala, EsperaOrganismos, Duerme, Descuenta,
                  Paso
    <3> QED BY <3>2, <3>3, <3>4, <3>5, <3>6
  <2> QED BY <2>1, <2>2, <2>3 DEF Puerta
<1>2. CASE HebraPrincipal
  <2>1. CASE PublicaNEAT
    BY <2>1 DEF PublicaNEAT, Paso, Puerta
  <2>2. CASE ~PublicaNEAT
    <3>1. /\ UNCHANGED neatIsReady /\ \A k \in Hilos : pc'[k] = pc[k]
          /\ \E d, hasta : Paso(Principal, d, hasta)
      BY <1>2, <2>2
         DEF HebraPrincipal, Construye, Rellena, Bloquea, AguardaHebras, Termina,
             EmpiezaEpoca, TerminaEpoca, DifundeOrganismos, Paso, arranque
    <3>2. esperando'["NEAT_OK"] = esperando["NEAT_OK"]
      BY <1>2, <2>2
         DEF HebraPrincipal, Construye, Rellena, Bloquea, AguardaHebras, Termina,
             EmpiezaEpoca, TerminaEpoca, DifundeOrganismos, Broadcast, sinc
    <3>3. pc'[Principal] \in {"construye", "llena", "publica", "difundeNEAT"} =>
             pc[Principal] \in {"construye", "llena", "publica", "difundeNEAT"}
      BY <1>2, <2>2
         DEF HebraPrincipal, Construye, Rellena, Bloquea, AguardaHebras, Termina,
             EmpiezaEpoca, TerminaEpoca, DifundeOrganismos, Paso
    <3> QED BY <3>1, <3>2, <3>3 DEF Puerta
  <2> QED BY <2>1, <2>2
<1>3. CASE RetornoEspurio
  <2>1. esperando'["NEAT_OK"] = esperando["NEAT_OK"]
    BY <1>3 DEF RetornoEspurio
  <2> QED BY <1>3, <2>1 DEF RetornoEspurio, Puerta, arranque
<1>4. CASE UNCHANGED vars
  BY <1>4 DEF vars, sinc, arranque, Puerta
<1> QED BY <1>1, <1>2, <1>3, <1>4 DEF Next

LEMMA AgotadoHilo ==
    ASSUME Tipos, IReparto, Agotado, NEW h \in Hilos, HiloCliente(h)
    PROVE  Agotado'
<1> SUFFICES ASSUME PrimeraFase', NEW k \in Hilos,
                    pc'[k] \in {"cuenta", "incrementa"} \cup ZonaContada
             PROVE  organismosDisponibles' = 0
  BY DEF Agotado
<1> USE ServidorSupuestos DEF Tipos, TypeOK, Hebras
<1>1. CASE Aborta(h, "envia") \/ Aborta(h, "evalua")
  BY <1>1 DEF Aborta, PrimeraFase, TipoPc
<1>2. CASE Consulta(h)
  <2>1. PrimeraFase /\ UNCHANGED organismosDisponibles
    BY <1>2, PasoMueve DEF Consulta, PrimeraFase, poblacion, contadores
  <2>2. CASE k = h
    <3>1. ~HayOrganismos
      BY <1>2, <2>2, PasoMueve DEF Consulta, ZonaContada
    <3> QED BY <2>1, <3>1 DEF HayOrganismos, TipoDatos
  <2>3. CASE k # h
    BY <1>2, <2>1, <2>3, PasoMueve DEF Consulta, Agotado
  <2> QED BY <2>2, <2>3
<1>3. CASE Decrementa(h)
  <2>1. PrimeraFase /\ pc[h] = "decrementa" /\ pc'[h] = "elige"
    BY <1>3, PasoMueve DEF Decrementa, PrimeraFase, poblacion
  <2>2. organismosDisponibles >= 1
    BY <2>1 DEF IReparto, LocalesFieles, Reserva
  <2>3. pc'[k] = pc[k]
    BY <1>3, <2>1, PasoMueve DEF Decrementa, ZonaContada
  <2> QED BY <2>1, <2>2, <2>3 DEF Agotado
<1>4. CASE Elige(h) \/ Envia(h) \/ RecibeFitness(h)
  BY <1>4, PasoMueve
     DEF Elige, Envia, RecibeFitness, PrimeraFase, Agotado, ZonaContada, poblacion, contadores
<1>5. CASE ~( \/ Consulta(h) \/ Decrementa(h) \/ Elige(h) \/ Envia(h) \/ RecibeFitness(h)
              \/ Aborta(h, "envia") \/ Aborta(h, "evalua"))
  <2>1. PrimeraFase /\ UNCHANGED organismosDisponibles
    BY <1>5, HiloAjeno DEF PrimeraFase
  <2>2. CASE k # h
    BY <1>5, <2>1, <2>2, HiloAjeno DEF Agotado
  <2>3. CASE k = h
    <3>1. pc[h] \in {"cuenta", "incrementa"} \cup ZonaContada
      BY <1>5, <2>3, PasoMueve
         DEF HiloCliente, Bloquea, EnviaConfiguracion, CompruebaNEAT, Duerme, Despierta,
             IncrementaYSenala, EsperaOrganismos, Descuenta, ZonaContada
    <3> QED BY <2>1, <2>3, <3>1 DEF Agotado
  <2> QED BY <2>2, <2>3
<1> QED BY <1>1, <1>2, <1>3, <1>4, <1>5

LEMMA AgotadoPaso ==
    ASSUME Tipos, IReparto, Puerta, Agotado, [Next]_vars
    PROVE  Agotado'
<1> USE ServidorSupuestos DEF Tipos, TypeOK, Hebras
<1>1. CASE \E h \in Hilos : HiloCliente(h)
  BY <1>1, AgotadoHilo
<1>2. CASE HebraPrincipal
  <2>1. CASE Rellena("llena", "publica")
    <3>1. \A h \in Hilos : pc'[h] = pc[h] /\ pc[h] \in Entrada
      BY <2>1, PasoMueve DEF Rellena, Puerta
    <3> QED BY <3>1 DEF Agotado, Entrada, ZonaContada
  <2>2. CASE ~Rellena("llena", "publica")
    <3>1. \A h \in Hilos : pc'[h] = pc[h]
      BY <1>2
         DEF HebraPrincipal, Construye, Rellena, Bloquea, PublicaNEAT, AguardaHebras, Termina,
             EmpiezaEpoca, TerminaEpoca, DifundeOrganismos, Paso, TipoPc
    <3>2. PrimeraFase' => PrimeraFase /\ UNCHANGED organismosDisponibles
      BY <1>2, <2>2
         DEF HebraPrincipal, Construye, Rellena, Bloquea, PublicaNEAT, AguardaHebras, Termina,
             EmpiezaEpoca, TerminaEpoca, DifundeOrganismos, IReparto, TrasEpoca, Paso,
             PrimeraFase, TipoPc, contadores, poblacion
    <3> QED BY <3>1, <3>2 DEF Agotado
  <2> QED BY <2>1, <2>2
<1>3. CASE RetornoEspurio \/ UNCHANGED vars
  BY <1>3 DEF RetornoEspurio, vars, Agotado, PrimeraFase, contadores, poblacion
<1> QED BY <1>1, <1>2, <1>3 DEF Next

\* When the last thread is counted every organism of the first generation has
\* its fitness.
LEMMA TodosEvaluados ==
    ASSUME Tipos, CuentaExacta, IReparto, Agotado, PrimeraFase, [Next]_vars,
           NEW h \in Hilos, IncrementaYSenala(h), EstanTodas(cantidadHebrasListas')
    PROVE  \A o \in Posiciones : fitness[o] = 0
<1>1. Contadas' = Hilos /\ Contadas' = Contadas \cup {h} /\ pc[h] = "incrementa"
  BY CuentaPaso, TodasContadas, CuentaSube DEF IncrementaYSenala, Paso
<1>2. \A k \in Hilos : pc[k] \in {"cuenta", "incrementa"} \cup ZonaContada
  BY <1>1 DEF Contadas, ZonaContada
<1>3. organismosDisponibles = 0
  BY <1>1, <1>2 DEF Agotado
<1>4. \A o \in Posiciones, k \in Hilos : ~Porta(k, o)
  BY <1>2 DEF Porta, ZonaContada
<1> SUFFICES ASSUME NEW o \in Posiciones PROVE fitness[o] = 0
  OBVIOUS
<1>5. ~(o < organismosDisponibles) /\ EnUnSitio(o) /\ fitness[o] \in {SinEvaluar, 0}
  BY <1>3 DEF IReparto, LocalesFieles, RepartoUnico, Posiciones
<1> QED BY <1>4, <1>5 DEF EnUnSitio

\* In the first phase a fitness, once 0, stays so.
LEMMA FitnessQueda ==
    ASSUME Tipos, IReparto, [Next]_vars, generacion' = 0, pc'[Principal] = "aguarda",
           PrimeraFase
    PROVE  \A o \in Posiciones : fitness[o] = 0 => fitness'[o] = 0
<1> USE ServidorSupuestos DEF Tipos, TypeOK, Hebras
<1>1. CASE \E h \in Hilos : HiloCliente(h)
  <2> PICK h \in Hilos : HiloCliente(h)
    BY <1>1
  <2>1. CASE RecibeFitness(h)
    <3>1. enviado[h] = 0
      BY <2>1, PasoMueve DEF RecibeFitness, IReparto, LocalesFieles
    <3> QED BY <2>1, <3>1 DEF RecibeFitness, TipoDatos
  <2>2. CASE ~RecibeFitness(h)
    BY <2>2
       DEF HiloCliente, Bloquea, EnviaConfiguracion, CompruebaNEAT, Duerme, Despierta, Consulta,
           Decrementa, Elige, Envia, Aborta, IncrementaYSenala, EsperaOrganismos, Descuenta,
           poblacion
  <2> QED BY <2>1, <2>2
<1>2. CASE HebraPrincipal
  BY <1>2
     DEF HebraPrincipal, Construye, Rellena, Bloquea, PublicaNEAT, AguardaHebras, Termina,
         EmpiezaEpoca, TerminaEpoca, DifundeOrganismos, poblacion, Paso, TipoPc
<1>3. CASE RetornoEspurio \/ UNCHANGED vars
  BY <1>3 DEF RetornoEspurio, vars, poblacion
<1> QED BY <1>1, <1>2, <1>3 DEF Next

LEMMA PrimeraEpocaPaso ==
    ASSUME Tipos, CuentaExacta, IReparto, Agotado, PrimeraEpocaCompleta, [Next]_vars,
           Espurios \subseteq {"HayOrganismosNuevos"}
    PROVE  PrimeraEpocaCompleta'
<1> DEFINE Pronta == /\ generacion = 0 /\ pc[Principal] = "aguarda"
                     /\ Principal \notin esperando["TodasHebrasEstanListas"]
<1> SUFFICES ASSUME Pronta' PROVE \A o \in Posiciones : fitness'[o] = 0
  BY DEF PrimeraEpocaCompleta
<1> USE ServidorSupuestos DEF Tipos, TypeOK, Hebras
<1>1. generacion = 0 /\ pc[Principal] = "aguarda"
  <2>1. CASE \E h \in Hilos : HiloCliente(h)
    <3> PICK h \in Hilos : HiloCliente(h)
      BY <2>1
    <3> QED
      BY DEF HiloCliente, Bloquea, EnviaConfiguracion, CompruebaNEAT, Duerme, Despierta, Consulta,
             Decrementa, Elige, Envia, Aborta, RecibeFitness, IncrementaYSenala,
             EsperaOrganismos, Descuenta, Paso, poblacion, TipoPc
  <2>2. CASE HebraPrincipal
    BY <2>2
       DEF HebraPrincipal, Construye, Rellena, Bloquea, PublicaNEAT, AguardaHebras, Termina,
           EmpiezaEpoca, TerminaEpoca, DifundeOrganismos, Paso, TipoPc, TipoSinc, Condiciones
  <2>3. CASE RetornoEspurio \/ UNCHANGED vars
    BY <2>3 DEF RetornoEspurio, vars, poblacion
  <2> QED BY <2>1, <2>2, <2>3 DEF Next
<1>2. PrimeraFase
  BY <1>1 DEF PrimeraFase
<1>3. \A o \in Posiciones : fitness[o] = 0
  <2>1. CASE Principal \notin esperando["TodasHebrasEstanListas"]
    BY <1>1, <2>1 DEF PrimeraEpocaCompleta
  <2>2. CASE Principal \in esperando["TodasHebrasEstanListas"]
    <3>1. espurios' = espurios
      <4>1. ~RetornoEspurio
        BY <2>2 DEF RetornoEspurio, TipoSinc, Condiciones
      <4>2. CASE \E h \in Hilos : HiloCliente(h)
        BY <4>2
           DEF HiloCliente, Bloquea, EnviaConfiguracion, CompruebaNEAT, Duerme, Despierta,
               Consulta, Decrementa, Elige, Envia, Aborta, RecibeFitness, IncrementaYSenala,
               EsperaOrganismos, Descuenta, sinc
      <4>3. CASE HebraPrincipal
        BY <4>3
           DEF HebraPrincipal, Construye, Rellena, Bloquea, PublicaNEAT, AguardaHebras, Termina,
               EmpiezaEpoca, TerminaEpoca, DifundeOrganismos, sinc
      <4>4. CASE UNCHANGED vars
        BY <4>4 DEF vars, sinc
      <4> QED BY <4>1, <4>2, <4>3, <4>4 DEF Next
    <3>2. PICK h \in Hilos : IncrementaYSenala(h) /\ EstanTodas(cantidadHebrasListas')
      BY <2>2, <3>1, QuienSenala
    <3> QED BY <1>2, <3>2, TodosEvaluados
  <2> QED BY <2>1, <2>2
<1> QED BY <1>2, <1>3, FitnessQueda

\* The first epoch starts on a population whose every organism is evaluated,
\* for any number of client threads and organisms, when the waits for NEAT_OK
\* and TodasHebrasEstanListas return only when they are signalled.
THEOREM PrimeraEpocaCorrecta ==
    ASSUME Espurios \subseteq {"HayOrganismosNuevos"}
    PROVE  Spec => []PrimeraEpocaCompleta
<1> DEFINE Inv == /\ Tipos /\ CuentaExacta /\ IReparto
                  /\ Puerta /\ Agotado /\ PrimeraEpocaCompleta
<1>1. Init => Inv
  <2> SUFFICES ASSUME Init PROVE Inv
    OBVIOUS
  <2>1. Tipos /\ CuentaExacta /\ IReparto
    BY TiposInit, CuentaInit, RepartoInit
  <2>2. pc[Principal] = "construye" /\ ~neatIsReady /\ \A h \in Hilos : pc[h] = "conecta"
    BY ServidorSupuestos DEF Init, Hebras
  <2> QED BY <2>1, <2>2 DEF Puerta, Entrada, Agotado, PrimeraFase, PrimeraEpocaCompleta
<1>2. Inv /\ [Next]_vars => Inv'
  BY TiposPaso, CuentaPaso, IRepartoPaso, PuertaPaso, AgotadoPaso, PrimeraEpocaPaso
<1>3. Inv => PrimeraEpocaCompleta
  OBVIOUS
<1> QED BY <1>1, <1>2, <1>3, PTL DEF Spec

-----------------------------------------------------------------------------
(* With one client thread and no spurious return the server implements     *)
(* Generaciones.  The two threads never work at the same time: the main    *)
(* thread is in an epoch only while the client thread waits, or is about   *)
(* to wait, for HayOrganismosNuevos.                                       *)

\* The client thread has said it is ready and has not been told to go on.
Quieto(h) == pc[h] = "duerme" \/ (pc[h] = "espera" /\ h \in esperando["HayOrganismosNuevos"])

Senalado == Principal \notin esperando["TodasHebrasEstanListas"]

Turno(h) == ~Quieto(h) =>
    /\ pc[Principal] \notin {"enEpoca", "rellena", "difunde"}
    /\ pc[Principal] = "aguarda" => ~Senalado

Limite == pc[Principal] \in {"aguarda", "enEpoca"} => generacion < GENERATIONS

\* An organism that is neither in the counter nor in the client's hands has its
\* fitness, of this generation; an epoch leaves none with one.
Evaluados(h) ==
    pc[Principal] \in {"publica", "difundeNEAT", "generacion", "aguarda", "difunde"} =>
        \A o \in Posiciones :
            o >= organismosDisponibles /\ ~Porta(h, o) => fitness[o] = generacion

EpocaConsume ==
    pc[Principal] \in {"enEpoca", "rellena"} => \A o \in Posiciones : fitness[o] = SinEvaluar

SenalCierta ==
    pc[Principal] = "aguarda" /\ Senalado => \A o \in Posiciones : fitness[o] = generacion

\* What the thread's locals say of the counter.
EnMano(h) ==
    /\ pc[h] = "decrementa" => organismoElecto[h] = organismosDisponibles
    /\ pc[h] = "elige" => organismoElecto[h] - 1 = organismosDisponibles
    /\ pc[h] \in {"envia", "evalua"} => organismoElecto[h] = organismosDisponibles
    /\ pc[h] \in {"cuenta", "incrementa"} => organismosDisponibles = 0
    /\ pc[h] = "evalua" => enviado[h] = generacion

Uno(h) == Vivo => /\ Turno(h) /\ Limite /\ Evaluados(h)
                  /\ EpocaConsume /\ SenalCierta /\ EnMano(h)

\* The steps of the client thread that touch neither the counter, the locals
\* nor the fitness, and no waiting set a property names.
LEMMA UnoAjeno ==
    ASSUME Tipos, NEW h \in Hilos, Uno(h), HiloCliente(h),
           ~Consulta(h), ~Decrementa(h), ~Elige(h), ~Envia(h), ~RecibeFitness(h),
           ~Aborta(h, "envia"), ~Aborta(h, "evalua"), ~IncrementaYSenala(h)
    PROVE  Uno(h)'
<1> SUFFICES ASSUME Vivo' PROVE Uno(h)'
  BY DEF Uno
<1> USE ServidorSupuestos DEF Tipos, TypeOK, TipoSinc, Hebras, Condiciones
<1>1. /\ UNCHANGED <<organismosDisponibles, fitness, generacion, organismoElecto, enviado>>
      /\ UNCHANGED pc[Principal]
      /\ {pc[h], pc'[h]} \cap {"decrementa", "elige", "envia", "evalua"} = {}
  BY HiloAjeno
<1>2. Vivo
  BY <1>1 DEF Vivo
<1>3. UNCHANGED Senalado
  BY DEF HiloCliente, Bloquea, EnviaConfiguracion, CompruebaNEAT, Duerme, Despierta,
         EsperaOrganismos, Descuenta, Senalado, sinc
<1>4. Quieto(h) => Quieto(h)'
  BY PasoMueve
     DEF HiloCliente, Bloquea, EnviaConfiguracion, CompruebaNEAT, Duerme, Despierta,
         EsperaOrganismos, Descuenta, Quieto, sinc
<1>5. pc'[h] \in {"cuenta", "incrementa"} => pc[h] \in {"cuenta", "incrementa"}
  BY PasoMueve
     DEF HiloCliente, Bloquea, EnviaConfiguracion, CompruebaNEAT, Duerme, Despierta,
         EsperaOrganismos, Descuenta
<1>6. Turno(h)'
  BY <1>1, <1>2, <1>3, <1>4 DEF Uno, Turno
<1>7. \A o : Porta(h, o) <=> Porta(h, o)'
  BY <1>1 DEF Porta
<1>8. Limite' /\ EpocaConsume' /\ SenalCierta'
  BY <1>1, <1>2, <1>3 DEF Uno, Limite, EpocaConsume, SenalCierta
<1>9. Evaluados(h)'
  BY <1>1, <1>2, <1>7 DEF Uno, Evaluados
<1>10. EnMano(h)'
  BY <1>1, <1>2, <1>5 DEF Uno, EnMano
<1> QED BY <1>6, <1>8, <1>9, <1>10 DEF Uno

\* While the thread holds the counter or an organism the main thread is out of
\* the epoch, and its signal has not come.
LEMMA UnoTrabaja ==
    ASSUME Tipos, NEW h \in Hilos, Uno(h), Vivo, ~Quieto(h),
           UNCHANGED <<esperando, generacion>>, UNCHANGED pc[Principal]
    PROVE  /\ Turno(h)' /\ Limite' /\ EpocaConsume' /\ SenalCierta'
           /\ ~EnEpoca
  BY DEF Uno, Turno, Limite, EpocaConsume, SenalCierta, Senalado, EnEpoca


LEMMA UnoHilo ==
    ASSUME Tipos, NEW h \in Hilos, Uno(h), HiloCliente(h)
    PROVE  Uno(h)'
<1> SUFFICES ASSUME Vivo' PROVE Uno(h)'
  BY DEF Uno
<1> USE ServidorSupuestos DEF Tipos, TypeOK, Hebras
<1>1. CASE Consulta(h)
  <2>1. /\ Vivo /\ pc[h] = "consulta" /\ pc'[h] \in {"decrementa", "cuenta"}
        /\ UNCHANGED <<esperando, generacion, organismosDisponibles, fitness>>
        /\ UNCHANGED pc[Principal]
    BY <1>1, PasoMueve DEF Consulta, Paso, sinc, contadores, poblacion
  <2>. organismoElecto'[h] = organismosDisponibles
    BY <1>1 DEF Consulta, TipoDatos
  <2>. pc'[h] = "cuenta" => organismosDisponibles = 0
    BY <1>1, PasoMueve DEF Consulta, HayOrganismos, TipoDatos
  <2>2. Turno(h)' /\ Limite' /\ EpocaConsume' /\ SenalCierta'
    BY <2>1, UnoTrabaja DEF Quieto
  <2>3. Evaluados(h)'
    BY <2>1 DEF Uno, Evaluados, Porta
  <2>4. EnMano(h)'
    BY <2>1 DEF EnMano
  <2> QED BY <2>2, <2>3, <2>4 DEF Uno
<1>2. CASE Decrementa(h)
  <2>1. /\ Vivo /\ pc[h] = "decrementa" /\ pc'[h] = "elige"
        /\ UNCHANGED <<esperando, generacion, organismoElecto, fitness>>
        /\ UNCHANGED pc[Principal]
        /\ organismosDisponibles' = organismoElecto[h] - 1
    BY <1>2, PasoMueve DEF Decrementa, Paso, sinc, locales, poblacion
  <2>2. Turno(h)' /\ Limite' /\ EpocaConsume' /\ SenalCierta'
    BY <2>1, UnoTrabaja DEF Quieto
  <2>3. organismosDisponibles' = organismosDisponibles - 1
    BY <2>1 DEF Uno, EnMano
  <2>4. ASSUME NEW o \in Posiciones, o >= organismosDisponibles', ~Porta(h, o)'
        PROVE  o >= organismosDisponibles /\ ~Porta(h, o)
    <3>1. organismosDisponibles \in Int /\ o \in Int
      BY DEF TipoDatos, Posiciones
    <3>2. o # organismosDisponibles'
      BY <2>1, <2>4 DEF Porta
    <3> QED BY <2>1, <2>3, <2>4, <3>1, <3>2 DEF Porta
  <2>5. Evaluados(h)'
    BY <2>1, <2>4 DEF Uno, Evaluados
  <2>6. EnMano(h)'
    BY <2>1 DEF EnMano
  <2> QED BY <2>2, <2>5, <2>6 DEF Uno
<1>3. CASE Elige(h)
  <2>1. PICK valor \in {organismoElecto[h] - 1, organismosDisponibles} :
               organismoElecto' = [organismoElecto EXCEPT ![h] = valor]
    BY <1>3 DEF Elige
  <2>2. /\ Vivo /\ pc[h] = "elige" /\ pc'[h] = "envia"
        /\ UNCHANGED <<esperando, generacion, organismosDisponibles, fitness>>
        /\ UNCHANGED pc[Principal]
    BY <1>3, PasoMueve DEF Elige, Paso, contadores, poblacion
  <2>3. organismoElecto[h] - 1 = organismosDisponibles
    BY <2>2 DEF Uno, EnMano
  <2>4. organismoElecto'[h] = organismosDisponibles
    BY <2>1, <2>3 DEF TipoDatos
  <2>5. Turno(h)' /\ Limite' /\ EpocaConsume' /\ SenalCierta'
    BY <2>2, UnoTrabaja DEF Quieto
  <2>6. \A o : Porta(h, o) <=> Porta(h, o)'
    BY <2>2, <2>3, <2>4 DEF Porta
  <2>7. Evaluados(h)'
    BY <2>2, <2>6 DEF Uno, Evaluados
  <2>8. EnMano(h)'
    BY <2>2, <2>4 DEF EnMano
  <2> QED BY <2>5, <2>7, <2>8 DEF Uno
<1>4. CASE Envia(h)
  <2>1. /\ Vivo /\ pc[h] = "envia" /\ pc'[h] = "evalua"
        /\ UNCHANGED <<esperando, generacion, organismosDisponibles, fitness, organismoElecto>>
        /\ UNCHANGED pc[Principal]
    BY <1>4, PasoMueve DEF Envia, Paso, sinc, contadores, poblacion
  <2>2. Turno(h)' /\ Limite' /\ EpocaConsume' /\ SenalCierta' /\ ~EnEpoca
    BY <2>1, UnoTrabaja DEF Quieto
  <2>3. enviado'[h] = generacion
    BY <1>4, <2>2 DEF Envia, TipoDatos
  <2>4. Evaluados(h)'
    BY <2>1 DEF Uno, Evaluados, Porta
  <2>5. EnMano(h)'
    BY <2>1, <2>3 DEF Uno, EnMano
  <2> QED BY <2>2, <2>4, <2>5 DEF Uno
<1>5. CASE RecibeFitness(h)
  <2>1. /\ Vivo /\ pc[h] = "evalua" /\ pc'[h] = "bucle"
        /\ UNCHANGED <<esperando, generacion, organismosDisponibles, organismoElecto>>
        /\ UNCHANGED pc[Principal]
    BY <1>5, PasoMueve DEF RecibeFitness, Paso, sinc, contadores
  <2>2. Turno(h)' /\ Limite' /\ EpocaConsume' /\ ~EnEpoca
    <3>1. ~EnEpoca /\ pc[Principal] # "rellena"
      BY <2>1 DEF Uno, Turno, Quieto, EnEpoca
    <3> QED
      BY <2>1, <3>1 DEF Uno, Turno, Quieto, Limite, EpocaConsume, Senalado, EnEpoca
  <2>3. SenalCierta'
    BY <2>1 DEF Uno, Turno, Quieto, SenalCierta, Senalado
  <2>4. /\ fitness' = [fitness EXCEPT ![organismoElecto[h]] = generacion]
        /\ organismoElecto[h] = organismosDisponibles
    BY <1>5, <2>1, <2>2 DEF RecibeFitness, Uno, EnMano
  <2>5. Evaluados(h)'
    BY <2>1, <2>4 DEF Uno, Evaluados, Porta, TipoDatos
  <2>6. EnMano(h)'
    BY <2>1 DEF EnMano
  <2> QED BY <2>2, <2>3, <2>5, <2>6 DEF Uno
<1>6. CASE IncrementaYSenala(h)
  <2>1. /\ Vivo /\ pc[h] = "incrementa" /\ pc'[h] = "duerme"
        /\ UNCHANGED <<generacion, organismosDisponibles, organismoElecto, enviado, fitness>>
        /\ UNCHANGED pc[Principal]
    BY <1>6, PasoMueve DEF IncrementaYSenala, Paso, locales, poblacion
  <2>2. organismosDisponibles = 0
    BY <2>1 DEF Uno, EnMano
  <2>3. Turno(h)' /\ EnMano(h)'
    BY <2>1 DEF Turno, Quieto, EnMano
  <2>4. Limite' /\ EpocaConsume'
    BY <2>1 DEF Uno, Limite, EpocaConsume
  <2>5. Evaluados(h)'
    BY <2>1 DEF Uno, Evaluados, Porta
  <2>6. SenalCierta'
    BY <2>1, <2>2 DEF Uno, Evaluados, SenalCierta, Porta, Posiciones
  <2> QED BY <2>3, <2>4, <2>5, <2>6 DEF Uno
<1>7. CASE Aborta(h, "envia") \/ Aborta(h, "evalua")
  BY <1>7 DEF Aborta, Vivo, TipoPc
<1> QED BY <1>1, <1>2, <1>3, <1>4, <1>5, <1>6, <1>7, UnoAjeno


LEMMA UnoPrincipal ==
    ASSUME Tipos, Puerta, NEW h \in Hilos, Uno(h), HebraPrincipal
    PROVE  Uno(h)'
<1> SUFFICES ASSUME Vivo' PROVE Uno(h)'
  BY DEF Uno
<1> USE ServidorSupuestos DEF Tipos, TypeOK, TipoSinc, Hebras, Condiciones
<1>1. /\ Vivo /\ UNCHANGED <<pc[h], organismoElecto, enviado>>
      /\ \A o : Porta(h, o) <=> Porta(h, o)'
  BY PasoMueve
     DEF HebraPrincipal, Construye, Rellena, Bloquea, PublicaNEAT, AguardaHebras, Termina,
         EmpiezaEpoca, TerminaEpoca, DifundeOrganismos, Paso, locales, TipoPc, Porta
<1>2. CASE Construye \/ Bloquea(Principal, "publica", "inicial", "difundeNEAT") \/ PublicaNEAT
  <2>1. /\ pc[Principal] \in {"construye", "publica", "difundeNEAT"}
        /\ pc'[Principal] \in {"llena", "difundeNEAT", "generacion"}
        /\ pc[Principal] = "construye" => pc'[Principal] = "llena"
        /\ UNCHANGED <<organismosDisponibles, fitness, generacion>>
    BY <1>2, PasoMueve DEF Construye, Bloquea, PublicaNEAT, contadores, poblacion
  <2>2. Turno(h)' /\ Limite' /\ EpocaConsume' /\ SenalCierta'
    BY <2>1 DEF Turno, Limite, EpocaConsume, SenalCierta
  <2>3. Evaluados(h)' /\ EnMano(h)'
    BY <1>1, <2>1 DEF Uno, Evaluados, EnMano
  <2> QED BY <2>2, <2>3 DEF Uno
<1>3. CASE Rellena("llena", "publica")
  <2>1. /\ pc[Principal] = "llena" /\ pc'[Principal] = "publica"
        /\ organismosDisponibles' = POPULATION_MAX
    BY <1>3, PasoMueve DEF Rellena
  <2>2. pc'[h] \in Entrada
    BY <1>1, <2>1 DEF Puerta
  <2>3. Turno(h)' /\ Limite' /\ EpocaConsume' /\ SenalCierta' /\ Evaluados(h)'
    BY <2>1 DEF Turno, Limite, EpocaConsume, SenalCierta, Evaluados, Posiciones
  <2> QED BY <2>2, <2>3 DEF Uno, EnMano, Entrada
<1>4. CASE AguardaHebras
  <2>1. /\ pc'[Principal] = "aguarda" /\ pc[Principal] = "generacion"
        /\ UNCHANGED <<organismosDisponibles, fitness, generacion>>
        /\ generacion < GENERATIONS
    BY <1>4, PasoMueve DEF AguardaHebras, contadores, poblacion
  <2>2. ~Senalado'
    BY <1>4 DEF AguardaHebras, Senalado
  <2>3. Turno(h)' /\ Limite' /\ EpocaConsume' /\ SenalCierta'
    BY <2>1, <2>2 DEF Turno, Limite, EpocaConsume, SenalCierta
  <2>4. Evaluados(h)' /\ EnMano(h)'
    BY <1>1, <2>1 DEF Uno, Evaluados, EnMano
  <2> QED BY <2>3, <2>4 DEF Uno
<1>5. CASE Termina
  BY <1>5, PasoMueve DEF Termina, Vivo
<1>6. CASE EmpiezaEpoca
  <2>1. /\ pc[Principal] = "aguarda" /\ pc'[Principal] = "enEpoca" /\ Senalado
        /\ UNCHANGED <<organismosDisponibles, generacion, esperando>>
        /\ fitness' = [o \in Posiciones |-> SinEvaluar]
    BY <1>6, PasoMueve DEF EmpiezaEpoca, Senalado, sinc, contadores
  <2>2. Quieto(h) /\ Quieto(h)'
    BY <1>1, <2>1 DEF Uno, Turno, Quieto
  <2>3. Limite'
    BY <1>1, <2>1 DEF Uno, Limite
  <2>4. Turno(h)' /\ EpocaConsume' /\ SenalCierta' /\ Evaluados(h)'
    BY <2>1, <2>2 DEF Turno, EpocaConsume, SenalCierta, Evaluados
  <2>5. EnMano(h)'
    BY <1>1, <2>2 DEF EnMano, Quieto
  <2> QED BY <2>3, <2>4, <2>5 DEF Uno
<1>7. CASE TerminaEpoca
  <2>1. /\ pc[Principal] = "enEpoca" /\ pc'[Principal] = "rellena"
        /\ UNCHANGED <<organismosDisponibles, fitness, esperando>>
    BY <1>7, PasoMueve DEF TerminaEpoca, sinc, contadores
  <2>2. Quieto(h) /\ Quieto(h)'
    BY <1>1, <2>1 DEF Uno, Turno, Quieto
  <2>3. EpocaConsume'
    BY <1>1, <2>1 DEF Uno, EpocaConsume
  <2>4. Turno(h)' /\ Limite' /\ SenalCierta' /\ Evaluados(h)'
    BY <2>1, <2>2 DEF Turno, Limite, SenalCierta, Evaluados
  <2>5. EnMano(h)'
    BY <1>1, <2>2 DEF EnMano, Quieto
  <2> QED BY <2>3, <2>4, <2>5 DEF Uno
<1>8. CASE Rellena("rellena", "difunde")
  <2>1. /\ pc[Principal] = "rellena" /\ pc'[Principal] = "difunde"
        /\ UNCHANGED esperando /\ organismosDisponibles' = POPULATION_MAX
    BY <1>8, PasoMueve DEF Rellena, sinc
  <2>2. Quieto(h) /\ Quieto(h)'
    BY <1>1, <2>1 DEF Uno, Turno, Quieto
  <2>3. Turno(h)' /\ Limite' /\ EpocaConsume' /\ SenalCierta' /\ Evaluados(h)'
    BY <2>1, <2>2 DEF Turno, Limite, EpocaConsume, SenalCierta, Evaluados, Posiciones
  <2>4. EnMano(h)'
    BY <1>1, <2>2 DEF EnMano, Quieto
  <2> QED BY <2>3, <2>4 DEF Uno
<1>9. CASE DifundeOrganismos
  <2>1. /\ pc[Principal] = "difunde" /\ pc'[Principal] = "generacion"
        /\ UNCHANGED <<organismosDisponibles, fitness, generacion>>
    BY <1>9, PasoMueve DEF DifundeOrganismos, contadores, poblacion
  <2>2. Turno(h)' /\ Limite' /\ EpocaConsume' /\ SenalCierta'
    BY <2>1 DEF Turno, Limite, EpocaConsume, SenalCierta
  <2>3. Evaluados(h)' /\ EnMano(h)'
    BY <1>1, <2>1 DEF Uno, Evaluados, EnMano
  <2> QED BY <2>2, <2>3 DEF Uno
<1> QED BY <1>2, <1>3, <1>4, <1>5, <1>6, <1>7, <1>8, <1>9 DEF HebraPrincipal

LEMMA UnoPaso ==
    ASSUME Tipos, Puerta, NEW h, Hilos = {h}, Espurios = {}, Uno(h), [Next]_vars
    PROVE  Uno(h)'
<1>1. CASE \E k \in Hilos : HiloCliente(k)
  BY <1>1, UnoHilo
<1>2. CASE HebraPrincipal
  BY <1>2, UnoPrincipal
<1>3. ~RetornoEspurio
  BY DEF RetornoEspurio
<1>4. CASE UNCHANGED vars
  BY <1>4 DEF vars, sinc, contadores, poblacion, locales, Uno, Vivo, Turno, Quieto, Senalado,
              Limite, Evaluados, Porta, EpocaConsume, SenalCierta, EnMano
<1> QED BY <1>1, <1>2, <1>3, <1>4 DEF Next

LEMMA UnoInit == ASSUME Init, NEW h \in Hilos PROVE Uno(h)
<1>1. /\ pc[Principal] = "construye" /\ pc[h] = "conecta"
  BY ServidorSupuestos DEF Init, Hebras
<1> QED BY <1>1 DEF Uno, Turno, Limite, Evaluados, EpocaConsume, SenalCierta, EnMano


Pendientes == {o \in Posiciones : fitness[o] # generacion}

\* A step that changes no fitness, generation or epoch is a stutter of Generaciones.
LEMMA TartamudeaSi ==
    ASSUME UNCHANGED <<fitness, generacion, EnEpoca>>
    PROVE  UNCHANGED <<Pendientes, generacion, EnEpoca>>
  BY DEF Pendientes

\* An answer evaluates the organism it is for, or confirms it.
LEMMA RecibeEvalua ==
    ASSUME Tipos, NEW h \in Hilos, Uno(h), RecibeFitness(h)
    PROVE  Abstracto!Evalua \/ UNCHANGED <<Pendientes, generacion, EnEpoca>>
<1> DEFINE electo == organismoElecto[h]
<1> USE ServidorSupuestos DEF Tipos, TypeOK, Hebras
<1>1. /\ Vivo /\ pc[h] = "evalua" /\ UNCHANGED generacion /\ UNCHANGED pc[Principal]
  BY PasoMueve DEF RecibeFitness, Paso
<1>2. ~EnEpoca /\ ~EnEpoca'
  BY <1>1 DEF Uno, Turno, Quieto, EnEpoca
<1>3. fitness' = [fitness EXCEPT ![electo] = generacion]
  BY <1>1, <1>2 DEF RecibeFitness, Uno, EnMano
<1>4. \A o \in Posiciones : fitness'[o] = IF o = electo THEN generacion ELSE fitness[o]
  BY <1>3 DEF TipoDatos
<1>5. Pendientes' = Pendientes \ {electo}
  BY <1>1, <1>4 DEF Pendientes
<1>6. CASE electo \in Pendientes
  <2>1. \E o \in Pendientes : Pendientes' = Pendientes \ {o}
    BY <1>5, <1>6
  <2> QED BY <1>1, <1>2, <2>1 DEF Abstracto!Evalua, Pendientes, EnEpoca
<1>7. CASE electo \notin Pendientes
  BY <1>1, <1>2, <1>5, <1>7 DEF EnEpoca
<1> QED BY <1>6, <1>7

\* The main thread's steps in and out of the epoch are those of Generaciones.
LEMMA EpocaAbstracta ==
    ASSUME Tipos, NEW h \in Hilos, Uno(h), HebraPrincipal
    PROVE  Abstracto!Next \/ UNCHANGED <<Pendientes, generacion, EnEpoca>>
<1> USE ServidorSupuestos DEF Tipos, TypeOK, Hebras
<1>1. CASE EmpiezaEpoca
  <2>1. /\ Vivo /\ pc[Principal] = "aguarda" /\ pc'[Principal] = "enEpoca" /\ Senalado
        /\ UNCHANGED generacion /\ fitness' = [o \in Posiciones |-> SinEvaluar]
    BY <1>1, PasoMueve DEF EmpiezaEpoca, Senalado, Paso
  <2>2. Pendientes = {} /\ generacion < GENERATIONS
    BY <2>1 DEF Uno, SenalCierta, Limite, Pendientes
  <2>3. Pendientes' = Posiciones
    BY <2>1 DEF Pendientes, SinEvaluar, TipoDatos
  <2>4. ~EnEpoca /\ EnEpoca'
    BY <2>1 DEF EnEpoca
  <2> QED BY <2>1, <2>2, <2>3, <2>4 DEF Abstracto!Next, Abstracto!EmpiezaEpoca, Pendientes
<1>2. CASE TerminaEpoca
  <2>1. /\ Vivo /\ pc[Principal] = "enEpoca" /\ pc'[Principal] = "rellena"
        /\ generacion' = generacion + 1 /\ UNCHANGED fitness
    BY <1>2, PasoMueve DEF TerminaEpoca, Paso
  <2>2. \A o \in Posiciones : fitness[o] = SinEvaluar
    BY <2>1 DEF Uno, EpocaConsume
  <2>3. Pendientes = Posiciones /\ Pendientes' = Posiciones
    BY <2>1, <2>2 DEF Pendientes, SinEvaluar, TipoDatos
  <2>4. EnEpoca /\ ~EnEpoca'
    BY <2>1 DEF EnEpoca
  <2> QED BY <2>1, <2>3, <2>4 DEF Abstracto!Next, Abstracto!TerminaEpoca, Pendientes, EnEpoca
<1>3. CASE ~EmpiezaEpoca /\ ~TerminaEpoca
  <2>1. UNCHANGED <<fitness, generacion, EnEpoca>>
    BY <1>3, PasoMueve
       DEF HebraPrincipal, Construye, Rellena, Bloquea, PublicaNEAT, AguardaHebras, Termina,
           DifundeOrganismos, EnEpoca, poblacion
  <2> QED BY <2>1, TartamudeaSi
<1> QED BY <1>1, <1>2, <1>3

LEMMA HiloAbstracto ==
    ASSUME Tipos, NEW h \in Hilos, Uno(h), HiloCliente(h)
    PROVE  Abstracto!Next \/ UNCHANGED <<Pendientes, generacion, EnEpoca>>
<1> USE ServidorSupuestos DEF Tipos, TypeOK, Hebras
<1>1. CASE RecibeFitness(h)
  BY <1>1, RecibeEvalua DEF Abstracto!Next
<1>2. CASE Aborta(h, "envia") \/ Aborta(h, "evalua")
  <2>1. /\ Vivo /\ pc[h] \in {"envia", "evalua"} /\ UNCHANGED poblacion
        /\ pc'[Principal] = "fin"
    BY <1>2 DEF Aborta, TipoPc
  <2>2. ~EnEpoca /\ ~EnEpoca'
    BY <2>1 DEF Uno, Turno, Quieto, EnEpoca
  <2> QED BY <2>1, <2>2, TartamudeaSi DEF poblacion, EnEpoca
<1>3. CASE ~RecibeFitness(h) /\ ~Aborta(h, "envia") /\ ~Aborta(h, "evalua")
  <2>1. UNCHANGED poblacion /\ UNCHANGED pc[Principal]
    BY <1>3, PasoMueve
       DEF HiloCliente, Bloquea, EnviaConfiguracion, CompruebaNEAT, Duerme, Despierta, Consulta,
           Decrementa, Elige, Envia, IncrementaYSenala, EsperaOrganismos, Descuenta
  <2> QED BY <2>1, TartamudeaSi DEF poblacion, EnEpoca
<1> QED BY <1>1, <1>2, <1>3

\* With one client, and waits that return only when they are signalled, the
\* server evaluates every organism of every generation once and replaces a
\* generation only when all of it is evaluated: it implements Generaciones,
\* for any population and number of generations.
THEOREM UnClienteImplementa ==
    ASSUME NEW h, Hilos = {h}, Espurios = {}
    PROVE  Spec => ImplementaGeneraciones
<1> DEFINE Inv == Tipos /\ Puerta /\ Uno(h)
           Quieta == UNCHANGED <<Pendientes, generacion, EnEpoca>>
<1>1. Init => Inv
  <2> SUFFICES ASSUME Init PROVE Inv
    OBVIOUS
  <2>1. pc[Principal] = "construye" /\ ~neatIsReady /\ \A k \in Hilos : pc[k] = "conecta"
    BY ServidorSupuestos DEF Init, Hebras
  <2> QED BY <2>1, TiposInit, UnoInit DEF Puerta, Entrada
<1>2. Inv /\ [Next]_vars => Inv'
  BY TiposPaso, PuertaPaso, UnoPaso
<1>3. Init => Abstracto!Init
  <2> SUFFICES ASSUME Init PROVE Abstracto!Init
    OBVIOUS
  <2>1. pc[Principal] = "construye"
    BY ServidorSupuestos DEF Init, Hebras
  <2>2. Pendientes = Posiciones
    BY DEF Init, Pendientes, SinEvaluar
  <2> QED BY <2>1, <2>2 DEF Abstracto!Init, Init, EnEpoca, Pendientes
<1>4. Inv /\ [Next]_vars => Abstracto!Next \/ Quieta
  <2> SUFFICES ASSUME Inv, [Next]_vars PROVE Abstracto!Next \/ Quieta
    OBVIOUS
  <2>1. CASE \E k \in Hilos : HiloCliente(k)
    BY <2>1, HiloAbstracto
  <2>2. CASE HebraPrincipal
    BY <2>2, EpocaAbstracta
  <2>3. ~RetornoEspurio
    BY DEF RetornoEspurio
  <2>4. CASE UNCHANGED vars
    BY <2>4, TartamudeaSi DEF vars, poblacion, EnEpoca
  <2> QED BY <2>1, <2>2, <2>3, <2>4 DEF Next
<1> QED BY <1>1, <1>2, <1>3, <1>4, PTL
    DEF Spec, ImplementaGeneraciones, Abstracto!Spec, Pendientes

=============================================================================
