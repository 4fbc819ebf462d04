--------------------------- MODULE ClienteProofs ---------------------------
(***************************************************************************)
(* Theorems about Cliente, for any number of clients, organisms,           *)
(* generations and measurements.                                           *)
(***************************************************************************)
EXTENDS Cliente, SequenceTheorems, TLAPS

-----------------------------------------------------------------------------
(* Sequences                                                               *)

\* What a read takes and what it leaves.
LEMMA Corte ==
    ASSUME NEW S, NEW s \in Seq(S), NEW k \in 0 .. Len(s)
    PROVE  /\ SubSeq(s, 1, k) \in Seq(S) /\ Len(SubSeq(s, 1, k)) = k
           /\ \A i \in 1 .. k : SubSeq(s, 1, k)[i] = s[i]
           /\ SubSeq(s, k + 1, Len(s)) \in Seq(S)
           /\ Len(SubSeq(s, k + 1, Len(s))) = Len(s) - k
           /\ \A i \in 1 .. Len(s) - k : SubSeq(s, k + 1, Len(s))[i] = s[i + k]
<1>1. Len(s) \in Nat /\ \A i \in 1 .. Len(s) : s[i] \in S
  BY LenProperties
<1>2. /\ SubSeq(s, 1, k) \in Seq(S) /\ Len(SubSeq(s, 1, k)) = IF 1 <= k THEN k - 1 + 1 ELSE 0
      /\ \A i \in 1 .. k - 1 + 1 : SubSeq(s, 1, k)[i] = s[1 + i - 1]
  <2>1. \A i \in 1 .. k : s[i] \in S
    BY <1>1
  <2> QED BY <1>1, <2>1, SubSeqProperties
<1>3. /\ SubSeq(s, k + 1, Len(s)) \in Seq(S)
      /\ Len(SubSeq(s, k + 1, Len(s))) = IF k + 1 <= Len(s) THEN Len(s) - (k + 1) + 1 ELSE 0
      /\ \A i \in 1 .. Len(s) - (k + 1) + 1 :
            SubSeq(s, k + 1, Len(s))[i] = s[(k + 1) + i - 1]
  <2>1. \A i \in k + 1 .. Len(s) : s[i] \in S
    BY <1>1
  <2>2. k + 1 \in Int /\ Len(s) \in Int
    BY <1>1
  <2> QED BY <2>1, <2>2, SubSeqProperties
<1>4. /\ \A i \in 1 .. k : SubSeq(s, 1, k)[i] = s[i]
      /\ Len(SubSeq(s, 1, k)) = k
  BY <1>2
<1>5. \A i \in 1 .. Len(s) - k : SubSeq(s, k + 1, Len(s))[i] = s[i + k]
  <2> SUFFICES ASSUME NEW i \in 1 .. Len(s) - k
               PROVE  SubSeq(s, k + 1, Len(s))[i] = s[i + k]
    OBVIOUS
  <2>1. i \in 1 .. Len(s) - (k + 1) + 1 /\ (k + 1) + i - 1 = i + k
    BY <1>1
  <2> QED BY <1>3, <2>1
<1>6. Len(SubSeq(s, k + 1, Len(s))) = Len(s) - k
  BY <1>1, <1>3
<1> QED BY <1>2, <1>3, <1>4, <1>5, <1>6

-----------------------------------------------------------------------------
(* Type correctness                                                        *)

TipoServidor ==
    /\ vivo \in BOOLEAN /\ leido \in BOOLEAN
    /\ sv \in [Hilos -> {"conecta", "bucle", "aguarda", "duerme"}]
    /\ electo \in [Hilos -> Posiciones \cup {NADA}]
    /\ disponibles \in 0 .. POPULATION_MAX
    /\ generacion \in 1 .. MAX_GENERACION
    /\ fitness \in [Posiciones -> SUBSET (Respuestas \cup {Ruido})]

TipoRed ==
    /\ bajada \in [Hilos -> Seq(Trozos)] /\ subida \in [Hilos -> Seq(Respuestas)]
    /\ avisada \in [Hilos -> BOOLEAN]

TipoLugar ==
    /\ cl \in [Hilos -> {"configura", "inicia", "comprueba", "espera", "crea",
                         "simula", "fin", "caido"}]
    /\ conf \in [Hilos -> Seq(Trozos)] /\ archivo \in [Hilos -> Seq(Trozos)]
    /\ OkConnections \in [Hilos -> BOOLEAN]

TipoMedida == [cuantas : 0 .. MAX_MEDIDAS, inicial : Edades \cup {NADA, BASURA}]
TipoRobot == [conectado : BOOLEAN, pedidas : SUBSET Edades,
              buzon : Edades \cup {NADA}, aldia : BOOLEAN]

TipoCuerpo ==
    /\ flag \in [Hilos -> BOOLEAN] /\ valor \in [Hilos -> Valores]
    /\ medida \in [Hilos -> TipoMedida] /\ robot \in [Hilos -> TipoRobot]

\* An answer is only computed from an organism.
Tipos ==
    /\ TipoServidor /\ TipoRed /\ TipoLugar /\ TipoCuerpo
    /\ \A h \in Hilos : cl[h] = "simula" => archivo[h] # <<>> /\ archivo[h][1].de \in Organismos

LEMMA TiposTypeOK == Tipos => TypeOK
  BY DEF Tipos, TipoServidor, TipoRed, TipoLugar, TipoCuerpo, TipoMedida, TipoRobot, TypeOK

LEMMA TiposInit == Init => Tipos
<1> SUFFICES ASSUME Init PROVE Tipos
  OBVIOUS
<1> USE ClienteSupuestos
<1>1. TipoServidor
  <2>1. vivo \in BOOLEAN
    BY DEF Init
  <2>2. leido \in BOOLEAN
    BY DEF Init
  <2>3. sv \in [Hilos -> {"conecta", "bucle", "aguarda", "duerme"}]
    BY DEF Init
  <2>4. electo \in [Hilos -> Posiciones \cup {NADA}]
    BY DEF Init
  <2>5. disponibles \in 0 .. POPULATION_MAX /\ generacion \in 1 .. MAX_GENERACION
    BY DEF Init
  <2>6. fitness \in [Posiciones -> SUBSET (Respuestas \cup {Ruido})]
    BY DEF Init, Posiciones
  <2> QED BY <2>1, <2>2, <2>3, <2>4, <2>5, <2>6 DEF TipoServidor
<1>2. TipoRed
  BY DEF Init, TipoRed
<1>3. TipoLugar
  BY DEF Init, TipoLugar
<1>4. TipoCuerpo
  <2>1. medida \in [Hilos -> TipoMedida]
    BY DEF Init, SinMedida, TipoMedida
  <2>2. robot \in [Hilos -> TipoRobot]
    BY DEF Init, SinRobot, TipoRobot
  <2>3. valor \in [Hilos -> Valores]
    BY DEF Init, Valores
  <2> QED BY <2>1, <2>2, <2>3 DEF Init, TipoCuerpo
<1>5. \A h \in Hilos : cl[h] # "simula"
  BY DEF Init
<1> QED BY <1>1, <1>2, <1>3, <1>4, <1>5 DEF Tipos

\* A message written goes to the end of the stream, whole or in two parts.
LEMMA EscribeBien ==
    ASSUME NEW s \in Seq(Trozos), NEW m \in {CONFIG} \cup Organismos,
           NEW trozos, trozos = Enteros(m) \/ trozos = EnDos(m)
    PROVE  /\ trozos \in Seq(Trozos) /\ s \o trozos \in Seq(Trozos)
           /\ Len(s \o trozos) = Len(s) + Len(trozos)
           /\ \A i \in 1 .. Len(s) : (s \o trozos)[i] = s[i]
           /\ \A i \in 1 .. Len(trozos) : (s \o trozos)[Len(s) + i] = trozos[i]
           /\ \/ Len(trozos) = 1 /\ trozos[1] = [de |-> m, parte |-> "entero"]
              \/ Len(trozos) = 2 /\ trozos[1] = [de |-> m, parte |-> "cabeza"]
                                 /\ trozos[2] = [de |-> m, parte |-> "cola"]
<1>1. \A p \in {"entero", "cabeza", "cola"} : [de |-> m, parte |-> p] \in Trozos
  BY DEF Trozos
<1>2. trozos = Enteros(m) \/ trozos = EnDos(m)
  OBVIOUS
<1>3. trozos \in Seq(Trozos)
  <2>1. CASE trozos = Enteros(m)
    <3>1. [de |-> m, parte |-> "entero"] \in Trozos
      BY <1>1
    <3> QED BY <2>1, <3>1 DEF Enteros
  <2>2. CASE trozos = EnDos(m)
    <3>1. [de |-> m, parte |-> "cabeza"] \in Trozos /\ [de |-> m, parte |-> "cola"] \in Trozos
      BY <1>1
    <3>2. \A a, b \in Trozos : <<a, b>> \in Seq(Trozos)
      OBVIOUS
    <3> QED BY <2>2, <3>1, <3>2 DEF EnDos
  <2> QED BY <1>2, <2>1, <2>2
<1>4. \/ Len(trozos) = 1 /\ trozos[1] = [de |-> m, parte |-> "entero"]
      \/ Len(trozos) = 2 /\ trozos[1] = [de |-> m, parte |-> "cabeza"]
                         /\ trozos[2] = [de |-> m, parte |-> "cola"]
  BY <1>2 DEF Enteros, EnDos
<1>5. /\ s \o trozos \in Seq(Trozos) /\ Len(s \o trozos) = Len(s) + Len(trozos)
      /\ \A i \in 1 .. Len(s) + Len(trozos) :
            (s \o trozos)[i] = IF i <= Len(s) THEN s[i] ELSE trozos[i - Len(s)]
  BY <1>3, ConcatProperties
<1>6. Len(s) \in Nat /\ Len(trozos) \in Nat
  BY <1>3, LenProperties
<1>7. \A i \in 1 .. Len(s) : (s \o trozos)[i] = s[i]
  BY <1>5, <1>6
<1>8. \A i \in 1 .. Len(trozos) : (s \o trozos)[Len(s) + i] = trozos[i]
  BY <1>5, <1>6
<1> QED BY <1>3, <1>4, <1>5, <1>7, <1>8

LEMMA EscribeTipo ==
    ASSUME Tipos, NEW h \in Hilos, NEW m \in {CONFIG} \cup Organismos, Escribe(h, m)
    PROVE  /\ bajada' \in [Hilos -> Seq(Trozos)]
           /\ \A j \in Hilos \ {h} : bajada'[j] = bajada[j]
<1>1. PICK trozos \in {Enteros(m), EnDos(m)} :
          bajada' = [bajada EXCEPT ![h] = @ \o trozos]
  BY DEF Escribe
<1>2. bajada \in [Hilos -> Seq(Trozos)]
  BY DEF Tipos, TipoRed
<1>3. bajada[h] \o trozos \in Seq(Trozos)
  BY <1>2, EscribeBien
<1> QED BY <1>1, <1>2, <1>3

LEMMA LeeTipo ==
    ASSUME Tipos, NEW h \in Hilos, NEW k \in 0 .. Len(bajada[h]), Lee(h, k)
    PROVE  /\ bajada' \in [Hilos -> Seq(Trozos)]
           /\ SubSeq(bajada[h], 1, k) \in Seq(Trozos)
           /\ bajada' = [bajada EXCEPT ![h] = SubSeq(bajada[h], k + 1, Len(bajada[h]))]
<1>1. bajada \in [Hilos -> Seq(Trozos)]
  BY DEF Tipos, TipoRed
<1>2. /\ SubSeq(bajada[h], 1, k) \in Seq(Trozos)
      /\ SubSeq(bajada[h], k + 1, Len(bajada[h])) \in Seq(Trozos)
  BY <1>1, Corte
<1> QED BY <1>1, <1>2 DEF Lee

\* The answer the server reads is one a client may send.
LEMMA LeeRespuesta ==
    ASSUME Tipos, NEW h \in Hilos
    PROVE  /\ subida \in [Hilos -> Seq(Respuestas)]
           /\ subida[h] # <<>> => Head(subida[h]) \in Respuestas /\ Head(subida[h]) = subida[h][1]
           /\ [subida EXCEPT ![h] = <<>>] \in [Hilos -> Seq(Respuestas)]
  BY DEF Tipos, TipoRed

\* What Fitness holds once an organism was simulated.
LEMMA CalculoTipo ==
    ASSUME Tipos, NEW h \in Hilos, cl[h] = "simula", NEW gira \in BOOLEAN
    PROVE  /\ Calculo(h, gira) \in Valores
           /\ Calculo(h, gira) \in {valor[h], FALLIDO, archivo[h][1].de}
<1>1. archivo[h][1].de \in Organismos /\ valor[h] \in Valores
  BY DEF Tipos, TipoCuerpo
<1>2. FALLIDO \in Valores /\ Organismos \subseteq Valores
  BY DEF Valores
<1>3. CASE flag[h]
  BY <1>1, <1>2, <1>3 DEF Calculo
<1>4. CASE ~flag[h]
  BY <1>1, <1>4 DEF Calculo
<1> QED BY <1>3, <1>4

\* What a call that waits does: if it is answered, what was asked before it is
\* answered too, no older than it was asked for.
LEMMA EsperaBien ==
    ASSUME NEW h, NEW r \in TipoRobot, NEW t \in TrasEsperar(h, r)
    PROVE  /\ t \in TipoRobot /\ t.conectado = r.conectado
           /\ \/ t = r
              \/ /\ r.conectado /\ t.pedidas = {}
                 /\ r.pedidas = {} => t.buzon = r.buzon
                 /\ r.pedidas # {} =>
                       t.buzon \in Edades /\ \A i \in r.pedidas : t.buzon <= i
<1>1. CASE t = r
  BY <1>1
<1>2. CASE r.conectado /\ r.pedidas = {} /\ t = [r EXCEPT !.aldia = TRUE]
  BY <1>2 DEF TipoRobot
<1>3. ASSUME NEW k \in Edades, r.conectado, r.pedidas # {}, \A i \in r.pedidas : k <= i,
             t = [r EXCEPT !.aldia = TRUE, !.pedidas = {}, !.buzon = k]
      PROVE  /\ t \in TipoRobot /\ t.conectado = r.conectado /\ t.pedidas = {}
             /\ t.buzon \in Edades /\ \A i \in r.pedidas : t.buzon <= i
  <2>1. t.conectado = r.conectado /\ t.pedidas = {} /\ t.buzon = k
    BY <1>3 DEF TipoRobot
  <2>2. t \in TipoRobot
    BY <1>3 DEF TipoRobot
  <2> QED BY <1>3, <2>1, <2>2
<1> QED BY <1>1, <1>2, <1>3 DEF TrasEsperar

LEMMA MayorBien ==
    ASSUME NEW e \in Edades \cup {NADA}
    PROVE  Mayor(e) \in Edades \cup {NADA} /\ (e \in Edades => Mayor(e) \in Edades)
  BY DEF Mayor, Edades, VIEJA, NADA

\* What was asked or heard in the last simulation is one simulation old in the next.
LEMMA EnvejeceBien ==
    ASSUME NEW r \in TipoRobot
    PROVE  /\ Envejece(r) \in TipoRobot
           /\ Envejece(r).conectado = r.conectado /\ Envejece(r).aldia = r.aldia
           /\ 0 \in r.pedidas => 1 \in Envejece(r).pedidas
           /\ r.pedidas = {} => Envejece(r).pedidas = {}
           /\ r.buzon = 0 => Envejece(r).buzon = 1
           /\ r.buzon = NADA => Envejece(r).buzon = NADA
<1> DEFINE P == {Mayor(i) : i \in r.pedidas}
           b == Mayor(r.buzon)
<1>1. r.pedidas \subseteq Edades /\ r.buzon \in Edades \cup {NADA}
  BY DEF TipoRobot
<1>2. P \in SUBSET Edades /\ b \in Edades \cup {NADA}
  BY <1>1, MayorBien
<1>3. Mayor(0) = 1 /\ Mayor(NADA) = NADA
  BY DEF Mayor, NADA, VIEJA
<1>4. (0 \in r.pedidas => 1 \in P) /\ (r.pedidas = {} => P = {})
      /\ (r.buzon = 0 => b = 1) /\ (r.buzon = NADA => b = NADA)
  BY <1>3
<1>5. Envejece(r) = [r EXCEPT !.pedidas = P, !.buzon = b]
  BY DEF Envejece
<1> HIDE DEF P, b
<1> QED BY <1>2, <1>4, <1>5 DEF TipoRobot

LEMMA TiposServidor ==
    ASSUME Tipos, NEW h \in Hilos, HiloServidor(h)
    PROVE  Tipos'
<1> USE ClienteSupuestos
<1>1. cliente' = cliente /\ TipoLugar' /\ TipoCuerpo'
      /\ \A j \in Hilos : cl'[j] = "simula" => archivo'[j] # <<>> /\ archivo'[j][1].de \in Organismos
  BY DEF Tipos, TipoLugar, TipoCuerpo, cliente, HiloServidor, EnviaConfiguracion,
         SacaOrganismo, RecibeFitness, Duerme
<1>2. TipoServidor /\ TipoRed
  BY DEF Tipos
<1>3. CASE EnviaConfiguracion(h)
  <2>1. bajada' \in [Hilos -> Seq(Trozos)]
    BY <1>2, <1>3, EscribeTipo DEF EnviaConfiguracion, TipoRed
  <2>2. leido' \in BOOLEAN
    BY <1>3 DEF EnviaConfiguracion
  <2>3. sv' \in [Hilos -> {"conecta", "bucle", "aguarda", "duerme"}]
    BY <1>2, <1>3 DEF EnviaConfiguracion, TipoServidor
  <2>4. UNCHANGED <<vivo, electo, disponibles, generacion, fitness, subida, avisada>>
    BY <1>3 DEF EnviaConfiguracion
  <2>5. TipoServidor' /\ TipoRed'
    BY <1>2, <2>1, <2>2, <2>3, <2>4 DEF TipoServidor, TipoRed, Posiciones
  <2> QED BY <1>1, <2>5 DEF Tipos
<1>4. CASE SacaOrganismo(h)
  <2>1. /\ disponibles \in 1 .. POPULATION_MAX /\ disponibles' = disponibles - 1
        /\ electo' = [electo EXCEPT ![h] = disponibles - 1]
        /\ sv' = [sv EXCEPT ![h] = "aguarda"]
        /\ UNCHANGED <<leido, generacion, fitness, subida>>
    BY <1>2, <1>4 DEF SacaOrganismo, Quedan, TipoServidor
  <2>2. disponibles' \in 0 .. POPULATION_MAX /\ disponibles - 1 \in Posiciones
    BY <2>1 DEF Posiciones
  <2>3. <<generacion, disponibles - 1>> \in Organismos
    BY <1>2, <2>2 DEF Organismos, Posiciones, TipoServidor
  <2>4. bajada' \in [Hilos -> Seq(Trozos)]
    BY <1>2, <1>4, <2>3, EscribeTipo DEF SacaOrganismo, TipoRed
  <2>5. vivo' \in BOOLEAN
    BY <1>2, <1>4 DEF SacaOrganismo, TipoServidor
  <2>6. avisada' \in [Hilos -> BOOLEAN]
    BY <1>2, <1>4 DEF SacaOrganismo, TipoRed
  <2>7. electo' \in [Hilos -> Posiciones \cup {NADA}]
        /\ sv' \in [Hilos -> {"conecta", "bucle", "aguarda", "duerme"}]
    BY <1>2, <2>1, <2>2 DEF TipoServidor
  <2>8. TipoServidor' /\ TipoRed'
    BY <1>2, <2>1, <2>2, <2>4, <2>5, <2>6, <2>7 DEF TipoServidor, TipoRed, Posiciones
  <2> QED BY <1>1, <2>8 DEF Tipos
<1>5. CASE RecibeFitness(h)
  <2>1. PICK r \in Respuestas \cup {Ruido} : fitness' = [fitness EXCEPT ![electo[h]] = {r}]
    BY <1>5, LeeRespuesta DEF RecibeFitness
  <2>2. fitness' \in [Posiciones -> SUBSET (Respuestas \cup {Ruido})]
    BY <1>2, <2>1 DEF TipoServidor
  <2>3. subida' \in [Hilos -> Seq(Respuestas)]
    BY <1>5, LeeRespuesta DEF RecibeFitness
  <2>4. sv' \in [Hilos -> {"conecta", "bucle", "aguarda", "duerme"}]
        /\ UNCHANGED <<vivo, leido, electo, disponibles, generacion, bajada, avisada>>
    BY <1>2, <1>5 DEF RecibeFitness, TipoServidor
  <2>5. TipoServidor' /\ TipoRed'
    BY <1>2, <2>2, <2>3, <2>4 DEF TipoServidor, TipoRed, Posiciones, Respuestas, Valores, Organismos
  <2> QED BY <1>1, <2>5 DEF Tipos
<1>6. CASE Duerme(h)
  <2>1. sv' \in [Hilos -> {"conecta", "bucle", "aguarda", "duerme"}]
        /\ UNCHANGED <<vivo, leido, electo, disponibles, generacion, fitness, bajada, subida, avisada>>
    BY <1>2, <1>6 DEF Duerme, TipoServidor, red
  <2>2. TipoServidor' /\ TipoRed'
    BY <1>2, <2>1 DEF TipoServidor, TipoRed
  <2> QED BY <1>1, <2>2 DEF Tipos
<1> QED BY <1>3, <1>4, <1>5, <1>6 DEF HiloServidor

LEMMA TiposEpoca ==
    ASSUME Tipos, Epoca
    PROVE  Tipos'
<1> USE ClienteSupuestos
<1>1. TipoServidor /\ TipoRed /\ TipoLugar /\ TipoCuerpo
  BY DEF Tipos
<1>2. UNCHANGED <<vivo, leido, electo, bajada, subida, avisada, cl, conf, archivo,
                  OkConnections, flag, valor, medida, robot>>
  BY DEF Epoca, red, cliente
<1>3. generacion' \in 1 .. MAX_GENERACION /\ disponibles' \in 0 .. POPULATION_MAX
  BY <1>1 DEF Epoca, TipoServidor
<1>4. fitness' \in [Posiciones -> SUBSET (Respuestas \cup {Ruido})]
  BY DEF Epoca, Posiciones
<1>5. sv' \in [Hilos -> {"conecta", "bucle", "aguarda", "duerme"}]
  BY DEF Epoca
<1>6. TipoServidor'
  BY <1>1, <1>2, <1>3, <1>4, <1>5 DEF TipoServidor
<1>7. TipoRed' /\ TipoLugar' /\ TipoCuerpo'
  BY <1>1, <1>2 DEF TipoRed, TipoLugar, TipoCuerpo
<1> QED BY <1>2, <1>6, <1>7 DEF Tipos

LEMMA TiposCliente ==
    ASSUME Tipos, NEW h \in Hilos, ProcesoCliente(h)
    PROVE  Tipos'
<1> USE ClienteSupuestos
<1>1. TipoServidor /\ TipoRed /\ TipoLugar /\ TipoCuerpo
  BY DEF Tipos
<1>2. servidor' = servidor
  BY DEF ProcesoCliente, LeeConfiguracion, Inicia, CompruebaConexion, LeeOrganismo,
         Crea, Mide, Responde
<1>3. TipoServidor'
  BY <1>1, <1>2 DEF TipoServidor, servidor
<1>4. CASE LeeConfiguracion(h)
  <2>1. PICK k \in 0 .. Len(bajada[h]) :
            Lee(h, k) /\ conf' = [conf EXCEPT ![h] = SubSeq(bajada[h], 1, k)]
    BY <1>4 DEF LeeConfiguracion
  <2>2. TipoRed'
    BY <1>1, <1>4, <2>1, LeeTipo DEF LeeConfiguracion, TipoRed
  <2>3. TipoLugar'
    BY <1>1, <1>4, <2>1, LeeTipo DEF LeeConfiguracion, TipoLugar
  <2>4. TipoCuerpo' /\ \A j \in Hilos : cl'[j] = "simula" => cl[j] = "simula" /\ archivo'[j] = archivo[j]
    BY <1>1, <1>4 DEF LeeConfiguracion, TipoCuerpo, TipoLugar
  <2> QED BY <1>3, <2>2, <2>3, <2>4 DEF Tipos
<1>5. CASE Inicia(h)
  <2>1. PICK conectado \in BOOLEAN :
            /\ \E r \in TrasEsperar(h, [robot[h] EXCEPT !.conectado = conectado,
                                      !.pedidas = IF conectado THEN {0} ELSE {}]) :
                  robot' = [robot EXCEPT ![h] = r]
            /\ cl' = [cl EXCEPT ![h] = IF ConfiguracionRota(h) THEN "caido"
                                      ELSE IF conectado THEN "comprueba"
                                      ELSE "fin"]
    BY <1>5 DEF Inicia
  <2>2. robot' \in [Hilos -> TipoRobot]
    <3> DEFINE p == IF conectado THEN {0} ELSE {}
               r == [robot[h] EXCEPT !.conectado = conectado, !.pedidas = p]
    <3>1. p \in SUBSET Edades
      BY DEF Edades, VIEJA
    <3>2. PICK t \in TrasEsperar(h, r) : robot' = [robot EXCEPT ![h] = t]
      BY <2>1
    <3> HIDE DEF p
    <3>3. robot[h] \in TipoRobot
      BY <1>1 DEF TipoCuerpo
    <3>4. r \in TipoRobot
      BY <3>1, <3>3 DEF TipoRobot
    <3> HIDE DEF r
    <3> QED BY <1>1, <3>2, <3>4, EsperaBien DEF TipoCuerpo
  <2>3. UNCHANGED <<bajada, subida, avisada, conf, archivo, OkConnections, flag, valor, medida>>
    BY <1>5 DEF Inicia, red
  <2>4. TipoRed' /\ TipoCuerpo'
    BY <1>1, <2>2, <2>3 DEF TipoRed, TipoCuerpo
  <2>5. TipoLugar' /\ \A j \in Hilos : cl'[j] = "simula" => cl[j] = "simula"
    BY <1>1, <2>1, <2>3 DEF TipoLugar
  <2> QED BY <1>3, <2>3, <2>4, <2>5 DEF Tipos
<1>6. CASE CompruebaConexion(h)
  <2>1. UNCHANGED <<bajada, subida, avisada, conf, archivo, OkConnections, flag, valor, medida, robot>>
    BY <1>6 DEF CompruebaConexion, red
  <2>2. TipoLugar' /\ \A j \in Hilos : cl'[j] = "simula" => cl[j] = "simula"
    BY <1>1, <1>6, <2>1 DEF CompruebaConexion, TipoLugar
  <2> QED BY <1>1, <1>3, <2>1, <2>2 DEF Tipos, TipoRed, TipoCuerpo
<1>7. CASE LeeOrganismo(h)
  <2>1. PICK k \in 0 .. Len(bajada[h]) :
            Lee(h, k) /\ archivo' = [archivo EXCEPT ![h] = SubSeq(bajada[h], 1, k)]
    BY <1>7 DEF LeeOrganismo
  <2>2. TipoRed'
    BY <1>1, <1>7, <2>1, LeeTipo DEF LeeOrganismo, TipoRed
  <2>3. TipoLugar'
    BY <1>1, <1>7, <2>1, LeeTipo DEF LeeOrganismo, TipoLugar
  <2>4. \A j \in Hilos : cl'[j] = "simula" => cl[j] = "simula" /\ archivo'[j] = archivo[j]
    BY <1>1, <1>7, <2>1 DEF LeeOrganismo, TipoLugar
  <2>5. TipoCuerpo'
    BY <1>1, <1>7 DEF LeeOrganismo, TipoCuerpo
  <2> QED BY <1>3, <2>2, <2>3, <2>4, <2>5 DEF Tipos
<1>8. CASE Crea(h)
  <2>1. UNCHANGED <<bajada, subida, avisada, conf, archivo, flag>>
    BY <1>8 DEF Crea, red
  <2>2. OkConnections' \in [Hilos -> BOOLEAN]
    BY <1>1, <1>8 DEF Crea, TipoLugar
  <2>3. TipoLugar'
    BY <1>1, <1>8, <2>1, <2>2 DEF Crea, TipoLugar
  <2>4. medida' \in [Hilos -> TipoMedida] /\ valor' \in [Hilos -> Valores]
    <3>1. SinMedida \in TipoMedida
      BY DEF SinMedida, TipoMedida
    <3>2. FALLIDO \in Valores
      BY DEF Valores
    <3> QED BY <1>1, <1>8, <3>1, <3>2 DEF Crea, TipoCuerpo
  <2>5. robot' \in [Hilos -> TipoRobot]
    <3>1. CASE robot' = robot
      BY <1>1, <3>1 DEF TipoCuerpo
    <3>2. ASSUME NEW t \in TrasEsperar(h, Envejece(robot[h])), robot' = [robot EXCEPT ![h] = t]
          PROVE  robot' \in [Hilos -> TipoRobot]
      <4>1. Envejece(robot[h]) \in TipoRobot
        BY <1>1, EnvejeceBien DEF TipoCuerpo
      <4>2. t \in TipoRobot
        BY <4>1, EsperaBien
      <4> QED BY <1>1, <3>2, <4>2 DEF TipoCuerpo
    <3> QED BY <1>8, <3>1, <3>2 DEF Crea
  <2>6. TipoRed' /\ TipoCuerpo'
    BY <1>1, <2>1, <2>4, <2>5 DEF TipoRed, TipoCuerpo
  <2>7. \A j \in Hilos : cl'[j] = "simula" => cl[j] = "simula" \/ (j = h /\ Legible(h))
    BY <1>1, <1>8 DEF Crea, TipoLugar
  <2>8. Legible(h) => archivo[h] # <<>> /\ archivo[h][1].de \in Organismos
    BY <1>1 DEF Legible, Empieza, TipoLugar
  <2> QED BY <1>3, <2>1, <2>3, <2>6, <2>7, <2>8 DEF Tipos
<1>9. CASE Mide(h)
  <2>1. UNCHANGED <<bajada, subida, avisada, cl, conf, archivo, OkConnections, valor>>
    BY <1>9 DEF Mide, red
  <2>2. medida[h].cuantas + 1 \in 0 .. MAX_MEDIDAS
    BY <1>1, <1>9 DEF Mide, TipoCuerpo, TipoMedida
  <2>3. PICK choca \in BOOLEAN : flag' = [flag EXCEPT ![h] = @ /\ ~choca]
    BY <1>9 DEF Mide
  <2>4. flag' \in [Hilos -> BOOLEAN]
    <3> DEFINE f == flag[h] /\ ~choca
    <3>1. f \in BOOLEAN /\ flag' = [flag EXCEPT ![h] = f]
      BY <2>3
    <3> HIDE DEF f
    <3> QED BY <1>1, <3>1 DEF TipoCuerpo
  <2>6. medida' \in [Hilos -> TipoMedida]
    <3> DEFINE i == IF medida[h].cuantas = 0
                    THEN IF robot[h].buzon = NADA THEN BASURA ELSE robot[h].buzon
                    ELSE medida[h].inicial
    <3>1. medida' = [medida EXCEPT ![h] = [cuantas |-> medida[h].cuantas + 1, inicial |-> i]]
      BY <1>9 DEF Mide
    <3>2. i \in Edades \cup {NADA, BASURA}
      BY <1>1 DEF TipoCuerpo, TipoMedida, TipoRobot
    <3> HIDE DEF i
    <3>3. [cuantas |-> medida[h].cuantas + 1, inicial |-> i] \in TipoMedida
      BY <2>2, <3>2 DEF TipoMedida
    <3> QED BY <1>1, <3>1, <3>3 DEF TipoCuerpo
  <2>7. robot' \in [Hilos -> TipoRobot]
    <3> DEFINE p == IF robot[h].conectado THEN robot[h].pedidas \cup {0} ELSE robot[h].pedidas
               r == [robot[h] EXCEPT !.pedidas = p]
    <3>1. p \in SUBSET Edades
      BY <1>1 DEF TipoCuerpo, TipoRobot, Edades, VIEJA
    <3>2. robot' = [robot EXCEPT ![h] = r]
      BY <1>9 DEF Mide
    <3> HIDE DEF p
    <3>3. r \in TipoRobot
      BY <1>1, <3>1 DEF TipoCuerpo, TipoRobot
    <3> HIDE DEF r
    <3> QED BY <1>1, <3>2, <3>3 DEF TipoCuerpo
  <2>8. TipoRed' /\ TipoLugar'
    BY <1>1, <2>1 DEF TipoRed, TipoLugar
  <2>9. TipoCuerpo'
    BY <1>1, <2>1, <2>4, <2>6, <2>7 DEF TipoCuerpo
  <2> QED BY <1>3, <2>1, <2>8, <2>9 DEF Tipos
<1>10. CASE Responde(h)
  <2>1. UNCHANGED <<bajada, avisada, conf, archivo, OkConnections, flag, medida>>
    BY <1>10 DEF Responde
  <2>2. PICK v \in Valores : valor' = [valor EXCEPT ![h] = v]
    BY <1>10, CalculoTipo DEF Responde
  <2>3. valor' \in [Hilos -> Valores] /\ valor'[h] = v
    BY <1>1, <2>2 DEF TipoCuerpo
  <2>4. subida' \in [Hilos -> Seq(Respuestas)]
    <3>1. archivo[h][1].de \in Organismos
      BY <1>10 DEF Responde, Tipos
    <3>2. [de |-> archivo[h][1].de, valor |-> v] \in Respuestas
      BY <3>1 DEF Respuestas
    <3>3. PICK a \in Respuestas : subida' = [subida EXCEPT ![h] = Append(@, a)]
      BY <1>10, <2>3, <3>2 DEF Responde, Respuesta
    <3>4. Append(subida[h], a) \in Seq(Respuestas)
      BY <1>1 DEF TipoRed
    <3> QED BY <1>1, <3>3, <3>4 DEF TipoRed
  <2>5. robot' \in [Hilos -> TipoRobot]
    <3> DEFINE r == [robot[h] EXCEPT !.aldia = FALSE]
    <3>1. PICK t \in TrasEsperar(h, r) : robot' = [robot EXCEPT ![h] = t]
      BY <1>10 DEF Responde
    <3>2. r \in TipoRobot
      BY <1>1 DEF TipoCuerpo, TipoRobot
    <3> HIDE DEF r
    <3> QED BY <1>1, <3>1, <3>2, EsperaBien DEF TipoCuerpo
  <2>6. TipoLugar' /\ \A j \in Hilos : cl'[j] = "simula" => cl[j] = "simula"
    BY <1>1, <1>10, <2>1 DEF Responde, TipoLugar
  <2>7. TipoRed' /\ TipoCuerpo'
    BY <1>1, <2>1, <2>3, <2>4, <2>5 DEF TipoRed, TipoCuerpo
  <2> QED BY <1>3, <2>1, <2>6, <2>7 DEF Tipos
<1> QED BY <1>4, <1>5, <1>6, <1>7, <1>8, <1>9, <1>10 DEF ProcesoCliente

LEMMA TiposSimulador ==
    ASSUME Tipos, NEW h \in Hilos, LlegaPosicion(h) \/ PierdeSimulador(h)
    PROVE  Tipos'
<1>1. UNCHANGED <<vivo, leido, sv, electo, disponibles, generacion, fitness, bajada,
                  subida, avisada, cl, conf, archivo, OkConnections, flag, valor, medida>>
  BY DEF LlegaPosicion, PierdeSimulador, servidor, red
<1>2. robot' \in [Hilos -> TipoRobot]
  <2>1. robot[h] \in TipoRobot
    BY DEF Tipos, TipoCuerpo
  <2>2. ASSUME NEW j \in robot[h].pedidas, NEW k \in 0 .. j,
               robot' = [robot EXCEPT ![h] = [@ EXCEPT !.pedidas = {i \in robot[h].pedidas : i < j}, !.buzon = k]]
        PROVE  robot' \in [Hilos -> TipoRobot]
    <3> DEFINE p == {i \in robot[h].pedidas : i < j}
               r == [robot[h] EXCEPT !.pedidas = p, !.buzon = k]
    <3>1. p \in SUBSET Edades /\ k \in Edades
      BY <2>1 DEF TipoRobot, Edades, VIEJA
    <3>2. robot' = [robot EXCEPT ![h] = r]
      BY <2>2
    <3> HIDE DEF p
    <3>3. r \in TipoRobot
      BY <2>1, <3>1 DEF TipoRobot
    <3> HIDE DEF r
    <3> QED BY <3>2, <3>3 DEF Tipos, TipoCuerpo
  <2>3. [robot[h] EXCEPT !.conectado = FALSE, !.pedidas = {}, !.buzon = NADA] \in TipoRobot
    BY <2>1 DEF TipoRobot
  <2>4. CASE LlegaPosicion(h)
    BY <2>2, <2>4 DEF LlegaPosicion
  <2>5. CASE PierdeSimulador(h)
    BY <2>3, <2>5 DEF PierdeSimulador, Tipos, TipoCuerpo
  <2> QED BY <2>4, <2>5
<1>3. TipoServidor' /\ TipoRed' /\ TipoLugar' /\ TipoCuerpo'
  BY <1>1, <1>2 DEF Tipos, TipoServidor, TipoRed, TipoLugar, TipoCuerpo
<1> QED BY <1>1, <1>3 DEF Tipos

LEMMA TiposPaso ==
    ASSUME Tipos, [Next]_vars
    PROVE  Tipos'
<1>1. CASE Next
  BY <1>1, TiposEpoca, TiposServidor, TiposCliente, TiposSimulador DEF Next
<1>2. CASE UNCHANGED vars
  BY <1>2 DEF vars, servidor, red, cliente, Tipos, TipoServidor, TipoRed, TipoLugar, TipoCuerpo
<1> QED BY <1>1, <1>2

LEMMA TiposSiempre == Spec => []Tipos
<1>1. Tipos /\ [Next]_vars => Tipos'
  BY TiposPaso
<1> QED BY TiposInit, <1>1, PTL DEF Spec

\* Every variable has its type, whatever the messages are cut into and whichever
\* client falls (Cliente's TypeOK).
THEOREM TiposCorrectos == Spec => []TypeOK
  BY TiposSiempre, TiposTypeOK, PTL

-----------------------------------------------------------------------------
(* The streams                                                             *)

\* The last piece is the end of an organism, and only its head comes before.
AlFinal(s) ==
    \A i \in 1 .. Len(s) : s[i].de # CONFIG =>
        i = IF s[i].parte = "cabeza" THEN Len(s) - 1 ELSE Len(s)

\* The pieces of the configuration come first.
AlPrincipio(s) ==
    \A i \in 1 .. Len(s) : s[i].de = CONFIG =>
        \/ s[i].parte # "cola" /\ i = 1
        \/ s[i].parte = "cola" /\ i = 2 /\ s[1].de = CONFIG /\ s[1].parte = "cabeza"

SinConfig(s) == \A i \in 1 .. Len(s) : s[i].de # CONFIG

\* What is on its way to a client that still reads: whole messages in order, of
\* the organism its thread waits for and of no other.
Bajando(h) ==
    ~Cerrado(h) =>
        /\ AlFinal(bajada[h])
        /\ cl[h] = "configura" => AlPrincipio(bajada[h])
        /\ \A i \in 1 .. Len(bajada[h]) : bajada[h][i].de # CONFIG =>
              sv[h] = "aguarda" /\ subida[h] = <<>> /\ bajada[h][i].de = Pendiente(h)

\* A client that survives its configuration has read all of it.
Configurado(h) ==
    /\ cl[h] = "configura" => conf[h] = <<>>
    /\ vivo /\ sv[h] = "conecta" => cl[h] = "configura" /\ bajada[h] = <<>>
    /\ cl[h] = "inicia" /\ ~ConfiguracionRota(h) => SinConfig(bajada[h])
    /\ ~Cerrado(h) /\ cl[h] \notin {"configura", "inicia"} => SinConfig(bajada[h])

\* The organism a client works on is the one its thread waits for, and nothing
\* else is on its way in either direction.
EnMano(h) ==
    (cl[h] = "crea" /\ Legible(h)) \/ cl[h] = "simula" =>
        /\ archivo[h] # <<>> /\ archivo[h][1].de = Pendiente(h)
        /\ sv[h] = "aguarda" /\ bajada[h] = <<>> /\ subida[h] = <<>>

RespuestaSola(h) ==
    subida[h] # <<>> =>
        /\ Len(subida[h]) = 1 /\ sv[h] = "aguarda"
        /\ subida[h][1].de = Pendiente(h) /\ Propia(subida[h][1])

\* Where the organism a thread waits for is.
Donde(h) ==
    sv[h] = "aguarda" /\ ~Cerrado(h) /\ cl[h] \notin {"crea", "simula"} =>
        \/ \E i \in 1 .. Len(bajada[h]) : bajada[h][i].de = Pendiente(h)
        \/ subida[h] # <<>>
        \/ ~OkConnections[h] /\ Empieza(archivo[h], Pendiente(h))
        \/ \E i \in 1 .. Len(conf[h]) : conf[h][i].de = Pendiente(h)

\* The position asked for last is on its way or in the inbox, with nothing older
\* behind it; once a wait was answered, what is in the inbox is at most one
\* simulation old.  No fitness is computed until the simulation ends.
Posicion(h) ==
    /\ cl[h] \in {"configura", "inicia"} => ~robot[h].conectado /\ ~robot[h].aldia
    /\ ~robot[h].conectado => robot[h].pedidas = {} /\ robot[h].buzon = NADA
    /\ robot[h].conectado =>
          IF cl[h] = "simula" /\ medida[h].cuantas = 0
          THEN robot[h].aldia => robot[h].buzon \in {0, 1}
          ELSE /\ \/ 0 \in robot[h].pedidas
                  \/ robot[h].pedidas = {} /\ robot[h].buzon = 0
               /\ cl[h] # "simula" /\ robot[h].aldia => robot[h].buzon = 0
    /\ cl[h] = "simula" => valor[h] = FALLIDO
    /\ cl[h] = "simula" /\ medida[h].cuantas > 0 /\ robot[h].aldia =>
          \/ medida[h].inicial \in {0, 1}
          \/ medida[h].inicial = BASURA /\ ~robot[h].conectado

Conversa(h) ==
    Bajando(h) /\ Configurado(h) /\ EnMano(h) /\ RespuestaSola(h) /\ Donde(h)

Local(h) == Conversa(h) /\ Posicion(h)

\* What is stored is the fitness of the organism it is stored for.
Guardado ==
    \A o \in Posiciones : \A r \in fitness[o] :
        r = Ruido \/ (r.de = <<generacion, o>> /\ Propia(r))

Inv == Guardado /\ \A h \in Hilos : Local(h)

LEMMA NoEsConfig == \A m \in Organismos : m # CONFIG
  BY ClienteSupuestos DEF Organismos, CONFIG

LEMMA Cadenas ==
    ASSUME Tipos, NEW h \in Hilos
    PROVE  /\ bajada[h] \in Seq(Trozos) /\ conf[h] \in Seq(Trozos)
           /\ archivo[h] \in Seq(Trozos) /\ subida[h] \in Seq(Respuestas)
           /\ Len(bajada[h]) \in Nat /\ Len(conf[h]) \in Nat
           /\ Len(archivo[h]) \in Nat /\ Len(subida[h]) \in Nat
           /\ bajada[h] = <<>> <=> Len(bajada[h]) = 0
           /\ conf[h] = <<>> <=> Len(conf[h]) = 0
           /\ archivo[h] = <<>> <=> Len(archivo[h]) = 0
           /\ subida[h] = <<>> <=> Len(subida[h]) = 0
<1>1. /\ bajada[h] \in Seq(Trozos) /\ conf[h] \in Seq(Trozos)
      /\ archivo[h] \in Seq(Trozos) /\ subida[h] \in Seq(Respuestas)
  BY DEF Tipos, TipoRed, TipoLugar
<1>2. \A S : \A s \in Seq(S) : Len(s) \in Nat /\ (s = <<>> <=> Len(s) = 0)
  BY LenProperties, EmptySeq
<1> QED BY <1>1, <1>2

\* What a read leaves keeps its end where it was.
LEMMA Sufijo ==
    ASSUME NEW s \in Seq(Trozos), NEW k \in 0 .. Len(s)
    PROVE  LET t == SubSeq(s, k + 1, Len(s))
           IN  /\ \A i \in 1 .. Len(t) : i + k \in 1 .. Len(s) /\ t[i] = s[i + k]
               /\ AlFinal(s) => AlFinal(t)
               /\ SinConfig(s) => SinConfig(t)
<1> DEFINE t == SubSeq(s, k + 1, Len(s))
<1>1. Len(s) \in Nat /\ Len(t) = Len(s) - k /\ \A i \in 1 .. Len(s) - k : t[i] = s[i + k]
  BY Corte, LenProperties
<1> HIDE DEF t
<1>2. \A i \in 1 .. Len(t) : i + k \in 1 .. Len(s) /\ t[i] = s[i + k]
  BY <1>1
<1>3. AlFinal(s) => AlFinal(t)
  BY <1>1, <1>2 DEF AlFinal
<1>4. SinConfig(s) => SinConfig(t)
  BY <1>2 DEF SinConfig
<1> QED BY <1>2, <1>3, <1>4 DEF t

\* An organism written after pieces of the configuration.
LEMMA MensajeAlFinal ==
    ASSUME NEW s \in Seq(Trozos), \A i \in 1 .. Len(s) : s[i].de = CONFIG,
           NEW m \in Organismos,
           NEW trozos, trozos = Enteros(m) \/ trozos = EnDos(m)
    PROVE  LET t == s \o trozos
           IN  /\ \A i \in 1 .. Len(t) :
                     (i \in 1 .. Len(s) /\ t[i] = s[i] /\ t[i].de = CONFIG) \/ t[i].de = m
               /\ \E i \in 1 .. Len(t) : t[i].de = m
               /\ AlFinal(t)
               /\ AlPrincipio(s) => AlPrincipio(t)
<1> DEFINE t == s \o trozos
           n == Len(s)
           l == Len(trozos)
<1>1. /\ Len(t) = n + l
      /\ \A i \in 1 .. n : t[i] = s[i]
      /\ \A i \in 1 .. l : t[n + i] = trozos[i]
      /\ \/ l = 1 /\ trozos[1] = [de |-> m, parte |-> "entero"]
         \/ l = 2 /\ trozos[1] = [de |-> m, parte |-> "cabeza"]
                  /\ trozos[2] = [de |-> m, parte |-> "cola"]
  BY EscribeBien
<1>2. n \in Nat /\ m # CONFIG
  BY LenProperties, NoEsConfig
<1>3. \A i \in 1 .. n : s[i].de = CONFIG
  OBVIOUS
<1>4. AlPrincipio(s) => \A i \in 1 .. n : \/ s[i].parte # "cola" /\ i = 1
                                          \/ s[i].parte = "cola" /\ i = 2 /\ s[1].de = CONFIG /\ s[1].parte = "cabeza"
  BY <1>3 DEF AlPrincipio
<1> HIDE DEF t, n, l
<1>5. ASSUME NEW i \in 1 .. n + l, i \notin 1 .. n
      PROVE  /\ t[i].de = m /\ (t[i].parte = "cabeza" => i = n + l - 1)
             /\ t[i].parte # "cabeza" => i = n + l
  <2>1. CASE l = 1 /\ trozos[1] = [de |-> m, parte |-> "entero"]
    <3>1. i = n + 1
      BY <1>2, <1>5, <2>1
    <3>2. t[n + 1] = trozos[1]
      BY <1>1, <2>1
    <3> QED BY <1>2, <2>1, <3>1, <3>2
  <2>2. CASE /\ l = 2 /\ trozos[1] = [de |-> m, parte |-> "cabeza"]
             /\ trozos[2] = [de |-> m, parte |-> "cola"]
    <3>1. i = n + 1 \/ i = n + 2
      BY <1>2, <1>5, <2>2
    <3>2. t[n + 1] = trozos[1] /\ t[n + 2] = trozos[2]
      BY <1>1, <2>2
    <3> QED BY <1>2, <2>2, <3>1, <3>2
  <2> QED BY <1>1, <2>1, <2>2
<1>6. l \in {1, 2}
  BY <1>1
<1>7. \A i \in 1 .. Len(t) :
         (i \in 1 .. n /\ t[i] = s[i] /\ t[i].de = CONFIG) \/ t[i].de = m
  BY <1>1, <1>3, <1>5
<1>8. AlFinal(t)
  BY <1>1, <1>2, <1>3, <1>5 DEF AlFinal
<1>9. \E i \in 1 .. Len(t) : t[i].de = m
  <2>1. n + 1 \in 1 .. n + l /\ n + 1 \notin 1 .. n
    BY <1>2, <1>6
  <2> QED BY <1>1, <1>5, <2>1
<1>10. AlPrincipio(s) => AlPrincipio(t)
  <2> SUFFICES ASSUME AlPrincipio(s), NEW i \in 1 .. Len(t), t[i].de = CONFIG
               PROVE  \/ t[i].parte # "cola" /\ i = 1
                      \/ t[i].parte = "cola" /\ i = 2 /\ t[1].de = CONFIG /\ t[1].parte = "cabeza"
    BY DEF AlPrincipio
  <2>1. i \in 1 .. n /\ t[i] = s[i]
    BY <1>2, <1>7
  <2>2. 1 \in 1 .. n
    BY <1>2, <2>1
  <2>3. t[1] = s[1]
    BY <1>1, <2>2
  <2> QED BY <1>4, <2>1, <2>3
<1> QED BY <1>7, <1>8, <1>9, <1>10 DEF t, n

\* The other clients: a step that is not theirs leaves what is theirs alone.
LEMMA Ajeno ==
    ASSUME NEW h, Local(h), vivo' => vivo, generacion' = generacion,
           sv'[h] = sv[h], electo'[h] = electo[h], bajada'[h] = bajada[h],
           subida'[h] = subida[h], cl'[h] = cl[h], conf'[h] = conf[h],
           archivo'[h] = archivo[h], OkConnections'[h] = OkConnections[h],
           valor'[h] = valor[h], medida'[h] = medida[h],
           robot'[h] = robot[h]
    PROVE  Local(h)'
<1>1. Bajando(h)'
  BY DEF Local, Conversa, Bajando, Cerrado, AlFinal, AlPrincipio, Pendiente
<1>2. Configurado(h)'
  BY DEF Local, Conversa, Configurado, ConfiguracionRota, TieneCapas, Empieza, Cerrado, SinConfig
<1>3. EnMano(h)'
  BY DEF Local, Conversa, EnMano, Legible, Empieza, Pendiente
<1>4. RespuestaSola(h)'
  BY DEF Local, Conversa, RespuestaSola, Pendiente, Propia
<1>5. Donde(h)'
  BY DEF Local, Conversa, Donde, Cerrado, Empieza, Pendiente
<1>6. Posicion(h)'
  BY DEF Local, Posicion
<1> QED BY <1>1, <1>2, <1>3, <1>4, <1>5, <1>6 DEF Local, Conversa

\* What the position depends on is the client's.
LEMMA PosicionQuieta ==
    ASSUME NEW h, Posicion(h), cl'[h] = cl[h],
           valor'[h] = valor[h], medida'[h] = medida[h], robot'[h] = robot[h]
    PROVE  Posicion(h)'
  BY DEF Posicion

LEMMA InvInit == Init => Inv
<1> SUFFICES ASSUME Init PROVE Inv
  OBVIOUS
<1>1. Guardado
  BY DEF Init, Guardado, Posiciones
<1>2. ASSUME NEW h \in Hilos PROVE Local(h)
  <2>1. /\ bajada[h] = <<>> /\ subida[h] = <<>> /\ conf[h] = <<>> /\ cl[h] = "configura"
        /\ sv[h] = "conecta"
    BY DEF Init
  <2>2. Len(bajada[h]) = 0 /\ Len(subida[h]) = 0
    BY <2>1
  <2>3. Conversa(h)
    BY <2>1, <2>2 DEF Conversa, Bajando, Configurado, EnMano, RespuestaSola, Donde,
       AlFinal, AlPrincipio
  <2>4. Posicion(h)
    BY <2>1 DEF Init, Posicion, SinRobot
  <2> QED BY <2>3, <2>4 DEF Local
<1> QED BY <1>1, <1>2 DEF Inv

-----------------------------------------------------------------------------
(* The server's steps                                                      *)

LEMMA InvEnviaConfiguracion ==
    ASSUME Tipos, NEW h \in Hilos, Local(h), EnviaConfiguracion(h)
    PROVE  Local(h)'
<1>1. /\ vivo /\ sv[h] = "conecta" /\ sv'[h] = "bucle"
      /\ cl'[h] = cl[h] /\ subida'[h] = subida[h] /\ valor'[h] = valor[h]
      /\ medida'[h] = medida[h] /\ robot'[h] = robot[h]
  BY DEF Tipos, TipoServidor, EnviaConfiguracion, cliente
<1>2. bajada[h] = <<>> /\ cl[h] = "configura" /\ conf[h] = <<>> /\ conf' = conf
  BY <1>1 DEF Local, Conversa, Configurado, EnviaConfiguracion, cliente
<1>3. subida[h] = <<>>
  BY <1>1 DEF Local, Conversa, RespuestaSola
<1>4. \/ bajada'[h] = <<>>
      \/ Len(bajada'[h]) = 1 /\ bajada'[h][1] = [de |-> CONFIG, parte |-> "entero"]
      \/ Len(bajada'[h]) = 2 /\ bajada'[h][1] = [de |-> CONFIG, parte |-> "cabeza"]
                             /\ bajada'[h][2] = [de |-> CONFIG, parte |-> "cola"]
  <2>1. CASE bajada' = bajada
    BY <1>2, <2>1
  <2>2. ASSUME NEW trozos \in {Enteros(CONFIG), EnDos(CONFIG)},
               bajada' = [bajada EXCEPT ![h] = @ \o trozos]
        PROVE  \/ Len(bajada'[h]) = 1 /\ bajada'[h][1] = [de |-> CONFIG, parte |-> "entero"]
               \/ Len(bajada'[h]) = 2 /\ bajada'[h][1] = [de |-> CONFIG, parte |-> "cabeza"]
                                      /\ bajada'[h][2] = [de |-> CONFIG, parte |-> "cola"]
    <3>1. bajada'[h] = <<>> \o trozos
      BY <1>2, <2>2 DEF Tipos, TipoRed
    <3>2. Len(<<>>) = 0 /\ <<>> \in Seq(Trozos)
      OBVIOUS
    <3>3. trozos \in Seq(Trozos)
      BY <3>2, EscribeBien
    <3>4. bajada'[h] = trozos
      BY <3>1, <3>3, ConcatEmptySeq
    <3> QED BY <3>2, <3>4, EscribeBien
  <2> QED BY <2>1, <2>2 DEF EnviaConfiguracion, Escribe
<1>5. \A i \in 1 .. Len(bajada'[h]) : bajada'[h][i].de = CONFIG /\
         \/ bajada'[h][i].parte # "cola" /\ i = 1
         \/ bajada'[h][i].parte = "cola" /\ i = 2 /\ bajada'[h][1].parte = "cabeza"
  <2>1. CASE bajada'[h] = <<>>
    <3>1. Len(bajada'[h]) = 0
      BY <2>1
    <3> QED BY <3>1
  <2>2. CASE Len(bajada'[h]) = 1 /\ bajada'[h][1] = [de |-> CONFIG, parte |-> "entero"]
    BY <2>2
  <2>3. CASE /\ Len(bajada'[h]) = 2 /\ bajada'[h][1] = [de |-> CONFIG, parte |-> "cabeza"]
             /\ bajada'[h][2] = [de |-> CONFIG, parte |-> "cola"]
    <3>1. \A i \in 1 .. Len(bajada'[h]) : i = 1 \/ i = 2
      BY <2>3
    <3> QED BY <2>3, <3>1
  <2> QED BY <1>4, <2>1, <2>2, <2>3
<1>6. Bajando(h)'
  BY <1>5 DEF Bajando, AlFinal, AlPrincipio
<1>7. Configurado(h)'
  BY <1>1, <1>2 DEF Configurado, Cerrado
<1>8. EnMano(h)' /\ RespuestaSola(h)' /\ Donde(h)'
  BY <1>1, <1>2, <1>3 DEF EnMano, RespuestaSola, Donde
<1> QED BY <1>1, <1>6, <1>7, <1>8, PosicionQuieta DEF Local, Conversa

LEMMA InvSacaOrganismo ==
    ASSUME Tipos, NEW h \in Hilos, Local(h), SacaOrganismo(h)
    PROVE  Local(h)'
<1> USE ClienteSupuestos
<1> DEFINE m == <<generacion, disponibles - 1>>
<1>1. /\ sv[h] = "bucle" /\ sv'[h] = "aguarda" /\ electo'[h] = disponibles - 1
      /\ generacion' = generacion
      /\ cl'[h] = cl[h] /\ conf'[h] = conf[h] /\ archivo'[h] = archivo[h]
      /\ OkConnections'[h] = OkConnections[h] /\ subida'[h] = subida[h]
      /\ valor'[h] = valor[h] /\ medida'[h] = medida[h]
      /\ robot'[h] = robot[h]
  BY DEF Tipos, TipoServidor, SacaOrganismo, cliente
<1>2. m \in Organismos /\ m # CONFIG
  <2>1. disponibles \in 1 .. POPULATION_MAX /\ generacion \in 1 .. MAX_GENERACION
    BY DEF SacaOrganismo, Quedan, Tipos, TipoServidor
  <2> QED BY <2>1, NoEsConfig DEF Organismos
<1>3. Pendiente(h)' = m
  BY <1>1 DEF Pendiente
<1> HIDE DEF m
<1>4. subida[h] = <<>>
  BY <1>1 DEF Local, Conversa, RespuestaSola
<1>5. ~((cl[h] = "crea" /\ Legible(h)) \/ cl[h] = "simula")
  BY <1>1 DEF Local, Conversa, EnMano
<1>6. EnMano(h)'
  BY <1>1, <1>5 DEF EnMano, Legible
<1>7. RespuestaSola(h)'
  BY <1>1, <1>4 DEF RespuestaSola
<1>8. CASE Cerrado(h)
  BY <1>1, <1>6, <1>7, <1>8, PosicionQuieta
     DEF Local, Conversa, Bajando, Configurado, Donde, Cerrado
<1>9. CASE ~Cerrado(h)
  <2>1. PICK trozos \in {Enteros(m), EnDos(m)} :
            bajada' = [bajada EXCEPT ![h] = @ \o trozos]
    BY <1>9 DEF SacaOrganismo, Escribe, m
  <2>2. bajada[h] \in Seq(Trozos) /\ bajada'[h] = bajada[h] \o trozos
    BY <2>1 DEF Tipos, TipoRed
  <2> DEFINE s == bajada[h]
             t == bajada'[h]
  <2>4. \A i \in 1 .. Len(s) : s[i].de = CONFIG
    BY <1>1, <1>9 DEF Local, Conversa, Bajando
  <2>5. /\ \A i \in 1 .. Len(t) :
              (i \in 1 .. Len(s) /\ t[i] = s[i] /\ t[i].de = CONFIG) \/ t[i].de = m
        /\ \E i \in 1 .. Len(t) : t[i].de = m
        /\ AlFinal(t)
        /\ AlPrincipio(s) => AlPrincipio(t)
    <3> DEFINE u == s \o trozos
    <3>1. /\ \A i \in 1 .. Len(u) :
                (i \in 1 .. Len(s) /\ u[i] = s[i] /\ u[i].de = CONFIG) \/ u[i].de = m
          /\ \E i \in 1 .. Len(u) : u[i].de = m
          /\ AlFinal(u)
          /\ AlPrincipio(s) => AlPrincipio(u)
      BY <1>2, <2>2, <2>4, MensajeAlFinal
    <3>2. t = u
      BY <2>2
    <3> HIDE DEF s, t, u
    <3> QED BY <3>1, <3>2
  <2> HIDE DEF s, t
  <2>8. Bajando(h)'
    <3>1. cl[h] = "configura" => AlPrincipio(s)
      BY <1>9 DEF Local, Conversa, Bajando, s
    <3>2. \A i \in 1 .. Len(t) : t[i].de # CONFIG => t[i].de = m
      BY <2>5
    <3> QED BY <1>1, <1>3, <1>4, <2>5, <3>1, <3>2 DEF Bajando, t
  <2>9. s = <<>> => SinConfig(t)
    BY <1>2, <2>5 DEF SinConfig
  <2>10. SinConfig(s) => s = <<>>
    <3>1. s \in Seq(Trozos)
      BY <2>2 DEF s
    <3>2. Len(s) \in Nat /\ (Len(s) = 0 => s = <<>>)
      BY <3>1, EmptySeq, LenProperties
    <3> QED BY <2>4, <3>2 DEF SinConfig
  <2>11. Configurado(h)'
    <3>1. ConfiguracionRota(h)' <=> ConfiguracionRota(h)
      BY <1>1 DEF ConfiguracionRota, TieneCapas, Empieza
    <3> QED BY <1>1, <1>9, <2>9, <2>10, <3>1 DEF Local, Conversa, Configurado, Cerrado, s, t
  <2>12. Donde(h)'
    <3> QED BY <1>3, <2>5 DEF Donde, t
  <2> QED BY <1>1, <1>6, <1>7, <2>8, <2>11, <2>12, PosicionQuieta DEF Local, Conversa
<1> QED BY <1>8, <1>9

LEMMA InvRecibeFitness ==
    ASSUME Tipos, NEW h \in Hilos, Local(h), RecibeFitness(h)
    PROVE  Local(h)'
<1>1. /\ sv[h] = "aguarda" /\ sv'[h] = "bucle" /\ subida'[h] = <<>> /\ bajada'[h] = bajada[h]
      /\ cl'[h] = cl[h] /\ conf'[h] = conf[h] /\ archivo'[h] = archivo[h]
      /\ valor'[h] = valor[h] /\ medida'[h] = medida[h]
      /\ robot'[h] = robot[h]
  BY DEF Tipos, TipoServidor, TipoRed, RecibeFitness, cliente
<1>2. subida[h] # <<>> \/ Cerrado(h)
  BY DEF RecibeFitness
<1>3. Bajando(h)'
  BY <1>1, <1>2 DEF Local, Conversa, Bajando, Cerrado, AlFinal, AlPrincipio
<1>4. Configurado(h)'
  BY <1>1 DEF Local, Conversa, Configurado, ConfiguracionRota, TieneCapas, Empieza, Cerrado, SinConfig
<1>5. EnMano(h)'
  BY <1>1, <1>2 DEF Local, Conversa, EnMano, Cerrado, Legible, Empieza
<1>6. RespuestaSola(h)' /\ Donde(h)'
  BY <1>1 DEF RespuestaSola, Donde
<1> QED BY <1>1, <1>3, <1>4, <1>5, <1>6, PosicionQuieta DEF Local, Conversa

\* A thread that leaves its loop, or comes back to it, waits for no answer.
LEMMA InvDescansa ==
    ASSUME NEW h \in Hilos, Local(h), sv[h] \in {"bucle", "duerme"},
           sv'[h] \in {"bucle", "duerme"}, UNCHANGED <<red, cliente>>
    PROVE  Local(h)'
<1>1. /\ subida'[h] = subida[h] /\ bajada'[h] = bajada[h]
      /\ cl'[h] = cl[h] /\ conf'[h] = conf[h] /\ archivo'[h] = archivo[h]
      /\ valor'[h] = valor[h] /\ medida'[h] = medida[h]
      /\ robot'[h] = robot[h]
  BY DEF red, cliente
<1>2. Bajando(h)'
  BY <1>1 DEF Local, Conversa, Bajando, Cerrado, AlFinal, AlPrincipio
<1>3. Configurado(h)'
  BY <1>1 DEF Local, Conversa, Configurado, ConfiguracionRota, TieneCapas, Empieza, Cerrado, SinConfig
<1>4. EnMano(h)'
  BY <1>1 DEF Local, Conversa, EnMano, Legible, Empieza
<1>5. RespuestaSola(h)' /\ Donde(h)'
  BY <1>1 DEF Local, Conversa, RespuestaSola, Donde
<1> QED BY <1>1, <1>2, <1>3, <1>4, <1>5, PosicionQuieta DEF Local, Conversa

-----------------------------------------------------------------------------

(* The client's steps                                                      *)

LEMMA InvLeeConfiguracion ==
    ASSUME Tipos, NEW h \in Hilos, Local(h), LeeConfiguracion(h)
    PROVE  Local(h)'
<1> DEFINE s == bajada[h]
<1>1. PICK k \in 0 .. Len(s) : Lee(h, k) /\ conf' = [conf EXCEPT ![h] = SubSeq(s, 1, k)]
  BY DEF LeeConfiguracion
<1>2. /\ cl[h] = "configura" /\ cl'[h] = "inicia" /\ sv'[h] = sv[h] /\ electo'[h] = electo[h]
      /\ vivo' = vivo /\ generacion' = generacion /\ subida'[h] = subida[h]
      /\ archivo'[h] = archivo[h] /\ OkConnections'[h] = OkConnections[h]
      /\ valor'[h] = valor[h] /\ medida'[h] = medida[h]
      /\ robot'[h] = robot[h]
  BY DEF Tipos, TipoLugar, LeeConfiguracion, servidor
<1> DEFINE t == bajada'[h]
           c == conf'[h]
<1>3. t = SubSeq(s, k + 1, Len(s)) /\ c = SubSeq(s, 1, k) /\ s \in Seq(Trozos)
      /\ Len(s) \in Nat
  BY <1>1, LeeTipo, Cadenas DEF Tipos, TipoRed, TipoLugar
<1>4. (k = 0 /\ s = <<>> /\ ~vivo) \/ k >= 1
  BY <1>1 DEF Lee
<1>5. /\ AlFinal(s) /\ AlPrincipio(s) /\ conf[h] = <<>>
      /\ \A i \in 1 .. Len(s) : s[i].de # CONFIG =>
            sv[h] = "aguarda" /\ subida[h] = <<>> /\ s[i].de = Pendiente(h)
      /\ vivo /\ sv[h] = "conecta" => s = <<>>
  BY <1>2 DEF Local, Conversa, Bajando, Configurado, Cerrado
<1>6. Len(conf[h]) = 0
  BY <1>5
<1>7. /\ Len(c) = k /\ \A i \in 1 .. k : c[i] = s[i]
      /\ Len(t) = Len(s) - k /\ \A i \in 1 .. Len(s) - k : t[i] = s[i + k]
  <2> HIDE DEF s, t, c
  <2>1. /\ SubSeq(s, 1, k) \in Seq(Trozos) /\ Len(SubSeq(s, 1, k)) = k
        /\ \A i \in 1 .. k : SubSeq(s, 1, k)[i] = s[i]
        /\ SubSeq(s, k + 1, Len(s)) \in Seq(Trozos)
        /\ Len(SubSeq(s, k + 1, Len(s))) = Len(s) - k
        /\ \A i \in 1 .. Len(s) - k : SubSeq(s, k + 1, Len(s))[i] = s[i + k]
    BY <1>3, Corte
  <2> QED BY <1>3, <2>1
<1>8. AlFinal(t) /\ \A i \in 1 .. Len(t) : i + k \in 1 .. Len(s) /\ t[i] = s[i + k]
  BY <1>3, <1>5, Sufijo
<1> HIDE DEF s, t, c
<1>9. Bajando(h)'
  BY <1>2, <1>5, <1>8 DEF Bajando, Pendiente, t
<1>10. Len(c) = 0 => c = <<>>
  <2>1. c \in Seq(Trozos)
    BY <1>3, Corte
  <2> QED BY <2>1, EmptySeq
<1>11. Configurado(h)'
  <2>1. ~(vivo' /\ sv'[h] = "conecta")
    <3>1. s = <<>> => Len(s) = 0
      OBVIOUS
    <3> QED BY <1>2, <1>3, <1>4, <1>5, <3>1
  <2>2. ~ConfiguracionRota(h)' => SinConfig(t)
    <3> SUFFICES ASSUME c # <<>>, c[1].de # CONFIG \/ Empieza(c, CONFIG),
                        NEW i \in 1 .. Len(t), t[i].de = CONFIG
                 PROVE  FALSE
      BY DEF ConfiguracionRota, TieneCapas, Empieza, SinConfig, c
    <3>1. k >= 1 /\ i + k >= 2 /\ i + k \in 1 .. Len(s) /\ s[i + k].de = CONFIG
      <4>1. i + k \in 1 .. Len(s) /\ s[i + k].de = CONFIG
        BY <1>8
      <4>2. k # 0
        BY <1>7, <1>10
      <4> QED BY <4>1, <4>2, <1>3
    <3>2. /\ i + k = 2 /\ s[1].de = CONFIG /\ s[1].parte = "cabeza"
      BY <1>5, <3>1 DEF AlPrincipio
    <3>3. i = 1 /\ k = 1
      BY <1>3, <1>7, <3>1, <3>2
    <3>4. c[1] = s[1] /\ Len(c) = 1
      BY <1>7, <3>3
    <3> QED BY <3>2, <3>4 DEF Empieza
  <2> QED BY <1>2, <2>1, <2>2 DEF Configurado, Cerrado, t
<1>12. EnMano(h)' /\ RespuestaSola(h)'
  BY <1>2 DEF Local, Conversa, EnMano, RespuestaSola, Pendiente
<1>13. Donde(h)'
  <2> SUFFICES ASSUME sv[h] = "aguarda", subida[h] = <<>>,
                      ~(~OkConnections[h] /\ Empieza(archivo[h], Pendiente(h)))
               PROVE  \/ \E i \in 1 .. Len(t) : t[i].de = Pendiente(h)
                      \/ \E i \in 1 .. Len(c) : c[i].de = Pendiente(h)
    BY <1>2 DEF Donde, Pendiente, Empieza, t, c
  <2>1. PICK i \in 1 .. Len(s) : s[i].de = Pendiente(h)
    BY <1>2, <1>6 DEF Local, Conversa, Donde, Cerrado, s
  <2>2. CASE i <= k
    <3>1. i \in 1 .. k
      BY <1>3, <2>2
    <3> QED BY <1>7, <2>1, <3>1
  <2>3. CASE i > k
    <3>1. i - k \in 1 .. Len(s) - k /\ (i - k) + k = i
      BY <1>3, <2>3
    <3>2. t[i - k] = s[i]
      BY <1>7, <3>1
    <3> QED BY <1>7, <2>1, <3>1, <3>2
  <2>4. i \in Int /\ k \in Int
    OBVIOUS
  <2>5. i <= k \/ i > k
    BY <2>4
  <2> QED BY <2>2, <2>3, <2>5
<1>14. Posicion(h)'
  BY <1>2 DEF Local, Posicion
<1> QED BY <1>2, <1>9, <1>11, <1>12, <1>13, <1>14 DEF Local, Conversa

LEMMA InvInicia ==
    ASSUME Tipos, NEW h \in Hilos, Local(h), Inicia(h)
    PROVE  Local(h)'
<1>1. /\ cl[h] = "inicia" /\ sv'[h] = sv[h] /\ electo'[h] = electo[h]
      /\ vivo' = vivo /\ generacion' = generacion
      /\ subida'[h] = subida[h] /\ bajada'[h] = bajada[h] /\ conf'[h] = conf[h]
      /\ archivo'[h] = archivo[h] /\ OkConnections'[h] = OkConnections[h]
      /\ valor'[h] = valor[h] /\ medida'[h] = medida[h]
  BY DEF Inicia, servidor, red
<1>2. PICK conectado \in BOOLEAN :
          /\ \E r \in TrasEsperar(h, [robot[h] EXCEPT !.conectado = conectado,
                                    !.pedidas = IF conectado THEN {0} ELSE {}]) :
                robot' = [robot EXCEPT ![h] = r]
          /\ cl' = [cl EXCEPT ![h] = IF ConfiguracionRota(h) THEN "caido"
                                    ELSE IF conectado THEN "comprueba"
                                    ELSE "fin"]
  BY DEF Inicia
<1>3. Posicion(h)' /\ cl'[h] \notin {"configura", "inicia", "simula"}
  <2> DEFINE p == IF conectado THEN {0} ELSE {}
             r == [robot[h] EXCEPT !.conectado = conectado, !.pedidas = p]
  <2>1. robot[h] \in TipoRobot
    BY DEF Tipos, TipoCuerpo
  <2>2. ~robot[h].conectado /\ ~robot[h].aldia /\ robot[h].buzon = NADA
    BY <1>1 DEF Local, Posicion
  <2>3. p \in SUBSET Edades /\ p = IF conectado THEN {0} ELSE {}
    BY DEF Edades, VIEJA
  <2>4. PICK t \in TrasEsperar(h, r) : robot' = [robot EXCEPT ![h] = t]
    BY <1>2
  <2>5. robot'[h] = t
    BY <2>4 DEF Tipos, TipoCuerpo
  <2> HIDE DEF p
  <2>6. r \in TipoRobot /\ r.conectado = conectado /\ r.pedidas = p /\ r.buzon = NADA /\ ~r.aldia
    BY <2>1, <2>2, <2>3 DEF TipoRobot
  <2> HIDE DEF r
  <2>7. t.conectado = conectado
        /\ (t = r \/ (conectado /\ t.pedidas = {} /\ t.buzon = 0))
    <3>1. /\ t.conectado = r.conectado
          /\ \/ t = r
             \/ /\ r.conectado /\ t.pedidas = {}
                /\ r.pedidas # {} =>
                      t.buzon \in Edades /\ \A i \in r.pedidas : t.buzon <= i
      BY <2>6, EsperaBien
    <3> QED BY <2>3, <2>6, <3>1 DEF Edades, VIEJA
  <2>8. cl'[h] \in {"caido", "comprueba", "fin"}
    BY <1>2 DEF Tipos, TipoLugar
  <2> QED BY <2>3, <2>5, <2>6, <2>7, <2>8 DEF Posicion
<1>4. cl'[h] \in {"caido", "fin"} \/ (cl'[h] = "comprueba" /\ ~ConfiguracionRota(h))
  BY <1>2 DEF Tipos, TipoLugar
<1>5. Bajando(h)'
  BY <1>1, <1>4 DEF Local, Conversa, Bajando, Cerrado, AlFinal, Pendiente
<1>6. Configurado(h)'
  BY <1>1, <1>4 DEF Local, Conversa, Configurado, Cerrado, SinConfig
<1>7. EnMano(h)' /\ RespuestaSola(h)'
  BY <1>1, <1>4 DEF Local, Conversa, EnMano, RespuestaSola, Pendiente
<1>8. Donde(h)'
  BY <1>1, <1>4 DEF Local, Conversa, Donde, Cerrado, Empieza, Pendiente
<1> QED BY <1>3, <1>5, <1>6, <1>7, <1>8 DEF Local, Conversa

LEMMA InvCompruebaConexion ==
    ASSUME Tipos, NEW h \in Hilos, Local(h), CompruebaConexion(h)
    PROVE  Local(h)'
<1>1. /\ cl[h] = "comprueba" /\ cl'[h] \in {"espera", "fin"}
      /\ sv'[h] = sv[h] /\ electo'[h] = electo[h]
      /\ vivo' = vivo /\ generacion' = generacion
      /\ subida'[h] = subida[h] /\ bajada'[h] = bajada[h] /\ conf'[h] = conf[h]
      /\ archivo'[h] = archivo[h] /\ OkConnections'[h] = OkConnections[h]
      /\ valor'[h] = valor[h] /\ medida'[h] = medida[h]
      /\ robot'[h] = robot[h]
  BY DEF CompruebaConexion, servidor, red, Tipos, TipoLugar
<1>2. Bajando(h)'
  BY <1>1 DEF Local, Conversa, Bajando, Cerrado, AlFinal, Pendiente
<1>3. Configurado(h)'
  BY <1>1 DEF Local, Conversa, Configurado, Cerrado, SinConfig
<1>4. EnMano(h)' /\ RespuestaSola(h)'
  BY <1>1 DEF Local, Conversa, EnMano, RespuestaSola, Pendiente
<1>5. Donde(h)'
  BY <1>1 DEF Local, Conversa, Donde, Cerrado, Empieza, Pendiente
<1>6. Posicion(h)'
  BY <1>1 DEF Local, Posicion
<1> QED BY <1>1, <1>2, <1>3, <1>4, <1>5, <1>6 DEF Local, Conversa

LEMMA InvLeeOrganismo ==
    ASSUME Tipos, NEW h \in Hilos, Local(h), LeeOrganismo(h)
    PROVE  Local(h)'
<1> DEFINE s == bajada[h]
<1>1. PICK k \in 0 .. Len(s) : Lee(h, k) /\ archivo' = [archivo EXCEPT ![h] = SubSeq(s, 1, k)]
  BY DEF LeeOrganismo
<1>2. /\ cl[h] = "espera" /\ cl'[h] = "crea" /\ sv'[h] = sv[h] /\ electo'[h] = electo[h]
      /\ vivo' = vivo /\ generacion' = generacion /\ subida'[h] = subida[h]
      /\ conf'[h] = conf[h]
      /\ valor'[h] = valor[h] /\ medida'[h] = medida[h]
      /\ robot'[h] = robot[h]
  BY DEF Tipos, TipoLugar, LeeOrganismo, servidor
<1> DEFINE t == bajada'[h]
           a == archivo'[h]
<1>3. t = SubSeq(s, k + 1, Len(s)) /\ a = SubSeq(s, 1, k) /\ s \in Seq(Trozos)
      /\ Len(s) \in Nat
  BY <1>1, LeeTipo, Cadenas DEF Tipos, TipoRed, TipoLugar
<1>4. /\ AlFinal(s) /\ SinConfig(s)
      /\ \A i \in 1 .. Len(s) : s[i].de # CONFIG =>
            sv[h] = "aguarda" /\ subida[h] = <<>> /\ s[i].de = Pendiente(h)
      /\ ~(vivo /\ sv[h] = "conecta")
  BY <1>2 DEF Local, Conversa, Bajando, Configurado, Cerrado
<1>5. /\ Len(a) = k /\ \A i \in 1 .. k : a[i] = s[i]
      /\ Len(t) = Len(s) - k /\ t \in Seq(Trozos) /\ a \in Seq(Trozos)
  <2> HIDE DEF s, t, a
  <2>1. /\ SubSeq(s, 1, k) \in Seq(Trozos) /\ Len(SubSeq(s, 1, k)) = k
        /\ \A i \in 1 .. k : SubSeq(s, 1, k)[i] = s[i]
        /\ SubSeq(s, k + 1, Len(s)) \in Seq(Trozos)
        /\ Len(SubSeq(s, k + 1, Len(s))) = Len(s) - k
        /\ \A i \in 1 .. Len(s) - k : SubSeq(s, k + 1, Len(s))[i] = s[i + k]
    BY <1>3, Corte
  <2> QED BY <1>3, <2>1
<1>6. /\ AlFinal(t) /\ SinConfig(t)
      /\ \A i \in 1 .. Len(t) : i + k \in 1 .. Len(s) /\ t[i] = s[i + k]
  BY <1>3, <1>4, Sufijo
<1> HIDE DEF s, t, a
<1>7. Bajando(h)'
  BY <1>2, <1>4, <1>6 DEF Bajando, Pendiente, t
<1>8. Configurado(h)'
  BY <1>2, <1>4, <1>6 DEF Configurado, t
<1>9. EnMano(h)'
  <2> SUFFICES ASSUME NEW org \in Organismos, Empieza(a, org)
               PROVE  /\ a # <<>> /\ a[1].de = Pendiente(h)
                      /\ sv[h] = "aguarda" /\ t = <<>> /\ subida[h] = <<>>
    BY <1>2 DEF EnMano, Legible, Pendiente, a, t
  <2>1. k >= 1 /\ a # <<>>
    <3>1. a = <<>> <=> Len(a) = 0
      BY <1>5, EmptySeq
    <3> QED BY <1>3, <1>5, <3>1 DEF Empieza
  <2>2. 1 \in 1 .. k /\ 1 \in 1 .. Len(s)
    BY <1>3, <2>1
  <2>3. a[1] = s[1] /\ s[1].de # CONFIG
    BY <1>4, <1>5, <2>2 DEF SinConfig
  <2>4. 1 = IF s[1].parte = "cabeza" THEN Len(s) - 1 ELSE Len(s)
    BY <1>4, <2>2, <2>3 DEF AlFinal
  <2>5. k = Len(s)
    <3>1. CASE a[1].parte = "entero"
      <4>1. Len(s) = 1
        BY <2>3, <2>4, <3>1
      <4>2. k \in 0 .. 1
        BY <4>1
      <4> QED BY <2>1, <4>1, <4>2
    <3>2. CASE Len(a) > 1 /\ a[1].parte = "cabeza"
      BY <1>3, <1>5, <2>3, <2>4, <3>2
    <3> QED BY <3>1, <3>2 DEF Empieza
  <2>6. t = <<>>
    <3>1. Len(t) = 0
      BY <1>3, <1>5, <2>5
    <3> QED BY <1>5, <3>1, EmptySeq
  <2> QED BY <1>4, <2>1, <2>2, <2>3, <2>6
<1>10. RespuestaSola(h)' /\ Donde(h)'
  BY <1>2 DEF Local, Conversa, RespuestaSola, Donde, Pendiente
<1>11. Posicion(h)'
  BY <1>2 DEF Local, Posicion
<1> QED BY <1>2, <1>7, <1>8, <1>9, <1>10, <1>11 DEF Local, Conversa

LEMMA InvCrea ==
    ASSUME Tipos, NEW h \in Hilos, Local(h), Crea(h)
    PROVE  Local(h)'
<1>1. /\ cl[h] = "crea" /\ sv'[h] = sv[h] /\ electo'[h] = electo[h]
      /\ vivo' = vivo /\ generacion' = generacion
      /\ subida'[h] = subida[h] /\ bajada'[h] = bajada[h] /\ conf'[h] = conf[h]
      /\ archivo'[h] = archivo[h]
  BY DEF Crea, servidor, red
<1>2. medida'[h].cuantas = 0 /\ valor'[h] = FALLIDO
  BY DEF Crea, Tipos, TipoCuerpo, SinMedida
<1>3. Legible(h) =>
          /\ archivo[h] # <<>> /\ archivo[h][1].de = Pendiente(h)
          /\ sv[h] = "aguarda" /\ bajada[h] = <<>> /\ subida[h] = <<>>
          /\ Empieza(archivo[h], Pendiente(h))
  BY <1>1 DEF Local, Conversa, EnMano, Legible, Empieza
<1>4. Pendiente(h)' = Pendiente(h)
  BY <1>1 DEF Pendiente
<1>5. Bajando(h) /\ Configurado(h) /\ RespuestaSola(h) /\ Posicion(h)
  BY DEF Local, Conversa
<1>6. RespuestaSola(h)'
  BY <1>1, <1>4, <1>5 DEF RespuestaSola, Propia
<1>7. ASSUME Legible(h), cl' = [cl EXCEPT ![h] = "simula"],
             NEW t \in TrasEsperar(h, Envejece(robot[h])), robot' = [robot EXCEPT ![h] = t]
      PROVE  Local(h)'
  <2> DEFINE e == Envejece(robot[h])
  <2>1. cl'[h] = "simula"
    BY <1>7 DEF Tipos, TipoLugar
  <2>2. /\ robot'[h] = t /\ robot[h] \in TipoRobot
    BY <1>7 DEF Tipos, TipoCuerpo
  <2>3. Bajando(h)'
    BY <1>1, <1>4, <1>5, <2>1 DEF Bajando, Cerrado, AlFinal
  <2>4. Configurado(h)'
    BY <1>1, <1>5, <2>1 DEF Configurado, Cerrado, SinConfig
  <2>5. EnMano(h)' /\ Donde(h)'
    BY <1>1, <1>3, <1>4, <1>7, <2>1 DEF EnMano, Donde
  <2>6. /\ e \in TipoRobot /\ e.conectado = robot[h].conectado /\ e.aldia = robot[h].aldia
        /\ 0 \in robot[h].pedidas => 1 \in e.pedidas
        /\ robot[h].pedidas = {} => e.pedidas = {}
        /\ robot[h].buzon = 0 => e.buzon = 1
        /\ robot[h].buzon = NADA => e.buzon = NADA
    BY <2>2, EnvejeceBien
  <2>7. PICK r : r = e
    OBVIOUS
  <2>8. /\ t \in TipoRobot /\ t.conectado = r.conectado
        /\ \/ t = r
           \/ /\ r.conectado /\ t.pedidas = {}
              /\ r.pedidas = {} => t.buzon = r.buzon
              /\ r.pedidas # {} =>
                    t.buzon \in Edades /\ \A i \in r.pedidas : t.buzon <= i
    BY <2>6, <2>7, EsperaBien
  <2> HIDE DEF e
  <2>9. ~t.conectado => t.pedidas = {} /\ t.buzon = NADA
    BY <1>5, <2>6, <2>7, <2>8 DEF Posicion
  <2>10. t.conectado /\ t.aldia => t.buzon \in {0, 1}
    <3> SUFFICES ASSUME t.conectado, t.aldia PROVE t.buzon \in {0, 1}
      OBVIOUS
    <3>1. /\ 0 \in robot[h].pedidas \/ (robot[h].pedidas = {} /\ robot[h].buzon = 0)
          /\ robot[h].aldia => robot[h].buzon = 0
      BY <1>1, <1>5, <2>6, <2>7, <2>8 DEF Posicion
    <3>2. CASE t = r
      BY <2>6, <2>7, <3>1, <3>2
    <3>3. CASE r.pedidas = {} /\ t.buzon = r.buzon
      BY <2>6, <2>7, <3>1, <3>3
    <3>4. CASE 1 \in r.pedidas /\ t.buzon \in Edades /\ t.buzon <= 1
      BY <3>4 DEF Edades, VIEJA
    <3> QED BY <2>6, <2>7, <2>8, <3>1, <3>2, <3>3, <3>4
  <2>11. Posicion(h)'
    BY <1>2, <2>1, <2>2, <2>9, <2>10 DEF Posicion
  <2> QED BY <1>6, <2>3, <2>4, <2>5, <2>11 DEF Local, Conversa
<1>8. CASE Legible(h) /\ cl' = [cl EXCEPT ![h] = "comprueba"] /\ robot' = robot
           /\ OkConnections' = [OkConnections EXCEPT ![h] = FALSE]
  <2>1. cl'[h] = "comprueba" /\ robot'[h] = robot[h] /\ ~OkConnections'[h]
    BY <1>8 DEF Tipos, TipoLugar
  <2>2. Bajando(h)'
    BY <1>1, <1>4, <1>5, <2>1 DEF Bajando, Cerrado, AlFinal
  <2>3. Configurado(h)'
    BY <1>1, <1>5, <2>1 DEF Configurado, Cerrado, SinConfig
  <2>4. EnMano(h)'
    BY <2>1 DEF EnMano
  <2>5. Empieza(archivo[h], Pendiente(h))'
    BY <1>1, <1>3, <1>4, <1>8 DEF Empieza
  <2>6. Donde(h)'
    BY <2>1, <2>5 DEF Donde
  <2>7. Posicion(h)'
    BY <1>1, <1>2, <1>5, <2>1 DEF Posicion
  <2> QED BY <1>6, <2>2, <2>3, <2>4, <2>6, <2>7 DEF Local, Conversa
<1>9. CASE cl' = [cl EXCEPT ![h] = "caido"] /\ robot' = robot
  <2>1. cl'[h] = "caido" /\ robot'[h] = robot[h]
    BY <1>9 DEF Tipos, TipoLugar
  <2>2. Bajando(h)' /\ EnMano(h)' /\ Donde(h)'
    BY <2>1 DEF Bajando, EnMano, Donde, Cerrado
  <2>3. Configurado(h)'
    BY <1>1, <1>5, <2>1 DEF Configurado, Cerrado
  <2>4. Posicion(h)'
    BY <1>1, <1>5, <2>1 DEF Posicion
  <2> QED BY <1>6, <2>2, <2>3, <2>4 DEF Local, Conversa
<1> QED BY <1>7, <1>8, <1>9 DEF Crea

LEMMA InvMide ==
    ASSUME Tipos, NEW h \in Hilos, Local(h), Mide(h)
    PROVE  Local(h)'
<1>1. /\ cl[h] = "simula" /\ cl'[h] = cl[h] /\ sv'[h] = sv[h] /\ electo'[h] = electo[h]
      /\ vivo' = vivo /\ generacion' = generacion
      /\ subida'[h] = subida[h] /\ bajada'[h] = bajada[h] /\ conf'[h] = conf[h]
      /\ archivo'[h] = archivo[h] /\ OkConnections'[h] = OkConnections[h]
  BY DEF Mide, servidor, red
<1>2. Bajando(h)'
  BY <1>1 DEF Local, Conversa, Bajando, Cerrado, AlFinal, AlPrincipio, Pendiente
<1>3. Configurado(h)'
  BY <1>1 DEF Local, Conversa, Configurado, Cerrado, SinConfig
<1>4. EnMano(h)'
  BY <1>1 DEF Local, Conversa, EnMano, Legible, Empieza, Pendiente
<1>5. RespuestaSola(h)' /\ Donde(h)'
  BY <1>1 DEF Local, Conversa, RespuestaSola, Donde, Pendiente, Propia
<1>6. Posicion(h)'
  <2> DEFINE i == IF robot[h].buzon = NADA THEN BASURA ELSE robot[h].buzon
  <2>1. /\ valor'[h] = valor[h] /\ medida'[h].cuantas = medida[h].cuantas + 1
        /\ medida'[h].inicial = IF medida[h].cuantas = 0 THEN i ELSE medida[h].inicial
    BY DEF Mide, Tipos, TipoCuerpo, TipoMedida
  <2>2. /\ robot'[h].conectado = robot[h].conectado /\ robot'[h].aldia = robot[h].aldia
        /\ robot'[h].buzon = robot[h].buzon
        /\ robot'[h].pedidas = IF robot[h].conectado THEN robot[h].pedidas \cup {0}
                               ELSE robot[h].pedidas
    BY DEF Mide, Tipos, TipoCuerpo, TipoRobot
  <2>3. medida[h].cuantas \in Nat
    BY DEF Tipos, TipoCuerpo, TipoMedida
  <2>4. Posicion(h)
    BY DEF Local
  <2>5. medida[h].cuantas = 0 /\ robot[h].aldia =>
            i \in {0, 1} \/ (i = BASURA /\ ~robot[h].conectado)
    <3>1. robot[h].conectado /\ medida[h].cuantas = 0 /\ robot[h].aldia => robot[h].buzon \in {0, 1}
      BY <1>1, <2>4 DEF Posicion
    <3>2. ~robot[h].conectado => robot[h].buzon = NADA
      BY <2>4 DEF Posicion
    <3> QED BY <3>1, <3>2 DEF NADA
  <2> HIDE DEF i
  <2>6. cl'[h] = "simula" /\ medida'[h].cuantas > 0
    BY <1>1, <2>1, <2>3
  <2>7. robot[h].aldia => \/ medida'[h].inicial \in {0, 1}
                          \/ medida'[h].inicial = BASURA /\ ~robot[h].conectado
    <3>1. medida[h].cuantas > 0 /\ robot[h].aldia =>
              \/ medida[h].inicial \in {0, 1}
              \/ medida[h].inicial = BASURA /\ ~robot[h].conectado
      BY <1>1, <2>4 DEF Posicion
    <3> QED BY <2>1, <2>3, <2>5, <3>1
  <2>8. /\ ~robot[h].conectado => robot[h].pedidas = {} /\ robot[h].buzon = NADA
        /\ valor[h] = FALLIDO
    BY <1>1, <2>4 DEF Posicion
  <2> QED BY <2>1, <2>2, <2>6, <2>7, <2>8 DEF Posicion
<1> QED BY <1>2, <1>3, <1>4, <1>5, <1>6 DEF Local, Conversa

LEMMA InvResponde ==
    ASSUME Tipos, NEW h \in Hilos, Local(h), Responde(h)
    PROVE  Local(h)'
<1> USE ClienteSupuestos
<1>1. /\ cl[h] = "simula" /\ cl'[h] = "comprueba" /\ sv'[h] = sv[h] /\ electo'[h] = electo[h]
      /\ vivo' = vivo /\ generacion' = generacion
      /\ bajada'[h] = bajada[h] /\ conf'[h] = conf[h]
  BY DEF Responde, servidor, Tipos, TipoLugar
<1>2. /\ archivo[h][1].de = Pendiente(h)
      /\ sv[h] = "aguarda" /\ bajada[h] = <<>> /\ subida[h] = <<>>
  BY <1>1 DEF Local, Conversa, EnMano
<1>3. Pendiente(h)' = Pendiente(h)
  BY <1>1 DEF Pendiente
<1>4. Len(subida'[h]) = 1 /\ subida'[h][1] = Respuesta(h) /\ subida'[h] # <<>>
  <2>1. subida' = [subida EXCEPT ![h] = Append(@, Respuesta(h))]
    BY DEF Responde
  <2>2. subida'[h] = Append(<<>>, Respuesta(h))
    BY <1>2, <2>1 DEF Tipos, TipoRed
  <2>3. Append(<<>>, Respuesta(h)) = <<Respuesta(h)>>
    OBVIOUS
  <2> QED BY <2>2, <2>3
<1>5. Len(bajada'[h]) = 0
  BY <1>1, <1>2
<1>6. Bajando(h)'
  BY <1>1, <1>5 DEF Bajando, AlFinal
<1>7. Configurado(h)'
  BY <1>1, <1>2, <1>5 DEF Configurado, SinConfig
<1>8. EnMano(h)' /\ Donde(h)'
  BY <1>1, <1>4 DEF EnMano, Donde
<1>9. RespuestaSola(h)'
  <2>1. PICK gira \in BOOLEAN : valor' = [valor EXCEPT ![h] = Calculo(h, gira)]
    BY DEF Responde
  <2>2. valor'[h] = Calculo(h, gira)
    BY <2>1 DEF Tipos, TipoCuerpo
  <2>3. valor[h] = FALLIDO
    BY <1>1 DEF Local, Posicion
  <2>4. valor'[h] \in {FALLIDO, archivo[h][1].de}
    BY <1>1, <2>2, <2>3, CalculoTipo
  <2>5. Respuesta(h).de = archivo[h][1].de /\ Respuesta(h).valor = valor'[h]
    BY DEF Respuesta
  <2> QED BY <1>1, <1>2, <1>3, <1>4, <2>4, <2>5 DEF RespuestaSola, Propia
<1>10. Posicion(h)'
  <2> DEFINE r == [robot[h] EXCEPT !.aldia = FALSE]
  <2>1. PICK t \in TrasEsperar(h, r) : robot' = [robot EXCEPT ![h] = t]
    BY DEF Responde
  <2>2. robot'[h] = t /\ robot[h] \in TipoRobot
    BY <2>1 DEF Tipos, TipoCuerpo
  <2>3. /\ r \in TipoRobot /\ ~r.aldia /\ r.conectado = robot[h].conectado
        /\ r.pedidas = robot[h].pedidas /\ r.buzon = robot[h].buzon
    BY <2>2 DEF TipoRobot
  <2> HIDE DEF r
  <2>4. /\ t \in TipoRobot /\ t.conectado = r.conectado
        /\ \/ t = r
           \/ /\ r.conectado /\ t.pedidas = {}
              /\ r.pedidas = {} => t.buzon = r.buzon
              /\ r.pedidas # {} =>
                    t.buzon \in Edades /\ \A i \in r.pedidas : t.buzon <= i
    BY <2>3, EsperaBien
  <2>5. medida[h].cuantas > 0
    BY DEF Responde
  <2>6. /\ ~robot[h].conectado => robot[h].pedidas = {} /\ robot[h].buzon = NADA
        /\ robot[h].conectado =>
              0 \in robot[h].pedidas \/ (robot[h].pedidas = {} /\ robot[h].buzon = 0)
    BY <1>1, <2>5 DEF Local, Posicion
  <2>7. ~t.conectado => t.pedidas = {} /\ t.buzon = NADA
    BY <2>3, <2>4, <2>6
  <2>8. t.conectado /\ t # r => t.pedidas = {} /\ t.buzon = 0
    BY <2>3, <2>4, <2>6 DEF Edades, VIEJA
  <2> QED BY <1>1, <2>2, <2>3, <2>4, <2>6, <2>7, <2>8 DEF Posicion
<1> QED BY <1>6, <1>7, <1>8, <1>9, <1>10 DEF Local, Conversa

LEMMA InvSimulador ==
    ASSUME Tipos, NEW h \in Hilos, Local(h), LlegaPosicion(h) \/ PierdeSimulador(h)
    PROVE  Local(h)'
<1>1. /\ cl'[h] = cl[h] /\ sv'[h] = sv[h] /\ electo'[h] = electo[h]
      /\ vivo' = vivo /\ generacion' = generacion
      /\ subida'[h] = subida[h] /\ bajada'[h] = bajada[h] /\ conf'[h] = conf[h]
      /\ archivo'[h] = archivo[h] /\ OkConnections'[h] = OkConnections[h]
      /\ valor'[h] = valor[h] /\ medida'[h] = medida[h]
  BY DEF LlegaPosicion, PierdeSimulador, servidor, red
<1>2. Bajando(h)'
  BY <1>1 DEF Local, Conversa, Bajando, Cerrado, AlFinal, AlPrincipio, Pendiente
<1>3. Configurado(h)'
  BY <1>1 DEF Local, Conversa, Configurado, ConfiguracionRota, TieneCapas, Empieza, Cerrado, SinConfig
<1>4. EnMano(h)'
  BY <1>1 DEF Local, Conversa, EnMano, Legible, Empieza, Pendiente
<1>5. RespuestaSola(h)'
  BY <1>1 DEF Local, Conversa, RespuestaSola, Pendiente, Propia
<1>6. Donde(h)'
  BY <1>1 DEF Local, Conversa, Donde, Cerrado, Empieza, Pendiente
<1>7. CASE LlegaPosicion(h)
  <2>1. PICK j \in robot[h].pedidas :
            \E k \in {i \in 0 .. j : i <= robot[h].buzon \/ robot[h].buzon = NADA} :
               robot' = [robot EXCEPT ![h] =
                  [@ EXCEPT !.pedidas = {i \in robot[h].pedidas : i < j}, !.buzon = k]]
    BY <1>7 DEF LlegaPosicion
  <2>2. PICK k \in 0 .. j :
            /\ k <= robot[h].buzon \/ robot[h].buzon = NADA
            /\ robot' = [robot EXCEPT ![h] =
                  [@ EXCEPT !.pedidas = {i \in robot[h].pedidas : i < j}, !.buzon = k]]
    BY <2>1
  <2>3. /\ robot'[h].conectado = robot[h].conectado /\ robot'[h].aldia = robot[h].aldia
        /\ robot'[h].pedidas = {i \in robot[h].pedidas : i < j} /\ robot'[h].buzon = k
    BY <2>2 DEF Tipos, TipoCuerpo, TipoRobot
  <2>4. j \in Nat /\ robot[h].pedidas \subseteq Nat
    BY DEF Tipos, TipoCuerpo, TipoRobot, Edades, VIEJA
  <2>5. Posicion(h) /\ robot[h].conectado
    BY DEF Local, Posicion
  <2>6. robot[h].buzon \in {0, 1} => k \in {0, 1}
    BY <2>2, <2>4 DEF NADA
  <2>7. robot[h].buzon = 0 => k = 0
    BY <2>2, <2>4 DEF NADA
  <2>8. 0 \in robot[h].pedidas =>
            \/ 0 \in robot'[h].pedidas
            \/ robot'[h].pedidas = {} /\ robot'[h].buzon = 0
    <3>1. CASE j = 0
      <4>1. robot'[h].pedidas = {}
        BY <2>3, <2>4, <3>1
      <4> QED BY <2>3, <3>1, <4>1
    <3>2. CASE j > 0
      BY <2>3, <3>2
    <3> QED BY <2>4, <3>1, <3>2
  <2>9. Posicion(h)'
    BY <1>1, <2>3, <2>5, <2>6, <2>7, <2>8 DEF Posicion
  <2> QED BY <1>2, <1>3, <1>4, <1>5, <1>6, <2>9 DEF Local, Conversa
<1>8. CASE PierdeSimulador(h)
  <2>1. /\ robot'[h].conectado = FALSE /\ robot'[h].pedidas = {} /\ robot'[h].buzon = NADA
        /\ robot'[h].aldia = robot[h].aldia /\ robot[h].conectado
    BY <1>8 DEF PierdeSimulador, Tipos, TipoCuerpo, TipoRobot
  <2>2. Posicion(h)'
    BY <1>1, <2>1 DEF Local, Posicion
  <2> QED BY <1>2, <1>3, <1>4, <1>5, <1>6, <2>2 DEF Local, Conversa
<1> QED BY <1>7, <1>8

-----------------------------------------------------------------------------
(* Every step                                                              *)

\* A step of one connection leaves the others as they were.
LEMMA SoloUno ==
    ASSUME Tipos, NEW h \in Hilos, NEW j \in Hilos \ {h}, Local(j),
           HiloServidor(h) \/ ProcesoCliente(h) \/ LlegaPosicion(h) \/ PierdeSimulador(h)
    PROVE  Local(j)'
<1> USE DEF Tipos, TipoServidor, TipoRed, TipoLugar, TipoCuerpo
<1>1. CASE EnviaConfiguracion(h)
  BY <1>1, Ajeno DEF EnviaConfiguracion, Escribe, cliente
<1>2. CASE SacaOrganismo(h)
  BY <1>2, Ajeno DEF SacaOrganismo, Escribe, cliente
<1>3. CASE RecibeFitness(h)
  BY <1>3, Ajeno DEF RecibeFitness, cliente
<1>4. CASE Duerme(h)
  BY <1>4, Ajeno DEF Duerme, red, cliente
<1>5. CASE LeeConfiguracion(h)
  BY <1>5, Ajeno DEF LeeConfiguracion, Lee, servidor
<1>6. CASE Inicia(h)
  BY <1>6, Ajeno DEF Inicia, servidor, red
<1>7. CASE CompruebaConexion(h)
  BY <1>7, Ajeno DEF CompruebaConexion, servidor, red
<1>8. CASE LeeOrganismo(h)
  BY <1>8, Ajeno DEF LeeOrganismo, Lee, servidor
<1>9. CASE Crea(h)
  BY <1>9, Ajeno DEF Crea, servidor, red
<1>10. CASE Mide(h)
  BY <1>10, Ajeno DEF Mide, servidor, red
<1>11. CASE Responde(h)
  BY <1>11, Ajeno DEF Responde, servidor
<1>12. CASE LlegaPosicion(h)
  <2>1. PICK t : robot' = [robot EXCEPT ![h] = t]
    BY <1>12 DEF LlegaPosicion
  <2>2. robot'[j] = robot[j]
    BY <2>1
  <2>3. UNCHANGED <<servidor, red, cl, conf, archivo, OkConnections, flag, valor, medida>>
    BY <1>12 DEF LlegaPosicion
  <2> QED BY <2>2, <2>3, Ajeno DEF servidor, red
<1>13. CASE PierdeSimulador(h)
  BY <1>13, Ajeno DEF PierdeSimulador, servidor, red
<1> QED BY <1>1, <1>2, <1>3, <1>4, <1>5, <1>6, <1>7, <1>8, <1>9, <1>10, <1>11, <1>12, <1>13
        DEF HiloServidor, ProcesoCliente

LEMMA GuardadoPaso ==
    ASSUME Tipos, Inv, Next
    PROVE  Guardado'
<1>1. CASE Epoca
  BY <1>1 DEF Epoca, Guardado, Posiciones
<1>2. ASSUME NEW h \in Hilos, RecibeFitness(h)
      PROVE  Guardado'
  <2>1. generacion' = generacion /\ sv[h] = "aguarda"
    BY <1>2 DEF RecibeFitness
  <2>2. PICK r : /\ fitness' = [fitness EXCEPT ![electo[h]] = {r}]
                 /\ r = Ruido \/ (r.de = <<generacion, electo[h]>> /\ Propia(r))
    <3>1. subida[h] # <<>> =>
             Head(subida[h]).de = <<generacion, electo[h]>> /\ Propia(Head(subida[h]))
      BY LeeRespuesta DEF Inv, Local, Conversa, RespuestaSola, Pendiente
    <3> QED BY <1>2, <3>1 DEF RecibeFitness
  <2>3. \A o \in Posiciones : fitness'[o] = fitness[o] \/ (o = electo[h] /\ fitness'[o] = {r})
    BY <2>2 DEF Tipos, TipoServidor
  <2> QED BY <2>1, <2>2, <2>3 DEF Inv, Guardado, Posiciones
<1>3. ASSUME NEW h \in Hilos, \/ EnviaConfiguracion(h) \/ SacaOrganismo(h) \/ Duerme(h)
                              \/ ProcesoCliente(h) \/ LlegaPosicion(h) \/ PierdeSimulador(h)
      PROVE  Guardado'
  <2>1. fitness' = fitness /\ generacion' = generacion
    BY <1>3 DEF EnviaConfiguracion, SacaOrganismo, Duerme, ProcesoCliente, LeeConfiguracion,
       Inicia, CompruebaConexion, LeeOrganismo, Crea, Mide, Responde, LlegaPosicion,
       PierdeSimulador, servidor
  <2> QED BY <2>1 DEF Inv, Guardado, Posiciones
<1> QED BY <1>1, <1>2, <1>3 DEF Next, HiloServidor

LEMMA InvPaso ==
    ASSUME Tipos, Inv, [Next]_vars
    PROVE  Inv'
<1>1. CASE UNCHANGED vars
  <2>1. Guardado'
    BY <1>1 DEF vars, servidor, Inv, Guardado, Posiciones
  <2>2. ASSUME NEW j \in Hilos PROVE Local(j)'
    BY <1>1, Ajeno DEF vars, servidor, red, cliente, Inv
  <2> QED BY <2>1, <2>2 DEF Inv
<1>2. CASE Epoca
  <2>1. ASSUME NEW j \in Hilos PROVE Local(j)'
    BY <1>2, InvDescansa DEF Epoca, Inv
  <2> QED BY <1>2, <2>1, GuardadoPaso DEF Inv, Next
<1>3. ASSUME NEW h \in Hilos, \/ HiloServidor(h) \/ ProcesoCliente(h)
                              \/ LlegaPosicion(h) \/ PierdeSimulador(h)
      PROVE  Inv'
  <2>1. Local(h)
    BY DEF Inv
  <2>2. ASSUME Duerme(h) PROVE Local(h)'
    <3>1. sv[h] = "bucle" /\ sv'[h] = "duerme" /\ UNCHANGED <<red, cliente>>
      BY <2>2 DEF Duerme, Tipos, TipoServidor
    <3> QED BY <2>1, <3>1, InvDescansa
  <2>3. ASSUME HiloServidor(h) PROVE Local(h)'
    <3>1. CASE EnviaConfiguracion(h)
      BY <2>1, <3>1, InvEnviaConfiguracion
    <3>2. CASE SacaOrganismo(h)
      BY <2>1, <3>2, InvSacaOrganismo
    <3>3. CASE RecibeFitness(h)
      BY <2>1, <3>3, InvRecibeFitness
    <3> QED BY <2>2, <2>3, <3>1, <3>2, <3>3 DEF HiloServidor
  <2>4. ASSUME ProcesoCliente(h) PROVE Local(h)'
    <3>1. CASE LeeConfiguracion(h)
      BY <2>1, <3>1, InvLeeConfiguracion
    <3>2. CASE Inicia(h)
      BY <2>1, <3>2, InvInicia
    <3>3. CASE CompruebaConexion(h)
      BY <2>1, <3>3, InvCompruebaConexion
    <3>4. CASE LeeOrganismo(h)
      BY <2>1, <3>4, InvLeeOrganismo
    <3>5. CASE Crea(h)
      BY <2>1, <3>5, InvCrea
    <3>6. CASE Mide(h)
      BY <2>1, <3>6, InvMide
    <3>7. CASE Responde(h)
      BY <2>1, <3>7, InvResponde
    <3> QED BY <2>4, <3>1, <3>2, <3>3, <3>4, <3>5, <3>6, <3>7 DEF ProcesoCliente
  <2>5. ASSUME LlegaPosicion(h) \/ PierdeSimulador(h) PROVE Local(h)'
    BY <2>1, <2>5, InvSimulador
  <2>6. Local(h)'
    BY <1>3, <2>3, <2>4, <2>5
  <2>7. ASSUME NEW j \in Hilos \ {h} PROVE Local(j)'
    BY <1>3, SoloUno DEF Inv
  <2>8. Guardado'
    BY <1>3, GuardadoPaso DEF Next
  <2> QED BY <2>6, <2>7, <2>8 DEF Inv
<1> QED BY <1>1, <1>2, <1>3 DEF Next

LEMMA InvSiempre == Spec => []Inv
<1>1. Tipos /\ Inv /\ [Next]_vars => Inv'
  BY InvPaso
<1> QED BY InvInit, <1>1, TiposSiempre, PTL DEF Spec

\* Whatever the stream is cut into, an answer on its way is the only one, its
\* thread waits for it, it was computed from the organism that thread will store
\* it for, and it is that organism's own fitness or says that it failed; so is
\* all that is stored but the noise of a closed connection (Cliente's
\* RespuestaEsperada).
THEOREM LaRespuestaEsLaEsperada == Spec => []RespuestaEsperada
<1>1. Inv => RespuestaEsperada
  BY DEF Inv, Guardado, Local, Conversa, RespuestaSola, RespuestaEsperada
<1> QED BY <1>1, InvSiempre, PTL

\* A distance starts at a position at most one simulation old, provided the stop
\* of the simulation before or the start of this one did not time out; it starts
\* at garbage only if the connection was lost (Cliente's DistanciaReciente).
THEOREM LaDistanciaEsReciente == Spec => []DistanciaReciente
<1>1. Inv => DistanciaReciente
  BY DEF Inv, Local, Posicion, DistanciaReciente
<1> QED BY <1>1, InvSiempre, PTL

\* Client and thread wait for each other only over an organism that could not be
\* created or was read as configuration (Cliente's BloqueoExplicado).
THEOREM ElBloqueoSeExplica == Spec => []BloqueoExplicado
<1>1. Tipos /\ Inv => BloqueoExplicado
  <2> SUFFICES ASSUME Tipos, Inv, NEW h \in Hilos, Detenido(h)
               PROVE  \/ ~OkConnections[h] /\ Empieza(archivo[h], Pendiente(h))
                      \/ \E i \in 1 .. Len(conf[h]) : conf[h][i].de = Pendiente(h)
    BY DEF BloqueoExplicado
  <2>1. /\ sv[h] = "aguarda" /\ cl[h] \in {"espera", "configura"}
        /\ Len(bajada[h]) = 0 /\ subida[h] = <<>>
    BY Cadenas DEF Detenido
  <2> QED BY <2>1 DEF Inv, Local, Conversa, Donde, Cerrado
<1> QED BY <1>1, InvSiempre, TiposSiempre, PTL

=============================================================================
