SPECIFICATION FairSpec
CONSTANTS
    h1 = h1
    h2 = h2
    Hilos <- DosHilos
    Principal = Principal
    Nadie = Nadie
    POPULATION_MAX = 2
    GENERATIONS = 3
    Espurios <- SoloHayOrganismos
    MAX_ESPURIOS = 1
INVARIANTS
    TypeOK
    CuentaExacta
    RepartoUnico
    PrimeraEpocaCompleta
PROPERTIES
    SenalSinTrabajo
    PrimeraGeneracionEvaluada
CHECK_DEADLOCK FALSE
