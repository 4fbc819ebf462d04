SPECIFICATION Spec
CONSTANTS
    h1 = h1
    h2 = h2
    Hilos <- DosHilos
    Principal = Principal
    Nadie = Nadie
    POPULATION_MAX = 1
    GENERATIONS = 3
    Espurios <- NingunEspurio
    MAX_ESPURIOS = 0
PROPERTIES
    EpocaSinRestantes
CHECK_DEADLOCK FALSE
