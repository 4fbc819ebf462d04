SPECIFICATION FairSpec
CONSTANTS
    h1 = h1
    h2 = h2
    Hilos <- UnHilo
    Principal = Principal
    Nadie = Nadie
    POPULATION_MAX = 2
    GENERATIONS = 2
    Espurios <- NingunEspurio
    MAX_ESPURIOS = 0
PROPERTIES
    RestantesSeSacan
CHECK_DEADLOCK FALSE
