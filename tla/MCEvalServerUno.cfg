SPECIFICATION Spec
CONSTANTS
    h1 = h1
    h2 = h2
    Hilos <- UnHilo
    Principal = Principal
    Nadie = Nadie
    POPULATION_MAX = 3
    GENERATIONS = 3
    Espurios <- NingunEspurio
    MAX_ESPURIOS = 0
PROPERTIES
    ImplementaGeneraciones
CHECK_DEADLOCK FALSE
