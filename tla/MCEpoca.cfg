SPECIFICATION Spec
CONSTANTS
    NGENOMAS = 3
    Genomas <- Puntos
    Cercanos <- Vecinos
    POPULATION_MAX = 3
    MIN_APTITUD = 0
    MAX_APTITUD = 1
    NREDONDEO = 2
    Azares = {"cero", "tope"}
    MAX_GENERACION = 2
INVARIANTS TypeOK EspeciesParticionan EspeciesDistintas CampeonEsElMejor AbortoExplicado
CHECK_DEADLOCK FALSE
