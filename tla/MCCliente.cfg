SPECIFICATION SpecJusta
CONSTANTS
    h1 = h1
    h2 = h2
    Hilos = {h1, h2}
    POPULATION_MAX = 2
    MAX_GENERACION = 2
    MAX_MEDIDAS = 1
    Partibles = {h1}
    Fragiles = {h1}
INVARIANTS TypeOK RespuestaEsperada DistanciaReciente BloqueoExplicado
PROPERTY EvaluacionTermina
CHECK_DEADLOCK FALSE
