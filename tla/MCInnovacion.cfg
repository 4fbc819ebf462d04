SPECIFICATION Spec
CONSTANTS
    NODOS0 = 3
    CONEXIONES0 = 2
    FILAS0 = 2
    Nodos0 <- TresNodos
    Conexiones0 <- DosConexiones
    POPULATION_MAX = 2
    MAX_GENERACION = 2
    MAX_NODO = 8
    MAX_GENES = 4
INVARIANTS TypeOK GenesConformes ExtremosPresentes OrdenDeFilas NuncaAborta CargaFiel
PROPERTIES ImplementaRegistro
CHECK_DEADLOCK FALSE
