SPECIFICATION Spec
CONSTANTS
    e1 = e1
    e2 = e2
    h1 = h1
    h2 = h2
    s1 = s1
    o1 = o1
    Nodos <- Neuronas
    NCAPAS = 3
    Capa <- TresCapas
    Tipo <- Tipos
    SALIDAS = 2
    MAX_OCULTAS = 1
    Organismos = {o1}
    MAX_RONDAS = 2
INVARIANTS TypeOK ConexionesDelUltimo SalidaFresca
PROPERTY FuncionesDelCampeon
CHECK_DEADLOCK FALSE
