SPECIFICATION FairSpec
CONSTANTS
    c1 = c1
    c2 = c2
    Clientes <- DosClientes
    SinDireccion = SinDireccion
    TUBO = 2
    TUBO_TIEMPO = 2
    retardoPromedio = 1
    variacionRetardo = 1
    porcentajePerdida = 50
    HayVacios = TRUE
    LLEGADAS <- DosYUno
    MAX_TIEMPO = 0
INVARIANTS TypeOK SinAvisoPerdido TiempoDisponible SelloNoPosterior EnOrden DireccionEntera
PROPERTIES Distribuye
CHECK_DEADLOCK FALSE
