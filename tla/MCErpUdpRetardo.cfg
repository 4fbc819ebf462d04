SPECIFICATION Spec
CONSTANTS
    c1 = c1
    c2 = c2
    Clientes <- UnCliente
    SinDireccion = SinDireccion
    TUBO = 1
    TUBO_TIEMPO = 1
    retardoPromedio = 5
    variacionRetardo = 4
    porcentajePerdida = 15
    HayVacios = TRUE
    LLEGADAS <- UnaDeIda
    MAX_TIEMPO = 1
INVARIANTS RetardoMinimo
CHECK_DEADLOCK FALSE
