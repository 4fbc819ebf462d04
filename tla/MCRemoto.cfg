SPECIFICATION SpecJusta
CONSTANTS
    c1 = c1
    o1 = o1
    o2 = o2
    Consultas = {c1}
    Ordenes = {o1, o2}
    MAX_ORDENES = 2
    MAX_MENSAJES = 2
INVARIANTS TypeOK RespuestaPropia NoSePierde
PROPERTIES LoteJunto FinTermina
CHECK_DEADLOCK FALSE
