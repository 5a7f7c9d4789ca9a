CONSTANTS
    a = a
    b = b
    c = c
    wk = wk
    k1 = k1
    k2 = k2
    nadie = nadie
    Solicitudes = {a, b}
    Worker = wk
    Claves = {k1, k2}
    ClaveDe <- ClaveAjena
    Modo <- SyncYBackground
    Grupos <- DosGrupos
    Chunk = 2
    LoteLento = FALSE
    Nadie = nadie
    MaxFallas = 0
    MaxCaidas = 0
SPECIFICATION Spec
INVARIANTS UnaAutorizacionPorGrupo
CHECK_DEADLOCK FALSE
