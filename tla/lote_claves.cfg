CONSTANTS
    a = a
    b = b
    c = c
    wk = wk
    k1 = k1
    k2 = k2
    nadie = nadie
    Solicitudes = {a, b}
    Worker = wk
    Claves = {k1, k2}
    ClaveDe <- ClaveAjena
    Modo <- TodasSync
    Grupos <- DosGrupos
    Chunk = 2
    LoteLento = TRUE
    Nadie = nadie
    MaxFallas = 1
    MaxCaidas = 1
SPECIFICATION FairSpec
INVARIANTS UnEnvioEntreSincronicas
PROPERTIES RespuestaFinalEstable ProcesandoSeDecide
CHECK_DEADLOCK FALSE
