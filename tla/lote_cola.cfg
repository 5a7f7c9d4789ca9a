CONSTANTS
    a = a
    b = b
    c = c
    wk = wk
    k1 = k1
    k2 = k2
    nadie = nadie
    Solicitudes = {a, b, c}
    Worker = wk
    Claves = {k1}
    ClaveDe <- UnaClave
    Modo <- BackgroundConDescarte
    Grupos <- DosGrupos
    Chunk = 2
    LoteLento = FALSE
    Nadie = nadie
    MaxFallas = 2
    MaxCaidas = 1
SPECIFICATION Spec

INVARIANT ColaCoherente
INVARIANT CompletadoVeraz
INVARIANT CaeConservado
INVARIANT FallidoSinCae

CHECK_DEADLOCK FALSE
