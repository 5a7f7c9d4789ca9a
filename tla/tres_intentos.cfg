SPECIFICATION FairSpec

CONSTANTS
    r1 = r1
    r2 = r2
    r3 = r3
    r4 = r4
    r5 = r5
    k1 = k1
    k2 = k2
    p1 = p1
    p2 = p2
    t1 = t1
    t2 = t2
    Nadie = Nadie
    Solicitudes = {r1, r2, r3}
    Claves = {k1}
    Payloads = {p1}
    Tipos = {t1}
    ClaveDe <- MismaClave
    PayloadDe <- MismoPayload
    TipoDe <- UnTipo
    Confirma <- SinConfirmar
    ColaLarga = TRUE
    PostgreSQL = FALSE
    MaxRev = 1
    MaxExterno = 0
    MaxFallas = 1
    MaxCaidas = 0

INVARIANT CaeNuncaPerdido
INVARIANT RespuestasConcordes
PROPERTY RefinaEmisionUnica
PROPERTY TodaSolicitudResponde

CHECK_DEADLOCK FALSE
