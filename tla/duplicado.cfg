SPECIFICATION Spec

CONSTANTS
    r1 = r1
    r2 = r2
    r3 = r3
    r4 = r4
    r5 = r5
    k1 = k1
    k2 = k2
    p1 = p1
    p2 = p2
    t1 = t1
    t2 = t2
    Nadie = Nadie
    Solicitudes = {r1, r2, r3, r4, r5}
    Claves = {k1, k2}
    Payloads = {p1, p2}
    Tipos = {t1}
    ClaveDe <- ClaveDuplicada
    PayloadDe <- PayloadDeOtro
    TipoDe <- UnTipo
    Confirma <- ConfirmanReintentos
    ColaLarga = FALSE
    PostgreSQL = TRUE
    MaxRev = 1
    MaxExterno = 0
    MaxFallas = 0
    MaxCaidas = 0

INVARIANT UnaSolicitudPorOperacion
INVARIANT UnPayloadPorClave

CHECK_DEADLOCK FALSE
