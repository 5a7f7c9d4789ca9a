SPECIFICATION Spec

CONSTANTS
    r1 = r1
    r2 = r2
    k1 = k1
    k2 = k2
    Reintentos = {r1, r2}
    Usuario = usuario
    Claves = {k1, k2}
    Previa = previa
    Nadie = nadie
    Grupos <- DosGrupos
    Iniciales <- Restos
    Selecciones <- TodoYUltimo
    MaxIntentos = 2
    MaxIncidentes = 1


SYMMETRY Simetria

INVARIANT ResumenFiel
INVARIANT UnaAutorizacionPropia
INVARIANT SinDescarteEnVuelo
INVARIANT DuenoDelVuelo
PROPERTY ReplayEstable

CHECK_DEADLOCK FALSE
