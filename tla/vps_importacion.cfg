SPECIFICATION Spec

CONSTANTS
    Importadores = {i1, i2}
    Archivos <- UnPar
    Ninguno = Ninguno
    MaxCorridas = 1
    MaxExternos = 1

INVARIANT RestosInocuos
INVARIANT DestinoCompleto
PROPERTY DestinoRespetado
PROPERTY Termina

CHECK_DEADLOCK FALSE
