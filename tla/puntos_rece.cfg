SPECIFICATION Spec

CONSTANTS
    p1 = p1
    p2 = p2
    a1 = a1
    a2 = a2
    Nadie = Nadie
    Pedidos = {p1, p2}
    Administrador <- DosAdministradores
    Puntos = {1, 2}
    Numeros = {1, 2}
    Cuits = {"c1", "c2"}
    Ediciones <- Cambios
    EstadosArca <- ListasArca
    Constancias <- Documentos
    Vigencia = 1
    MaxDia = 3
    MaxSucesos = 3
    Escenarios = {"vacio", "acreditado"}
    MaxRevision = 5
    Clases = {"editar", "sincronizar", "importar", "emitir"}


SYMMETRY Intercambio

INVARIANT PuntosCoherentes
INVARIANT EvidenciaVeraz
PROPERTY LibroFiel
PROPERTY EnvioAcreditado

CHECK_DEADLOCK FALSE
