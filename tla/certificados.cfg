SPECIFICATION Spec

CONSTANTS
    u1 = u1
    u2 = u2
    l1 = l1
    k1 = k1
    k2 = k2
    x1 = x1
    x2 = x2
    p1 = p1
    p2 = p2
    Claves = {k1,k2}
    Contenidos = {x1,x2}
    ClaveDe <- Csr
    Subidas = {u1,u2}
    Limpiezas = {l1}
    Peticiones = {p1,p2}
    Vida = 3
    Margen = 1
    Demora = 1
    MaxReloj = 2
    MaxSucesos = 4
    MaxCaidas = 1

SYMMETRY Intercambio

INVARIANT MaterialFiel
INVARIANT DiscoFiel
PROPERTY UnoVigente
PROPERTY TicketServible

CHECK_DEADLOCK FALSE
