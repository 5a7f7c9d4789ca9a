------------------------------ MODULE PuntosRece ------------------------------
(***************************************************************************)
(* The points of sale of one issuer and the ledger that says which of them *)
(* may ask ARCA for a CAE: api/puntos_venta.py over                        *)
(* services/elegibilidad_rece_service.py.                                  *)
(*                                                                         *)
(* Administrators edit a point, synchronise all of them with ARCA's list,  *)
(* or import the constancia (a PDF with a date and a CUIT), with or        *)
(* without attesting that it comes from production; cashiers emit.  Every  *)
(* request reads the points at its start, asks ARCA, and only later takes  *)
(* the asyncio lock of each point it touches and writes, in one            *)
(* transaction that compares revision_fiscal with what it had read.  What  *)
(* can be stale by then: the points, ARCA's answer, the issuer's CUIT, the *)
(* administrator's rights and the age of the document.                     *)
(*                                                                         *)
(* A transaction holds the locks of all its points until its commit, so    *)
(* the writes of a batch are one step, and so are the reads and writes     *)
(* under the lock of one point.  The ledger keeps the production revision  *)
(* of each pair; its twin of homologacion is written in the same           *)
(* transaction and is always no_verificado.  es_webservice is what the     *)
(* system says (Sistemas \ {"otro"}); descriptive fields are left out:     *)
(* changing them takes no lock and no revision.                            *)
(***************************************************************************)
EXTENDS Integers, Sequences, FiniteSets, FiniteSetsExt

CONSTANTS
    Pedidos,          \* concurrent requests
    Administrador,    \* [Pedidos -> administrators]: whose session it is
    Puntos,           \* 1..n: ids of the rows of puntos_venta
    Numeros,          \* numbers a point can have
    Cuits,            \* CUITs the issuer can have had
    Ediciones,        \* {<<field, value>>}: what PUT and DELETE can ask
    EstadosArca,      \* set of [Numeros -> {"activo","bloqueado","baja","ausente"}]
    Constancias,      \* set of documents, see EsConstancia
    Vigencia,         \* VIGENCIA_CONSTANCIA_DIAS
    MaxDia,           \* bound: last day
    MaxRevision,      \* bound: revision_fiscal of a point
    MaxSucesos,       \* bound: requests begun and changes around them
    Escenarios,       \* initial states, see Init
    Nadie,
    Clases            \* kinds of request the instance explores

EsConstancia(c) ==
    /\ c.cuit \in Cuits
    /\ c.dia \in 1..MaxDia
    /\ c.completa \in BOOLEAN     \* no warnings and a CUIT
    /\ DOMAIN c.filas \subseteq Numeros /\ DOMAIN c.filas # {}

ASSUME ConstantesValidas ==
    /\ Nadie \notin Pedidos /\ Pedidos # {}
    /\ Puntos = 1..Cardinality(Puntos)
    /\ Numeros \subseteq Nat \ {0} /\ IsFiniteSet(Numeros) /\ IsFiniteSet(Puntos)
    /\ Vigencia \in Nat /\ MaxDia \in Nat \ {0, 1} /\ MaxRevision \in Nat \ {0, 1}
    /\ \A c \in Constancias : EsConstancia(c)
    /\ "acreditado" \in Escenarios => {1, 2} \subseteq Numeros
    /\ Clases \subseteq {"editar", "sincronizar", "importar", "emitir"}

VARIABLES
    punto,       \* rows of puntos_venta; rev = 0: no such row
    libro,       \* [Puntos -> Seq(production revisions)]; the head is the last
    guarda,      \* the last guard of each point
    empresa,     \* [cuit, admins]: the issuer's CUIT and the active admins
    hoy,         \* the day in Buenos Aires
    arca,        \* ARCA's own list of points
    ped,         \* what each request is doing
    candado,     \* asyncio lock of each point
    frontera,    \* who holds the rows of Usuario and Empresa FOR UPDATE
    sucesos,     \* counts towards MaxSucesos
    dictamen     \* history: what happened to each point since its attestation

vars == <<punto, libro, guarda, empresa, hoy, arca, ped, candado, frontera, sucesos,
          dictamen>>

Sistemas == {"rece", "ws", "otro"}

(* What an edition, ARCA's list and the rows of a constancia can say. *)
ASSUME DatosValidos ==
    /\ \A e \in Ediciones :
          \/ e[1] = "numero" /\ e[2] \in Numeros
          \/ e[1] \in {"activo", "bloqueado", "baja"} /\ e[2] \in BOOLEAN
          \/ e[1] = "sistema" /\ e[2] \in Sistemas
    /\ EstadosArca \subseteq [Numeros -> {"activo", "bloqueado", "baja", "ausente"}]
    /\ \A c \in Constancias : c.filas \in [DOMAIN c.filas -> Sistemas]

NoDia == 0
NoCuit == "sin_cuit"
Campos == [numero : Numeros \cup {0}, activo : BOOLEAN, bloqueado : BOOLEAN,
           baja : BOOLEAN, sistema : Sistemas]
SinFila == [rev |-> 0, numero |-> 0, activo |-> FALSE, bloqueado |-> FALSE,
            baja |-> FALSE, sistema |-> "otro"]
Ocioso == [clase |-> "nada", fase |-> "libre", pt |-> 0, edicion |-> <<>>,
           doc |-> <<>>, confirma |-> FALSE, cuit |-> NoCuit, lista |-> <<>>,
           copia |-> <<>>, faltan |-> {}, alta |-> {}, ctx |-> <<>>]
SinGuarda == [fase |-> "ninguna", ctx |-> <<>>, quien |-> Nadie]
Activas == {"pre_arca", "arca_iniciada", "requiere_reconciliacion"}

Existe(pt) == punto[pt].rev > 0
Existentes == {pt \in Puntos : Existe(pt)}
Fisco(fila) == [c \in {"numero", "activo", "bloqueado", "baja", "sistema"} |-> fila[c]]
GuardaActiva(pt) == guarda[pt].fase \in Activas
Cabeza(pt) == libro[pt][Len(libro[pt])]

Revision(estado, rev, dia, cuit, numero) ==
    [estado |-> estado, rev |-> rev, dia |-> dia, cuit |-> cuit, numero |-> numero]
NoVerificada(rev) == Revision("no_verificado", rev, NoDia, NoCuit, 0)

-----------------------------------------------------------------------------
(* What lets a point emit *)

TecnicamenteHabil(pt) ==
    /\ punto[pt].activo /\ ~punto[pt].bloqueado /\ ~punto[pt].baja
    /\ punto[pt].sistema # "otro"

(* Fault: an attestation never expires. *)
EvidenciaSinVencer(pt) == Cabeza(pt).estado = "verificado_rece"

EvidenciaVigente(pt) ==
    /\ Cabeza(pt).estado = "verificado_rece"
    /\ Cabeza(pt).dia + Vigencia >= hoy

EvidenciaPropia(pt) ==
    /\ Cabeza(pt).rev = punto[pt].rev
    /\ Cabeza(pt).numero = punto[pt].numero
    /\ Cabeza(pt).cuit = empresa.cuit

Emitible(pt) ==
    Existe(pt) /\ TecnicamenteHabil(pt) /\ EvidenciaVigente(pt) /\ EvidenciaPropia(pt)

Contexto(pt) == [rev |-> punto[pt].rev, revision |-> Len(libro[pt])]

-----------------------------------------------------------------------------
(* What a request wants, computed from what it had read *)

ConArca(p) == ped[p].lista # <<>>
Informado(p, n) == ConArca(p) /\ ped[p].lista[n] # "ausente"

Tecnico(p, n, fila) ==
    [fila EXCEPT !.bloqueado = ped[p].lista[n] = "bloqueado",
                 !.baja = ped[p].lista[n] = "baja",
                 !.activo = ped[p].lista[n] = "activo"]

FilaSincronizada(p, fila) ==
    LET n == fila.numero IN
    IF Informado(p, n)
    THEN [Tecnico(p, n, fila) EXCEPT !.sistema = IF @ = "otro" THEN "ws" ELSE @]
    ELSE [fila EXCEPT !.activo = FALSE]

FilaImportada(p, fila) ==
    LET n == fila.numero
        base == [fila EXCEPT !.sistema = ped[p].doc.filas[n]]
    IN  IF Informado(p, n) THEN Tecnico(p, n, base)
        ELSE IF ConArca(p) THEN [base EXCEPT !.activo = FALSE]
        ELSE base

EnDocumento(p, n) == n \in DOMAIN ped[p].doc.filas

Destino(p, pt) ==
    LET fila == ped[p].copia[pt] IN
    CASE ped[p].clase = "editar" -> [fila EXCEPT ![ped[p].edicion[1]] = ped[p].edicion[2]]
      [] ped[p].clase = "sincronizar" -> FilaSincronizada(p, fila)
      [] ped[p].clase = "importar" ->
            IF EnDocumento(p, fila.numero) THEN FilaImportada(p, fila)
                                           ELSE [fila EXCEPT !.activo = FALSE]

Leidos(p) == {pt \in Puntos : ped[p].copia[pt].rev > 0}

Ausentes(p) ==
    {pt \in Leidos(p) :
        \/ ped[p].clase = "sincronizar" /\ ~Informado(p, ped[p].copia[pt].numero)
        \/ /\ ped[p].clase = "importar" /\ ped[p].doc.completa
           /\ ~EnDocumento(p, ped[p].copia[pt].numero)}

(* The points whose local lock the batch takes. *)
Tocados(p) ==
    CASE ped[p].clase = "editar" -> {ped[p].pt}
      [] ped[p].clase = "sincronizar" -> Leidos(p)
      [] ped[p].clase = "importar" ->
            Ausentes(p) \cup {pt \in Leidos(p) : EnDocumento(p, ped[p].copia[pt].numero)}

(* Those that get a new revision: a real change, an absent point, or any   *)
(* point of an attestation.                                                *)
Exigidos(p) ==
    {pt \in Tocados(p) : \/ ped[p].confirma
                         \/ pt \in Ausentes(p)
                         \/ Destino(p, pt) # ped[p].copia[pt]}

Nuevos(p) ==
    LET conocidos == {ped[p].copia[pt].numero : pt \in Leidos(p)} IN
    CASE ped[p].clase = "sincronizar" -> {n \in Numeros \ conocidos : Informado(p, n)}
      [] ped[p].clase = "importar" -> DOMAIN ped[p].doc.filas \ conocidos
      [] OTHER -> {}

FilaNueva(p, n) ==
    LET fila == [SinFila EXCEPT !.numero = n] IN
    IF ped[p].clase = "sincronizar" THEN FilaSincronizada(p, fila) ELSE FilaImportada(p, fila)

(* Fault: any change that blocks counts as a transient block. *)
SoloBloqueoAmplio(p, pt) == Destino(p, pt).bloqueado /\ ~ped[p].copia[pt].bloqueado

SoloBloqueoTransitorio(p, pt) ==
    LET antes == ped[p].copia[pt] IN
    /\ Destino(p, pt) = [antes EXCEPT !.bloqueado = TRUE]
    /\ ~antes.bloqueado /\ ~antes.baja

-----------------------------------------------------------------------------
(* Ending a request: commit or rollback, every lock is released *)

Soltar(p) ==
    /\ ped' = [ped EXCEPT ![p] = Ocioso]
    /\ candado' = [pt \in Puntos |-> IF candado[pt] = p THEN Nadie ELSE candado[pt]]
    /\ frontera' = IF frontera = p THEN Nadie ELSE frontera

Rechazar(p) == Soltar(p) /\ UNCHANGED <<punto, libro, guarda, dictamen>>

Contar == sucesos < MaxSucesos /\ sucesos' = sucesos + 1

Entorno == <<empresa, hoy, arca>>
Fila == <<punto, libro, guarda, dictamen>>

(* A row that refers to the issuer or to the administrator waits while an  *)
(* attestation holds them FOR UPDATE.                                      *)
EmpresaReferible(p) == frontera \in {Nadie, p}
UsuarioReferible(p) ==
    frontera \notin {Nadie, p} => Administrador[frontera] # Administrador[p]

-----------------------------------------------------------------------------
(* Starting *)

EsAdmin(p) == Administrador[p] \in empresa.admins
Libre(p) == ped[p].fase = "libre"

Editar(p) ==
    /\ Contar
    /\ Libre(p) /\ EsAdmin(p) /\ "editar" \in Clases
    /\ \E pt \in Existentes, e \in Ediciones :
          /\ punto[pt][e[1]] # e[2]
          /\ e[1] = "numero" => \A q \in Existentes : punto[q].numero # e[2]
          /\ ped' = [ped EXCEPT ![p] = [Ocioso EXCEPT
                        !.clase = "editar", !.fase = "espera", !.pt = pt, !.edicion = e,
                        !.copia = punto, !.faltan = {pt}]]
    /\ UNCHANGED <<Fila, Entorno, candado, frontera>>

HayPuntosEnArca == \E n \in Numeros : arca[n] # "ausente"

Sincronizar(p) ==
    /\ Contar
    /\ Libre(p) /\ EsAdmin(p) /\ "sincronizar" \in Clases
    /\ empresa.certificado /\ HayPuntosEnArca
    /\ ped' = [ped EXCEPT ![p] = [Ocioso EXCEPT
                  !.clase = "sincronizar", !.fase = "lista", !.lista = arca]]
    /\ UNCHANGED <<Fila, Entorno, candado, frontera>>

Fresca(c) == c.dia <= hoy /\ hoy - c.dia <= Vigencia

Importar(p) ==
    /\ Contar
    /\ Libre(p) /\ EsAdmin(p) /\ "importar" \in Clases
    /\ \E c \in Constancias, confirma \in BOOLEAN, disponible \in BOOLEAN :
          /\ c.cuit = empresa.cuit
          /\ confirma => c.completa /\ Fresca(c)
          /\ disponible => empresa.certificado /\ HayPuntosEnArca
          /\ ped' = [ped EXCEPT ![p] = [Ocioso EXCEPT
                        !.clase = "importar", !.fase = "lista", !.doc = c,
                        !.confirma = confirma, !.cuit = empresa.cuit,
                        !.lista = IF disponible THEN arca ELSE <<>>]]
    /\ UNCHANGED <<Fila, Entorno, candado, frontera>>

LeerPuntos(p) ==
    /\ ped[p].fase = "lista"
    /\ ped' = [ped EXCEPT ![p].copia = punto,
                          ![p].fase = IF ped[p].confirma THEN "frontera" ELSE "altas"]
    /\ UNCHANGED <<Fila, Entorno, candado, frontera, sucesos>>

(* Fault: the CUIT is not read again under the lock. *)
AutoridadSinCuit(p) == Administrador[p] \in empresa.admins

(* Fault: the administrator is not read again under the lock. *)
AutoridadDelInicio(p) == empresa.cuit = ped[p].cuit

(* bloquear_frontera_atestacion_productiva: the administrator and then the *)
(* issuer FOR UPDATE, both read again.  A transaction that has inserted    *)
(* points holds the issuer's row FOR KEY SHARE until its end.              *)
AutoridadVigente(p) ==
    /\ Administrador[p] \in empresa.admins
    /\ empresa.cuit = ped[p].cuit

TomarFrontera(p) ==
    /\ ped[p].fase = "frontera"
    /\ frontera = Nadie
    /\ \A q \in Pedidos : ped[q].alta = {}
    /\ IF AutoridadVigente(p)
       THEN /\ frontera' = p
            /\ ped' = [ped EXCEPT ![p].fase = "altas"]
            /\ UNCHANGED <<Fila, candado>>
       ELSE Rechazar(p)
    /\ UNCHANGED <<Entorno, sucesos>>

NumerosActuales == {punto[pt].numero : pt \in Existentes}

(* The new points are inserted, uncommitted: a number another transaction  *)
(* is inserting makes this one wait, one already there ends it.  Then      *)
(* atestiguar_constancia_productiva looks at the document's age again.     *)
InsertarAltas(p) ==
    /\ ped[p].fase = "altas"
    /\ Nuevos(p) # {} => EmpresaReferible(p)
    /\ \A q \in Pedidos \ {p} : ped[q].alta \cap Nuevos(p) = {}
    /\ IF Nuevos(p) \cap NumerosActuales # {} \/ (ped[p].confirma /\ ~Fresca(ped[p].doc))
       THEN Rechazar(p)
       ELSE /\ ped' = [ped EXCEPT ![p].fase = "espera", ![p].alta = Nuevos(p),
                                  ![p].faltan = Tocados(p)]
            /\ UNCHANGED <<Fila, candado, frontera>>
    /\ UNCHANGED <<Entorno, sucesos>>

(* The asyncio locks of the batch, in ascending id. *)
TomarCandado(p) ==
    /\ ped[p].fase \in {"espera", "capturar", "reservar"} /\ ped[p].faltan # {}
    /\ LET pt == Min(ped[p].faltan) IN
        /\ candado[pt] = Nadie
        /\ candado' = [candado EXCEPT ![pt] = p]
        /\ ped' = [ped EXCEPT ![p].faltan = @ \ {pt}]
    /\ UNCHANGED <<Fila, Entorno, frontera, sucesos>>

-----------------------------------------------------------------------------
(* The transaction of a batch: aplicar_cambios_puntos_atomicos,            *)
(* aplicar_cambios_punto and the body of atestiguar_constancia_productiva  *)

(* Fault: the write does not compare revision_fiscal. *)
RevisionSinCas(p, pt) == punto[pt].rev > 0

RevisionVigente(p, pt) == punto[pt].rev = ped[p].copia[pt].rev

(* Fault: guards are not looked at. *)
PrevalidadoSinGuarda(p) == \A pt \in Exigidos(p) : RevisionVigente(p, pt)

Prevalidado(p) ==
    \A pt \in Exigidos(p) : RevisionVigente(p, pt) /\ ~GuardaActiva(pt)

FechasPrevias(pt) == {libro[pt][i].dia : i \in DOMAIN libro[pt]}
(* Fault: any fresh document is accepted, whatever was processed before. *)
DocumentoSinOrden(p) == ped[p].confirma => ped[p].doc.completa

DocumentoVigente(p) ==
    ped[p].confirma =>
        \A pt \in Exigidos(p) : \A d \in FechasPrevias(pt) : ped[p].doc.dia >= d

(* uq_puntos_venta_empresa_numero, for an edition of the number. *)
NumeroLibre(p) ==
    ped[p].clase = "editar" =>
        \A q \in Existentes \ {ped[p].pt} : punto[q].numero # Destino(p, ped[p].pt).numero

NumeroPendiente(p) ==
    ped[p].clase = "editar" /\ \E q \in Pedidos : Destino(p, ped[p].pt).numero \in ped[q].alta

(* Ids of the new rows, in the order of their numbers. *)
IdsLibres == Puntos \ Existentes
IdDe(p, n) == Cardinality(Existentes) + Cardinality({m \in ped[p].alta : m <= n})
NumeroDe(p, pt) == CHOOSE n \in ped[p].alta : IdDe(p, n) = pt
Creados(p) == {IdDe(p, n) : n \in ped[p].alta}

Atestada(p, rev, fila) ==
    Revision(IF EnDocumento(p, fila.numero) /\ ped[p].doc.filas[fila.numero] = "rece"
             THEN "verificado_rece" ELSE "no_verificado",
             rev, ped[p].doc.dia, ped[p].cuit, fila.numero)

FilaFinal(p, pt) ==
    IF pt \in Creados(p)
    THEN [FilaNueva(p, NumeroDe(p, pt)) EXCEPT !.rev = IF ped[p].confirma THEN 2 ELSE 1]
    ELSE [Destino(p, pt) EXCEPT !.rev = ped[p].copia[pt].rev + 1]

LibroPrevio(p, pt) == IF pt \in Creados(p) THEN <<NoVerificada(1)>> ELSE libro[pt]

LibroFinal(p, pt) ==
    LET fila == FilaFinal(p, pt) IN
    IF ped[p].confirma THEN Append(LibroPrevio(p, pt), Atestada(p, fila.rev, fila))
    ELSE IF pt \in Creados(p) \/ SoloBloqueoTransitorio(p, pt) THEN LibroPrevio(p, pt)
    ELSE Append(libro[pt], NoVerificada(fila.rev))

(* History, from the rows alone: attested, only blocked since then, or     *)
(* touched in any other way.                                               *)
Suceso(p, pt) ==
    IF ped[p].confirma THEN "atestado"
    ELSE IF /\ dictamen[pt] # "tocado" /\ ~punto[pt].baja
            /\ Fisco(FilaFinal(p, pt)) = [Fisco(punto[pt]) EXCEPT !.bloqueado = TRUE]
         THEN "bloqueado"
    ELSE "tocado"

Escritos(p) == Exigidos(p) \cup Creados(p)

Cota(p) ==
    /\ Cardinality(ped[p].alta) <= Cardinality(IdsLibres)
    /\ \A pt \in Exigidos(p) : punto[pt].rev < MaxRevision

Aplicar(p) ==
    /\ ped[p].fase = "espera" /\ ped[p].faltan = {}
    /\ Cota(p)
    /\ Escritos(p) # {} => UsuarioReferible(p)
    /\ ~NumeroPendiente(p)
    /\ Prevalidado(p) /\ DocumentoVigente(p) /\ NumeroLibre(p)
    /\ punto' = [pt \in Puntos |-> IF pt \in Escritos(p) THEN FilaFinal(p, pt) ELSE punto[pt]]
    /\ libro' = [pt \in Puntos |-> IF pt \in Escritos(p) THEN LibroFinal(p, pt) ELSE libro[pt]]
    /\ dictamen' = [pt \in Puntos |-> IF pt \in Escritos(p) THEN Suceso(p, pt) ELSE dictamen[pt]]
    /\ Soltar(p)
    /\ UNCHANGED <<guarda, Entorno, sucesos>>

Conflicto(p) ==
    /\ ped[p].fase = "espera" /\ ped[p].faltan = {}
    /\ ~(Prevalidado(p) /\ DocumentoVigente(p) /\ NumeroLibre(p))
    /\ Rechazar(p)
    /\ UNCHANGED <<Entorno, sucesos>>

(* POST /puntos-venta: no lock, one insert. *)
CrearPunto(p) ==
    /\ Contar
    /\ Libre(p) /\ EsAdmin(p) /\ "editar" \in Clases
    /\ EmpresaReferible(p)
    /\ IdsLibres # {}
    /\ \E n \in Numeros \ NumerosActuales, s \in Sistemas :
          /\ \A q \in Pedidos : n \notin ped[q].alta
          /\ LET pt == Min(IdsLibres) IN
              /\ punto' = [punto EXCEPT ![pt] = [SinFila EXCEPT
                              !.rev = 1, !.numero = n, !.activo = TRUE, !.sistema = s]]
              /\ libro' = [libro EXCEPT ![pt] = <<NoVerificada(1)>>]
    /\ UNCHANGED <<guarda, dictamen, Entorno, ped, candado, frontera>>

-----------------------------------------------------------------------------
(* An emission, as far as the points are concerned; the rest of it is      *)
(* EmisionIndividual                                                       *)

Emitir(p) ==
    /\ Contar
    /\ Libre(p) /\ "emitir" \in Clases /\ empresa.certificado
    /\ \E pt \in Existentes :
          ped' = [ped EXCEPT ![p] = [Ocioso EXCEPT
                     !.clase = "emitir", !.fase = "capturar", !.pt = pt, !.faltan = {pt}]]
    /\ UNCHANGED <<Fila, Entorno, candado, frontera>>

SoltarCandado(p, pt) == candado' = [candado EXCEPT ![pt] = Nadie]

(* The operation is created with the context of the point; then ARCA is    *)
(* asked for the number without any lock.                                  *)
Capturar(p) ==
    LET pt == ped[p].pt IN
    /\ ped[p].fase = "capturar" /\ ped[p].faltan = {}
    /\ IF Emitible(pt)
       THEN /\ EmpresaReferible(p)
            /\ SoltarCandado(p, pt)
            /\ ped' = [ped EXCEPT ![p].fase = "reservar", ![p].faltan = {pt},
                                  ![p].ctx = Contexto(pt)]
            /\ UNCHANGED <<Fila, frontera>>
       ELSE Rechazar(p)
    /\ UNCHANGED <<Entorno, sucesos>>

ContextoIntacto(p) == Emitible(ped[p].pt) /\ Contexto(ped[p].pt) = ped[p].ctx

(* Guard and attempt in one transaction, under the lock. *)
Reservar(p) ==
    LET pt == ped[p].pt IN
    /\ ped[p].fase = "reservar" /\ ped[p].faltan = {}
    /\ IF ContextoIntacto(p) /\ ~GuardaActiva(pt)
       THEN /\ EmpresaReferible(p)
            /\ SoltarCandado(p, pt)
            /\ guarda' = [guarda EXCEPT ![pt] = [fase |-> "pre_arca", ctx |-> ped[p].ctx,
                                                 quien |-> p]]
            /\ ped' = [ped EXCEPT ![p].fase = "reservado"]
            /\ UNCHANGED <<punto, libro, dictamen, frontera>>
       ELSE Rechazar(p)
    /\ UNCHANGED <<Entorno, sucesos>>

MarcarArcaIniciada(p) ==
    LET pt == ped[p].pt IN
    /\ ped[p].fase = "reservado"
    /\ IF ContextoIntacto(p)
       THEN /\ guarda' = [guarda EXCEPT ![pt].fase = "arca_iniciada"]
            /\ ped' = [ped EXCEPT ![p].fase = "enviado"]
            /\ UNCHANGED <<candado, frontera>>
       ELSE guarda' = [guarda EXCEPT ![pt] = SinGuarda] /\ Soltar(p)
    /\ UNCHANGED <<punto, libro, dictamen, Entorno, sucesos>>

(* A closed guard inmobilises nothing, so its row is forgotten. *)
Terminar(p) ==
    LET pt == ped[p].pt IN
    /\ ped[p].fase = "enviado"
    /\ \/ guarda' = [guarda EXCEPT ![pt] = SinGuarda]
       \/ guarda' = [guarda EXCEPT ![pt].fase = "requiere_reconciliacion", ![pt].quien = Nadie]
    /\ Soltar(p)
    /\ UNCHANGED <<punto, libro, dictamen, Entorno, sucesos>>

(* The recovery or the reconciliation closes a guard left behind. *)
CerrarGuarda(pt) ==
    /\ GuardaActiva(pt) /\ guarda[pt].quien = Nadie
    /\ guarda' = [guarda EXCEPT ![pt] = SinGuarda]
    /\ UNCHANGED <<punto, libro, dictamen, Entorno, ped, candado, frontera, sucesos>>

(* The database or the process fails: the transaction is undone, the locks *)
(* are released, a guard that was committed stays.  (A request that holds  *)
(* nothing yet leaves nothing behind.)                                     *)
RetieneAlgo(p) ==
    \/ ped[p].alta # {} \/ frontera = p \/ \E pt \in Puntos : candado[pt] = p
    \/ ped[p].fase \in {"reservado", "enviado"}

Abortar(p) ==
    /\ RetieneAlgo(p)
    /\ guarda' = [pt \in Puntos |->
                     IF guarda[pt].quien = p THEN [guarda[pt] EXCEPT !.quien = Nadie] ELSE guarda[pt]]
    /\ Soltar(p)
    /\ UNCHANGED <<punto, libro, dictamen, Entorno, sucesos>>

-----------------------------------------------------------------------------
(* What moves around them *)

(* update_empresa: under the row's lock, only while nothing depends on it. *)
CambiarCuit ==
    /\ Contar
    /\ frontera = Nadie /\ \A q \in Pedidos : ped[q].alta = {}
    /\ Existentes = {} /\ ~empresa.certificado
    /\ \E c \in Cuits \ {empresa.cuit} : empresa' = [empresa EXCEPT !.cuit = c]
    /\ UNCHANGED <<Fila, hoy, arca, ped, candado, frontera>>

(* update_usuario: another administrator takes the rights away. *)
Degradar ==
    /\ Contar
    /\ \E a \in empresa.admins :
          /\ empresa.admins # {a}
          /\ frontera # Nadie => Administrador[frontera] # a
          /\ empresa' = [empresa EXCEPT !.admins = @ \ {a}]
    /\ UNCHANGED <<Fila, hoy, arca, ped, candado, frontera>>

PasarDia ==
    /\ hoy < MaxDia
    /\ hoy' = hoy + 1
    /\ UNCHANGED <<Fila, empresa, arca, ped, candado, frontera, sucesos>>

ArcaCambia ==
    /\ Contar
    /\ arca' \in EstadosArca \ {arca}
    /\ UNCHANGED <<Fila, empresa, hoy, ped, candado, frontera>>

(* The second day.  No point yet; or point 1 attested the day before and   *)
(* point 2 created by hand.                                                *)
Acreditado(c) ==
    /\ punto = [pt \in Puntos |->
                   IF pt = 1 THEN [SinFila EXCEPT !.rev = 2, !.numero = 1, !.activo = TRUE,
                                                  !.sistema = "rece"]
                   ELSE IF pt = 2 THEN [SinFila EXCEPT !.rev = 1, !.numero = 2, !.activo = TRUE,
                                                       !.sistema = "ws"]
                   ELSE SinFila]
    /\ libro = [pt \in Puntos |->
                   IF pt = 1 THEN <<NoVerificada(1), Revision("verificado_rece", 2, 1, c, 1)>>
                   ELSE IF pt = 2 THEN <<NoVerificada(1)>> ELSE <<>>]
    /\ dictamen = [pt \in Puntos |-> IF pt = 1 THEN "atestado" ELSE "tocado"]

Vacio ==
    /\ punto = [pt \in Puntos |-> SinFila]
    /\ libro = [pt \in Puntos |-> <<>>]
    /\ dictamen = [pt \in Puntos |-> "tocado"]

Init ==
    /\ empresa \in [cuit : Cuits, admins : {{Administrador[p] : p \in Pedidos}},
                    certificado : BOOLEAN]
    /\ \/ "vacio" \in Escenarios /\ Vacio
       \/ "acreditado" \in Escenarios /\ empresa.certificado /\ Acreditado(empresa.cuit)
    /\ guarda = [pt \in Puntos |-> SinGuarda]
    /\ hoy = 2
    /\ arca \in EstadosArca
    /\ ped = [p \in Pedidos |-> Ocioso]
    /\ candado = [pt \in Puntos |-> Nadie]
    /\ frontera = Nadie
    /\ sucesos = 0

Next ==
    \/ \E p \in Pedidos :
          \/ Editar(p) \/ Sincronizar(p) \/ Importar(p) \/ LeerPuntos(p)
          \/ TomarFrontera(p) \/ InsertarAltas(p) \/ TomarCandado(p)
          \/ Aplicar(p) \/ Conflicto(p) \/ CrearPunto(p)
          \/ Emitir(p) \/ Capturar(p) \/ Reservar(p) \/ MarcarArcaIniciada(p)
          \/ Terminar(p) \/ Abortar(p)
    \/ \E pt \in Puntos : CerrarGuarda(pt)
    \/ CambiarCuit \/ Degradar \/ PasarDia \/ ArcaCambia

Spec == Init /\ [][Next]_vars

-----------------------------------------------------------------------------
(* Properties *)

EstadosRece == {"verificado_rece", "no_verificado"}

(* Rows, ledger and locks keep their shape; a point and its ledger are     *)
(* born together; a lock and the issuer's rows are only held by a request  *)
(* that is doing something.                                                *)
TypeOK ==
    /\ \A pt \in Puntos :
          /\ punto[pt].rev \in 0..MaxRevision /\ Fisco(punto[pt]) \in Campos
          /\ Existe(pt) <=> libro[pt] # <<>>
          /\ \A i \in DOMAIN libro[pt] : libro[pt][i].estado \in EstadosRece
          /\ guarda[pt].fase \in Activas \cup {"ninguna"}
          /\ candado[pt] # Nadie => candado[pt] \in Pedidos /\ ~Libre(candado[pt])
    /\ empresa.cuit \in Cuits /\ empresa.admins # {}
    /\ hoy \in 1..MaxDia /\ arca \in EstadosArca
    /\ frontera # Nadie => ped[frontera].confirma
    /\ \A pt, qt \in Existentes : punto[pt].numero = punto[qt].numero => pt = qt

(* "Mutación durante guarda activa: 409, sin cambiar cabeza ni evidencia": *)
(* whoever edits, synchronises or attests, an active guard keeps naming    *)
(* the current revision of its point and the head of its ledger.           *)
GuardaAlDia ==
    \A pt \in Puntos : GuardaActiva(pt) => guarda[pt].ctx = Contexto(pt)

(* The rows keep their shape and the guards their context.                 *)
PuntosCoherentes == TypeOK /\ GuardaAlDia

(* "Cambiar y restaurar un punto no revive una confirmación anterior": a   *)
(* point touched since its attestation has a head that is not positive,    *)
(* and one that was only blocked cannot emit.                              *)
CambioCierra ==
    \A pt \in Existentes :
        /\ dictamen[pt] = "tocado" => Cabeza(pt).estado = "no_verificado"
        /\ dictamen[pt] = "bloqueado" => ~Emitible(pt)

(* "Ningún desenlace mezcla evidencia de una identidad obsoleta": a        *)
(* positive head belongs to the issuer's current CUIT and to the number    *)
(* and system its point has.                                               *)
EvidenciaFiel ==
    \A pt \in Existentes :
        Cabeza(pt).estado = "verificado_rece" =>
            /\ Cabeza(pt).cuit = empresa.cuit
            /\ Cabeza(pt).numero = punto[pt].numero
            /\ punto[pt].sistema = "rece"

(* An older constancia, imported late or twice, never becomes the          *)
(* authority after a newer one.                                            *)
DocumentosEnOrden ==
    \A pt \in Puntos : \A i, j \in DOMAIN libro[pt] :
        i < j /\ libro[pt][j].dia # NoDia => libro[pt][i].dia <= libro[pt][j].dia

(* A positive head stands for the issuer and the point as they are, and    *)
(* for the newest constancia.                                              *)
EvidenciaVeraz == CambioCierra /\ EvidenciaFiel /\ DocumentosEnOrden

(* Evidence is published under an authority that is still valid: by an     *)
(* administrator who has not lost the role since the request began.        *)
AutoridadAlPublicar ==
    [][\A pt \in Puntos :
          /\ Len(libro'[pt]) > Len(libro[pt])
          /\ libro'[pt][Len(libro'[pt])].estado = "verificado_rece"
          => frontera # Nadie /\ Administrador[frontera] \in empresa.admins]_vars

(* "Dos escrituras concurrentes no pueden crear la misma revisión ni       *)
(* perder una invalidación": a point that changes moves to the next        *)
(* revision and its ledger only grows.                                     *)
RevisionAvanza ==
    [][\A pt \in Existentes :
          /\ punto'[pt] # punto[pt] => punto'[pt].rev = punto[pt].rev + 1
          /\ Len(libro'[pt]) >= Len(libro[pt])
          /\ SubSeq(libro'[pt], 1, Len(libro[pt])) = libro[pt]]_vars

(* The ledger grows in order, and by authority.                            *)
LibroFiel == RevisionAvanza /\ AutoridadAlPublicar

(* FECAE leaves only for a point that nobody has touched since an          *)
(* attestation whose document is not older than Vigencia that day.         *)
EnvioAcreditado ==
    [][\A pt \in Puntos :
          guarda'[pt].fase = "arca_iniciada" /\ guarda[pt].fase # "arca_iniciada" =>
              dictamen[pt] = "atestado" /\ hoy - Cabeza(pt).dia <= Vigencia]_vars

(* "Dos importaciones concurrentes: revisiones distintas serializadas o un *)
(* 409": two imports never wait for each other, one for the asyncio lock   *)
(* of a point and the other for the row of the administrator.  The code    *)
(* does not keep it (README, section 5).                                   *)
EsperaCandado(p, q) ==
    ped[p].fase = "espera" /\ ped[p].faltan # {} /\ candado[Min(ped[p].faltan)] = q
EsperaUsuario(p, q) ==
    /\ ped[p].fase = "espera" /\ ped[p].faltan = {} /\ Escritos(p) # {}
    /\ Prevalidado(p) /\ frontera = q /\ ~UsuarioReferible(p)
ImportacionesResponden ==
    ~\E p, q \in Pedidos :
        /\ ped[p].clase = "importar" /\ ped[q].clase = "importar"
        /\ EsperaCandado(p, q) /\ EsperaUsuario(q, p)

=============================================================================
