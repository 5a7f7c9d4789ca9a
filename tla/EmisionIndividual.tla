--------------------------- MODULE EmisionIndividual ---------------------------
(****************************************************************************)
(* Emission of one electronic invoice through POST /comprobantes/emitir:    *)
(* the durable idempotent operation of a client key, the fiscal attempt     *)
(* ("intento") with its RECE guard ("guarda"), the reservation of a number, *)
(* the single FECAESolicitar call to ARCA and the publication of the        *)
(* stored response.                                                         *)
(*                                                                          *)
(* One company and one point of sale are modelled: locks, guards, RECE      *)
(* context and numbering of different points share nothing.  Every action   *)
(* is one database transaction or one ARCA call of one HTTP request; what a *)
(* request has flushed but not committed stays in sol[r].pend, invisible to *)
(* the others, until the commit of its publication.                         *)
(*                                                                          *)
(* A request reserves at most once, so the intento and guarda rows it       *)
(* creates (one transaction, one guard per intento) are named by it.        *)
(****************************************************************************)
EXTENDS Integers, FiniteSets

CONSTANTS
    Solicitudes,   \* HTTP requests, retries and double clicks included
    Claves,        \* values of X-Idempotency-Key
    Payloads,      \* fiscal payloads, duplicate confirmation excluded
    Tipos,         \* tipos de comprobante: each one has its own numbering
    ClaveDe,       \* [Solicitudes -> Claves]
    PayloadDe,     \* [Solicitudes -> Payloads]
    TipoDe,        \* [Payloads -> Tipos]
    Confirma,      \* [Solicitudes -> BOOLEAN]: confirmacion_duplicado_logico
    ColaLarga,     \* TRUE if a request may outlive fiscal_attempt_stale_minutes,
                   \* e.g. queued behind a lote that holds the numbering lock
    PostgreSQL,    \* TRUE if SELECT ... FOR UPDATE locks rows (SQLite ignores it)
    Nadie,         \* owner of a free lock
    MaxRev,        \* bound: fiscal revisions of the point of sale
    MaxExterno,    \* bound: last ARCA number another system may reach
    MaxFallas,     \* bound: database outages
    MaxCaidas      \* bound: restarts of the API process

ASSUME SolicitudesAssumption ==
    /\ IsFiniteSet(Solicitudes) /\ Payloads # {}
    /\ Nadie \notin Solicitudes
    /\ ClaveDe \in [Solicitudes -> Claves]
    /\ PayloadDe \in [Solicitudes -> Payloads]
    /\ TipoDe \in [Payloads -> Tipos]
    /\ Confirma \in [Solicitudes -> BOOLEAN]
    /\ PostgreSQL \in BOOLEAN /\ ColaLarga \in BOOLEAN

ASSUME CotasAssumption ==
    /\ MaxRev \in Nat
    /\ MaxExterno \in Nat
    /\ MaxFallas \in Nat
    /\ MaxCaidas \in Nat

VARIABLES
    op,            \* operaciones_idempotentes, by key
    intento,       \* intentos_emision_fiscal with their guarda, by request
    comprobantes,  \* requests whose comprobante is committed
    rece,          \* RECE head of the point: revision and whether it is in force
    ultimo,        \* ARCA: last authorised number of each tipo
    arca,          \* ARCA: fate of the FECAESolicitar of each request
    sol,           \* in-memory state of each HTTP request
    cerrojo,       \* in-process asyncio lock of each tipo
    filaPunto,     \* request holding the point's row lock between transactions
    fallas,        \* database outages so far
    caidas         \* restarts so far

db     == <<op, intento, comprobantes>>
fisco  == <<ultimo, arca>>
memoria == <<sol, cerrojo, filaPunto>>
cotas  == <<fallas, caidas>>
vars   == <<op, intento, comprobantes, rece, ultimo, arca, sol, cerrojo,
            filaPunto, fallas, caidas>>

----------------------------------------------------------------------------
(* Vocabulary of the tables and of the responses.                           *)

EstadosOperacion ==
    {"inexistente", "en_proceso", "interrumpida_pre_arca", "finalizado",
     "fallido", "rechazado_arca", "requiere_reconciliacion",
     "requiere_confirmacion_duplicado"}

EstadosIntento ==
    {"inexistente", "en_proceso", "autorizado", "fallido_verificado",
     "rechazado_arca", "requiere_reconciliacion"}

EstadosReservaActiva == {"autorizado", "en_proceso", "requiere_reconciliacion"}
EstadosBloqueantes   == {"en_proceso", "requiere_reconciliacion"}

FasesGuarda ==
    {"ninguna", "pre_arca", "arca_iniciada", "requiere_reconciliacion",
     "cerrada_pre_arca", "cerrada_terminal"}
FasesActivas == {"pre_arca", "arca_iniciada", "requiere_reconciliacion"}

\* Classes of EmitirComprobanteResponse that an operation stores.
ClasesDurables ==
    {"exito", "fallido", "duplicado", "rechazo_global", "reconciliacion"}

\* Answers that are only sent: conflicts and errors that store nothing.
\* "reintentable" is a 503 with Retry-After, whoever sends it.
ClasesHttp ==
    {"ninguna", "en_proceso", "conflicto", "elegibilidad", "no_recuperable",
     "reintentable", "bloqueado", "post_arca", "error", "cortada"}

Respuestas == [clase : ClasesDurables \cup ClasesHttp, num : Nat]
Resp(c, n) == [clase |-> c, num |-> n]
SinRespuesta == Resp("ninguna", 0)

\* What a request has flushed for its own intento and guarda.
Pendientes ==
    {"nada", "autorizado", "rechazado", "rechazo_global", "reconciliacion",
     "cerrada_pre_arca"}

Pasos ==
    {"inicio", "crear", "recuperar_creacion", "reclamar", "confirmar",
     "incompleta", "candidata", "emitir", "validar", "diagnosticar", "ultimo",
     "reservar", "preflight", "marcar", "solicitar", "esperar", "publicar",
     "recuperar", "fin"}

\* _estado_operacion_desde_resultado
EstadoDesde(c) ==
    CASE c = "exito"          -> "finalizado"
      [] c = "duplicado"      -> "requiere_confirmacion_duplicado"
      [] c = "rechazo_global" -> "rechazado_arca"
      [] c = "reconciliacion" -> "requiere_reconciliacion"
      [] OTHER                -> "fallido"

K(r) == ClaveDe[r]
T(r) == TipoDe[PayloadDe[r]]

Existe(i) == intento[i].estado # "inexistente"
Activa(i) == intento[i].fase \in FasesActivas
IntentosDe(k) == {i \in Solicitudes : Existe(i) /\ intento[i].op = k}

----------------------------------------------------------------------------
(* RECE context.  A context is the pair (eligibility revision, fiscal       *)
(* revision) of the point; both move together, so it is one number.         *)

\* exigir_contexto_preautorizacion: the head is verified, in force and current
ContextoVigente == rece.vigente

\* validar_operacion_para_continuar: the operation's snapshot is that context
OperacionContinua(k) == rece.vigente /\ op[k].rev = rece.rev

\* SELECT ... FOR UPDATE of the point waits for a transaction that holds it
FilaLibre(r) == PostgreSQL => filaPunto \in {Nadie, r}

\* Rows flushed and not committed by another request of the same operation
GrafoTomado(k, r) ==
    /\ PostgreSQL
    /\ \E s \in Solicitudes \ {r} :
          K(s) = k /\ sol[s].pc = "publicar" /\ sol[s].pend # "nada"

\* ... and the operation row itself, locked by _inmovilizar_grafo_reconciliacion
OperacionTomada(k, r) ==
    /\ PostgreSQL
    /\ \E s \in Solicitudes \ {r} :
          K(s) = k /\ sol[s].pc = "publicar" /\ sol[s].pend = "reconciliacion"

----------------------------------------------------------------------------
(* Numbering and duplicates.                                                *)

NumerosLocales(t) ==
    {0} \cup {intento[i].num : i \in {j \in comprobantes : intento[j].tipo = t}}

\* existe_intento_bloqueante
IntentoBloqueante(t) ==
    \E i \in Solicitudes :
        intento[i].tipo = t /\ intento[i].estado \in EstadosBloqueantes

\* buscar_duplicado_logico: a committed comprobante of the same payload
Duplicados(r) ==
    {i \in comprobantes : PayloadDe[i] = PayloadDe[r]}

----------------------------------------------------------------------------
(* validar_replay_individual_durable: the graph a stored response needs.    *)

ReplaySinReserva(k, resp) ==
    \/ resp.clase = "fallido"
    \/ /\ resp.clase = "duplicado"
       /\ \E c \in comprobantes :
             intento[c].num = resp.num /\ intento[c].tipo = TipoDe[op[k].payload]

ReplayConIntento(i, resp) ==
    /\ intento[i].num = resp.num
    /\ CASE resp.clase = "exito" ->
              /\ intento[i].estado = "autorizado"
              /\ intento[i].fase = "cerrada_terminal"
              /\ i \in comprobantes
         [] resp.clase = "rechazo_global" ->
              /\ intento[i].estado = "rechazado_arca"
              /\ intento[i].fase = "cerrada_terminal"
         [] resp.clase = "reconciliacion" ->
              /\ intento[i].estado = "requiere_reconciliacion"
              /\ intento[i].fase = "requiere_reconciliacion"
         [] resp.clase = "fallido" ->
              /\ intento[i].estado \in {"fallido_verificado", "rechazado_arca"}
              /\ intento[i].fase \in {"cerrada_pre_arca", "cerrada_terminal"}
         [] OTHER -> FALSE

GrafoTerminal(k, resp) ==
    \E i \in IntentosDe(k) : IntentosDe(k) = {i} /\ ReplayConIntento(i, resp)

ReplayValido(k, resp) ==
    /\ op[k].resp = resp
    /\ op[k].estado = EstadoDesde(resp.clase)
    /\ \/ IntentosDe(k) = {} /\ ReplaySinReserva(k, resp)
       \/ GrafoTerminal(k, resp)

CandidataValida(k, resp) ==
    /\ op[k].resp = SinRespuesta
    /\ op[k].estado \in {"en_proceso", "requiere_reconciliacion"}
    /\ GrafoTerminal(k, resp)

\* The answer to a replay: the stored response, or 409 if its graph is broken
RespuestaReplay(k) ==
    IF ReplayValido(k, op[k].resp) THEN op[k].resp
                                   ELSE Resp("no_recuperable", 0)

----------------------------------------------------------------------------
SinOperacion ==
    [estado |-> "inexistente", resp |-> SinRespuesta, payload |-> CHOOSE p \in Payloads : TRUE,
     rev |-> 0, vieja |-> FALSE]

SinIntento ==
    [op |-> CHOOSE k \in Claves : TRUE, tipo |-> CHOOSE t \in Tipos : TRUE,
     num |-> 0, rev |-> 0, orden |-> 0,
     estado |-> "inexistente", fase |-> "ninguna"]

Init ==
    /\ op = [k \in Claves |-> SinOperacion]
    /\ intento = [r \in Solicitudes |-> SinIntento]
    /\ comprobantes = {}
    /\ rece = [rev |-> 1, vigente |-> TRUE]
    /\ ultimo = [t \in Tipos |-> 0]
    /\ arca = [r \in Solicitudes |-> "no_enviada"]
    /\ sol = [r \in Solicitudes |->
                [pc |-> "inicio", num |-> 0, local |-> 0, confirmada |-> FALSE,
                 pend |-> "nada", resp |-> SinRespuesta]]
    /\ cerrojo = [t \in Tipos |-> Nadie]
    /\ filaPunto = Nadie
    /\ fallas = 0
    /\ caidas = 0

----------------------------------------------------------------------------
(* Steps of a request.                                                      *)

En(r, pc) == sol[r].pc = pc
Ir(r, pc) == sol' = [sol EXCEPT ![r].pc = pc]

\* The HTTP answer is sent and the session is closed: its locks are released
Terminar(r, resp) ==
    /\ sol' = [sol EXCEPT ![r].pc = "fin", ![r].pend = "nada", ![r].resp = resp]
    /\ filaPunto' = IF filaPunto = r THEN Nadie ELSE filaPunto

\* Mutant of Devolver: the asyncio lock is not released
DevolverConCerrojo(r, pend, resp) ==
    /\ sol' = [sol EXCEPT ![r].pc = "publicar", ![r].pend = pend, ![r].resp = resp]
    /\ UNCHANGED cerrojo

\* _emitir_comprobante_locked returns: the asyncio lock is released before the
\* caller publishes and commits (commit=False)
Devolver(r, pend, resp) ==
    /\ sol' = [sol EXCEPT ![r].pc = "publicar", ![r].pend = pend, ![r].resp = resp]
    /\ cerrojo' = [cerrojo EXCEPT ![T(r)] = Nadie]

\* A database error leaves emitir_comprobante through its own lock
SaltarA(r, pc) ==
    /\ sol' = [sol EXCEPT ![r].pc = pc]
    /\ cerrojo' = [cerrojo EXCEPT ![T(r)] = Nadie]

Falla == fallas < MaxFallas /\ fallas' = fallas + 1 /\ UNCHANGED caidas
SinFalla == UNCHANGED cotas

\* A database error outside the try of the emission reaches the handler of the
\* application, which answers any of them 503 with Retry-After
FallaSinCapturar(r) == Falla /\ Terminar(r, Resp("reintentable", 0))

CerrarGuarda(i, estado, fase) ==
    [intento EXCEPT ![i].estado = estado, ![i].fase = fase]

----------------------------------------------------------------------------
(* Resolution of the key: replay, wait, claim or create.                    *)

\* Where an existing operation of the same payload sends the request
Destino(r) ==
    LET o == op[K(r)] IN
    IF o.estado = "interrumpida_pre_arca" THEN "reclamar"
    ELSE IF o.resp = SinRespuesta THEN "incompleta"
    ELSE IF o.resp.clase = "duplicado" /\ Confirma[r] THEN "confirmar"
    ELSE "fin"

\* fila: who holds the point's row once this transaction is over
Seguir(r, fila) ==
    IF Destino(r) = "fin"
    THEN Terminar(r, RespuestaReplay(K(r)))
    ELSE Ir(r, Destino(r)) /\ filaPunto' = fila

FilaSoltada(r) == IF filaPunto = r THEN Nadie ELSE filaPunto

\* Mutant of OtroPayload: the payload hash is not compared
OtroPayloadIgnorado(r) == FALSE

\* The key exists with another payload hash
OtroPayload(r) ==
    op[K(r)].estado # "inexistente" /\ op[K(r)].payload # PayloadDe[r]

MismaOperacion(r) ==
    op[K(r)].estado # "inexistente" /\ ~OtroPayload(r)

LeerOperacion(r) ==
    /\ En(r, "inicio")
    /\ \/ /\ op[K(r)].estado = "inexistente" /\ SinFalla
          /\ Ir(r, "crear") /\ UNCHANGED filaPunto
       \/ OtroPayload(r) /\ Terminar(r, Resp("conflicto", 0)) /\ SinFalla
       \/ MismaOperacion(r) /\ Seguir(r, filaPunto) /\ SinFalla
       \/ FallaSinCapturar(r)
    /\ UNCHANGED <<db, rece, fisco, cerrojo>>

OperacionNueva(r) ==
    [estado |-> "en_proceso", resp |-> SinRespuesta, payload |-> PayloadDe[r],
     rev |-> rece.rev, vieja |-> FALSE]

CrearOperacion(r) ==
    /\ En(r, "crear") /\ FilaLibre(r)
    /\ ContextoVigente /\ op[K(r)].estado = "inexistente"
    /\ \/ /\ op' = [op EXCEPT ![K(r)] = OperacionNueva(r)]
          /\ Ir(r, "emitir") /\ SinFalla
       \/ \* CreacionOperacionAmbiguaError: the commit may have happened
          /\ Falla
          /\ op' \in {op, [op EXCEPT ![K(r)] = OperacionNueva(r)]}
          /\ Ir(r, "recuperar_creacion")
    /\ UNCHANGED <<intento, comprobantes, rece, fisco, cerrojo, filaPunto>>

\* The key exists by now, or the point may not issue: nothing is created.  The
\* transaction that locked the point stays open while the request goes on.
NoCrearOperacion(r) ==
    /\ En(r, "crear") /\ FilaLibre(r)
    /\ \/ ~ContextoVigente /\ Terminar(r, Resp("elegibilidad", 0)) /\ SinFalla
       \/ /\ ContextoVigente /\ OtroPayload(r) /\ SinFalla
          /\ Terminar(r, Resp("conflicto", 0))
       \/ /\ ContextoVigente /\ MismaOperacion(r) /\ SinFalla
          /\ IF OperacionContinua(K(r))
             THEN Seguir(r, IF PostgreSQL THEN r ELSE filaPunto)
             ELSE Terminar(r, Resp("elegibilidad", 0))
       \/ FallaSinCapturar(r)
    /\ UNCHANGED <<db, rece, fisco, cerrojo>>

\* recuperar_creacion_ambigua_pre_arca: by identity, and only without intentos
RecuperarCreacion(r) ==
    /\ En(r, "recuperar_creacion")
    /\ LET o == op[K(r)]
           mia == o.payload = PayloadDe[r] /\ o.resp = SinRespuesta
                  /\ IntentosDe(K(r)) = {}
       IN \/ /\ mia /\ o.estado = "en_proceso"
             /\ op' = [op EXCEPT ![K(r)].estado = "interrumpida_pre_arca"]
             /\ Terminar(r, Resp("reintentable", 0)) /\ SinFalla
          \/ /\ ~(mia /\ o.estado = "en_proceso")
             /\ Terminar(r, Resp(IF mia /\ o.estado = "interrumpida_pre_arca"
                                 THEN "reintentable" ELSE "bloqueado", 0))
             /\ UNCHANGED op /\ SinFalla
          \/ Falla /\ Terminar(r, Resp("bloqueado", 0)) /\ UNCHANGED op
    /\ UNCHANGED <<intento, comprobantes, rece, fisco, cerrojo>>

\* reclamar_operacion_interrumpida_pre_arca
Reclamada(k) == [op EXCEPT ![k].estado = "en_proceso"]
Reclamable(k) ==
    op[k].estado = "interrumpida_pre_arca" /\ op[k].resp = SinRespuesta

Reclamar(r) ==
    /\ En(r, "reclamar") /\ FilaLibre(r) /\ ~OperacionTomada(K(r), r)
    /\ \/ /\ ~OperacionContinua(K(r)) /\ SinFalla
          /\ Terminar(r, Resp("elegibilidad", 0)) /\ UNCHANGED op
       \/ /\ OperacionContinua(K(r)) /\ Reclamable(K(r)) /\ SinFalla
          /\ op' = Reclamada(K(r))
          /\ Ir(r, "emitir") /\ filaPunto' = FilaSoltada(r)
       \/ /\ OperacionContinua(K(r)) /\ ~Reclamable(K(r)) /\ SinFalla
          /\ Seguir(r, FilaSoltada(r)) /\ UNCHANGED op
       \/ /\ OperacionContinua(K(r)) /\ Falla
          /\ op' \in {op} \cup (IF Reclamable(K(r)) THEN {Reclamada(K(r))} ELSE {})
          /\ Terminar(r, Resp("bloqueado", 0))
       \/ \* before the claim, or reading the answer of another one
          FallaSinCapturar(r) /\ UNCHANGED op
    /\ UNCHANGED <<intento, comprobantes, rece, fisco, cerrojo>>

\* Mutant of Confirmable: an UPDATE without compare-and-swap
ConfirmableSinCAS(k) == TRUE

Confirmable(k) == op[k].estado = "requiere_confirmacion_duplicado"

\* marcar_operacion_en_proceso: the user confirmed the logical duplicate
Confirmar(r) ==
    LET k == K(r)
        tomable == Confirmable(k)
        tomada == [op EXCEPT ![k].estado = "en_proceso", ![k].resp = SinRespuesta]
    IN
    /\ En(r, "confirmar") /\ FilaLibre(r) /\ ~OperacionTomada(k, r)
    /\ \/ /\ ~OperacionContinua(k) /\ SinFalla
          /\ Terminar(r, Resp("elegibilidad", 0)) /\ UNCHANGED op
       \/ /\ OperacionContinua(k) /\ tomable /\ SinFalla
          /\ op' = tomada
          /\ sol' = [sol EXCEPT ![r].pc = "emitir", ![r].confirmada = TRUE]
          /\ filaPunto' = FilaSoltada(r)
       \/ /\ OperacionContinua(k) /\ ~tomable /\ SinFalla
          /\ Terminar(r, IF op[k].resp # SinRespuesta THEN RespuestaReplay(k)
                                                      ELSE Resp("en_proceso", 0))
          /\ UNCHANGED op
       \/ /\ FallaSinCapturar(r)
          /\ op' \in {op} \cup (IF OperacionContinua(k) /\ tomable THEN {tomada} ELSE {})
    /\ UNCHANGED <<intento, comprobantes, rece, fisco, cerrojo>>

----------------------------------------------------------------------------
(* resolver_operacion_idempotente_incompleta.                               *)

\* The first intento of the operation (ORDER BY id)
Primero(k, i) ==
    i \in IntentosDe(k) /\ \A j \in IntentosDe(k) : intento[i].orden <= intento[j].orden

\* What the resolver rebuilds from it
Reconstruida(i) ==
    IF intento[i].estado = "autorizado" /\ i \in comprobantes
    THEN Resp("exito", intento[i].num)
    ELSE IF intento[i].estado = "rechazado_arca" /\ arca[i] = "10005"
    THEN Resp("rechazo_global", intento[i].num)
    ELSE Resp("reconciliacion", intento[i].num)

\* A request that finds the operation without response.  A stale operation
\* that never reserved goes on emitting: no CAS, and the point's row stays
\* locked by this request until its first commit.
ResolverIncompleta(r) ==
    LET k == K(r) IN
    /\ En(r, "incompleta") /\ FilaLibre(r) /\ ~GrafoTomado(k, r)
    /\ \/ FallaSinCapturar(r)
       \/ ~OperacionContinua(k) /\ Terminar(r, Resp("elegibilidad", 0)) /\ SinFalla
       \/ /\ OperacionContinua(k) /\ IntentosDe(k) = {} /\ SinFalla
          /\ IF op[k].vieja
             THEN Ir(r, "emitir") /\ filaPunto' = IF PostgreSQL THEN r ELSE filaPunto
             ELSE Terminar(r, Resp("en_proceso", 0))
       \/ /\ OperacionContinua(k) /\ SinFalla
          /\ \E i \in Solicitudes :
               /\ Primero(k, i)
               /\ \/ /\ CandidataValida(k, Reconstruida(i))
                     /\ sol' = [sol EXCEPT ![r].pc = "candidata",
                                           ![r].resp = Reconstruida(i)]
                     /\ filaPunto' = FilaSoltada(r)
                  \/ /\ ~CandidataValida(k, Reconstruida(i))
                     /\ \E c \in {"en_proceso", "no_recuperable"} :
                          /\ c = "en_proceso" => intento[i].estado = "en_proceso"
                          /\ c = "no_recuperable" =>
                                intento[i].estado # "en_proceso" \/ op[k].vieja
                          /\ Terminar(r, Resp(c, 0))
    /\ UNCHANGED <<db, rece, fisco, cerrojo>>

\* guardar_resultado_operacion_sync of the rebuilt response.  A lost CAS raises
\* SQLAlchemyTimeoutError: the same 503 as an outage, before or after the commit.
PublicarCandidata(r) ==
    LET k == K(r)
        c == sol[r].resp.clase
        esperado == IF c = "reconciliacion" THEN "requiere_reconciliacion"
                                            ELSE "en_proceso"
        vacante == op[k].estado = esperado /\ op[k].resp = SinRespuesta
        publicada == [op EXCEPT ![k].estado = EstadoDesde(c), ![k].resp = sol[r].resp]
    IN
    /\ En(r, "candidata") /\ ~OperacionTomada(k, r)
    /\ \/ /\ vacante /\ SinFalla
          /\ op' = publicada /\ Terminar(r, sol[r].resp)
       \/ /\ ~vacante /\ SinFalla
          /\ Terminar(r, Resp("reintentable", 0)) /\ UNCHANGED op
       \/ /\ FallaSinCapturar(r)
          /\ op' \in {op} \cup (IF vacante THEN {publicada} ELSE {})
    /\ UNCHANGED <<intento, comprobantes, rece, fisco, cerrojo>>

----------------------------------------------------------------------------
(* _emitir_comprobante_locked, under the asyncio lock of the tipo.          *)

TomarCerrojo(r) ==
    /\ En(r, "emitir") /\ cerrojo[T(r)] = Nadie
    /\ cerrojo' = [cerrojo EXCEPT ![T(r)] = r]
    /\ Ir(r, "validar")
    /\ UNCHANGED <<db, rece, fisco, filaPunto, cotas>>

\* The database fails before ARCA: emitir_comprobante is left by the exception
FallarPreArca(r) ==
    /\ Falla
    /\ SaltarA(r, "recuperar")
    /\ filaPunto' = FilaSoltada(r)

Validar(r) ==
    /\ En(r, "validar")
    /\ \/ \* invalid data, no certificate, RECE context lost: nothing reserved
          /\ Devolver(r, "nada", Resp("fallido", 0))
          /\ UNCHANGED filaPunto /\ SinFalla
       \/ /\ OperacionContinua(K(r)) /\ ~sol[r].confirmada
          /\ \E d \in Duplicados(r) :
                Devolver(r, "nada", Resp("duplicado", intento[d].num))
          /\ UNCHANGED filaPunto /\ SinFalla
       \/ /\ OperacionContinua(K(r))
          /\ sol[r].confirmada \/ Duplicados(r) = {}
          /\ Ir(r, "diagnosticar") /\ filaPunto' = FilaSoltada(r)
          /\ UNCHANGED cerrojo /\ SinFalla
       \/ FallarPreArca(r)
    /\ UNCHANGED <<db, rece, fisco>>

\* _obtener_diagnostico_numeracion, local half
Diagnosticar(r) ==
    /\ En(r, "diagnosticar")
    /\ \/ /\ ~IntentoBloqueante(T(r))
          /\ \E n \in NumerosLocales(T(r)) :
                /\ \A m \in NumerosLocales(T(r)) : m <= n
                /\ sol' = [sol EXCEPT ![r].pc = "ultimo", ![r].local = n]
          /\ UNCHANGED <<cerrojo, filaPunto>> /\ SinFalla
       \/ \* blocking intento, or WSAA / FEParamGetPtosVenta failed
          /\ Devolver(r, "nada", Resp("fallido", 0))
          /\ UNCHANGED filaPunto /\ SinFalla
       \/ FallarPreArca(r)
    /\ UNCHANGED <<db, rece, fisco>>

\* ... and FECompUltimoAutorizado: next number, or a local history ahead of ARCA
ConsultarUltimo(r) ==
    /\ En(r, "ultimo")
    /\ \/ /\ sol[r].local <= ultimo[T(r)]
          /\ sol' = [sol EXCEPT ![r].pc = "reservar", ![r].num = ultimo[T(r)] + 1]
          /\ UNCHANGED cerrojo
       \/ Devolver(r, "nada", Resp("fallido", 0))
    /\ UNCHANGED <<db, rece, fisco, filaPunto, cotas>>

IntentoNuevo(r) ==
    [op |-> K(r), tipo |-> T(r), num |-> sol[r].num, rev |-> op[K(r)].rev,
     orden |-> Cardinality({i \in Solicitudes : Existe(i)}),
     estado |-> "en_proceso", fase |-> "pre_arca"]

\* Mutant of Conflictos: the guard of the point is not unique
ConflictosSinGuarda(r) ==
    {i \in Solicitudes :
        /\ intento[i].estado \in EstadosReservaActiva
        /\ intento[i].tipo = T(r) /\ intento[i].num = sol[r].num}

\* Unique indexes: an active guard of the point, an active reservation of the number
Conflictos(r) ==
    {i \in Solicitudes :
        \/ Activa(i)
        \/ /\ intento[i].estado \in EstadosReservaActiva
           /\ intento[i].tipo = T(r) /\ intento[i].num = sol[r].num}

\* A unique index waits for the transaction that is changing the row
IndiceLibre(r) ==
    PostgreSQL =>
        \A i \in Conflictos(r) : ~(sol[i].pc = "publicar" /\ sol[i].pend # "nada")

\* crear_guarda_pre_arca and crear_intento_emision in one transaction
Reservar(r) ==
    LET creado == [intento EXCEPT ![r] = IntentoNuevo(r)]
        puede  == OperacionContinua(K(r)) /\ Conflictos(r) = {}
    IN
    /\ En(r, "reservar") /\ FilaLibre(r) /\ IndiceLibre(r)
    /\ \/ /\ puede /\ SinFalla
          /\ intento' = creado
          /\ Ir(r, "preflight") /\ UNCHANGED <<cerrojo, filaPunto>>
       \/ /\ ~puede /\ SinFalla
          /\ Devolver(r, "nada", Resp("fallido", 0))
          /\ UNCHANGED <<intento, filaPunto>>
       \/ /\ FallarPreArca(r)
          /\ intento' \in {intento} \cup (IF puede THEN {creado} ELSE {})
    /\ UNCHANGED <<op, comprobantes, rece, fisco>>

\* _confirmar_reserva_antes_de_solicitar_cae
Preflight(r) ==
    /\ En(r, "preflight")
    /\ \/ /\ ultimo[T(r)] + 1 = sol[r].num
          /\ Ir(r, "marcar") /\ UNCHANGED <<intento, cerrojo, filaPunto>> /\ SinFalla
       \/ \* the number moved, or ARCA does not answer
          /\ Devolver(r, "cerrada_pre_arca", Resp("fallido", sol[r].num))
          /\ UNCHANGED <<intento, filaPunto>> /\ SinFalla
       \/ \* unexpected exception: closed with its own commit, number not reported
          /\ intento' = CerrarGuarda(r, "fallido_verificado", "cerrada_pre_arca")
          /\ Devolver(r, "nada", Resp("fallido", 0))
          /\ UNCHANGED filaPunto /\ SinFalla
       \/ FallarPreArca(r) /\ UNCHANGED intento
    /\ UNCHANGED <<op, comprobantes, rece, fisco>>

\* Mutant of PuedeIniciarArca: the operation is not looked at again
PuedeIniciarArcaSinOperacion(r) ==
    /\ OperacionContinua(K(r))
    /\ intento[r].estado = "en_proceso" /\ intento[r].fase = "pre_arca"
    /\ intento[r].rev = rece.rev

\* marcar_arca_iniciada: the last check and the commit that allows FECAESolicitar
PuedeIniciarArca(r) ==
    /\ OperacionContinua(K(r))
    /\ op[K(r)].estado = "en_proceso" /\ op[K(r)].resp = SinRespuesta
    /\ intento[r].estado = "en_proceso" /\ intento[r].fase = "pre_arca"
    /\ intento[r].rev = rece.rev

MarcarArcaIniciada(r) ==
    LET iniciada == [intento EXCEPT ![r].fase = "arca_iniciada"] IN
    /\ En(r, "marcar") /\ FilaLibre(r)
    /\ ~GrafoTomado(K(r), r)
    /\ \/ /\ PuedeIniciarArca(r) /\ SinFalla
          /\ intento' = iniciada
          /\ Ir(r, "solicitar") /\ UNCHANGED <<cerrojo, filaPunto>>
       \/ /\ ~PuedeIniciarArca(r) /\ SinFalla
          /\ Devolver(r, "cerrada_pre_arca", Resp("fallido", 0))
          /\ UNCHANGED <<intento, filaPunto>>
       \/ /\ FallarPreArca(r)
          /\ intento' \in {intento} \cup (IF PuedeIniciarArca(r) THEN {iniciada} ELSE {})
    /\ UNCHANGED <<op, comprobantes, rece, fisco>>

Solicitar(r) ==
    /\ En(r, "solicitar")
    /\ arca' = [arca EXCEPT ![r] = "en_vuelo"]
    /\ Ir(r, "esperar")
    /\ UNCHANGED <<db, rece, ultimo, cerrojo, filaPunto, cotas>>

\* _inmovilizar_grafo_reconciliacion: the operation row is locked until the
\* publication; a graph that changed meanwhile is left as it is
Inmovilizable(r) ==
    /\ op[K(r)].estado \in {"en_proceso", "requiere_reconciliacion"}
    /\ op[K(r)].resp = SinRespuesta
    /\ intento[r].estado = "en_proceso" /\ intento[r].fase = "arca_iniciada"

Inmovilizar(r) ==
    /\ ~GrafoTomado(K(r), r)
    /\ IF Inmovilizable(r)
       THEN Devolver(r, "reconciliacion", Resp("reconciliacion", sol[r].num))
       ELSE /\ sol' = [sol EXCEPT ![r].pc = "fin", ![r].resp = Resp("post_arca", 0)]
            /\ cerrojo' = [cerrojo EXCEPT ![T(r)] = Nadie]

\* Verifiable answers of ARCA
RecibirRespuesta(r) ==
    /\ En(r, "esperar")
    /\ \/ /\ arca[r] = "A"
          /\ ~\E c \in comprobantes :
                intento[c].tipo = T(r) /\ intento[c].num = sol[r].num
          /\ Devolver(r, "autorizado", Resp("exito", sol[r].num))
       \/ /\ arca[r] = "R"
          /\ Devolver(r, "rechazado", Resp("fallido", sol[r].num))
       \/ /\ arca[r] = "10005"
          /\ Inmovilizable(r)
          /\ Devolver(r, "rechazo_global", Resp("rechazo_global", sol[r].num))
    /\ UNCHANGED <<db, rece, fisco, filaPunto, cotas>>

\* Timeout, unusable answer, or an authorised comprobante that cannot be saved
SinResultado(r) ==
    /\ En(r, "esperar")
    /\ \/ Inmovilizar(r) /\ UNCHANGED filaPunto /\ SinFalla
       \/ \* the database is gone: nothing is stored and the guard stays active
          /\ Falla /\ Terminar(r, Resp("post_arca", 0))
          /\ cerrojo' = [cerrojo EXCEPT ![T(r)] = Nadie]
    /\ UNCHANGED <<db, rece, fisco>>

----------------------------------------------------------------------------
(* Publication: what was flushed and the stored response commit together.   *)

\* FaseSolicitudArca.guarda_actual_iniciada at publication
Iniciada(r) == sol[r].pend \notin {"nada", "cerrada_pre_arca"}

\* Mutant of IntentoPublicado: an uncertain answer closes the guard
IntentoPublicadoCerrado(r) ==
    CASE sol[r].pend = "autorizado" ->
            CerrarGuarda(r, "autorizado", "cerrada_terminal")
      [] sol[r].pend = "nada" -> intento
      [] OTHER -> CerrarGuarda(r, "rechazado_arca", "cerrada_terminal")

\* _persistir_intento_y_guarda_rece
IntentoPublicado(r) ==
    CASE sol[r].pend = "autorizado" ->
            CerrarGuarda(r, "autorizado", "cerrada_terminal")
      [] sol[r].pend \in {"rechazado", "rechazo_global"} ->
            CerrarGuarda(r, "rechazado_arca", "cerrada_terminal")
      [] sol[r].pend = "reconciliacion" ->
            CerrarGuarda(r, "requiere_reconciliacion", "requiere_reconciliacion")
      [] sol[r].pend = "cerrada_pre_arca" ->
            CerrarGuarda(r, "fallido_verificado", "cerrada_pre_arca")
      [] OTHER -> intento

\* Mutant of Publicable: an UPDATE without compare-and-swap
PublicableSinCAS(r) == TRUE

\* The CAS of guardar_respuesta_operacion_cas.  A reconciliation moved the
\* operation to requiere_reconciliacion in this same transaction.
Publicable(r) ==
    /\ op[K(r)].resp = SinRespuesta
    /\ \/ op[K(r)].estado = "en_proceso"
       \/ /\ sol[r].pend = "reconciliacion"
          /\ op[K(r)].estado = "requiere_reconciliacion"

\* Mutant of Publicado: the comprobante is saved before ARCA's answer is known
PublicadoAnticipado(r) ==
    /\ op' = [op EXCEPT ![K(r)].estado = EstadoDesde(sol[r].resp.clase),
                        ![K(r)].resp = sol[r].resp]
    /\ intento' = IntentoPublicado(r)
    /\ comprobantes' = IF Iniciada(r) THEN comprobantes \cup {r} ELSE comprobantes

Publicado(r) ==
    /\ op' = [op EXCEPT ![K(r)].estado = EstadoDesde(sol[r].resp.clase),
                        ![K(r)].resp = sol[r].resp]
    /\ intento' = IntentoPublicado(r)
    /\ comprobantes' = IF sol[r].pend = "autorizado" THEN comprobantes \cup {r}
                                                     ELSE comprobantes

\* Rollback: a 409 after ARCA, an attempt to reopen the operation before it
Deshacer(r) ==
    IF Iniciada(r)
    THEN Terminar(r, Resp("post_arca", 0))
    ELSE /\ sol' = [sol EXCEPT ![r].pc = "recuperar", ![r].pend = "nada"]
         /\ filaPunto' = FilaSoltada(r)

\* A global rejection that lost its CAS answers what is stored instead
PerderPublicacion(r) ==
    IF sol[r].pend = "rechazo_global"
    THEN Terminar(r, IF op[K(r)].resp # SinRespuesta THEN RespuestaReplay(K(r))
                                                     ELSE Resp("no_recuperable", 0))
    ELSE Deshacer(r)

Publicar(r) ==
    /\ En(r, "publicar") /\ ~OperacionTomada(K(r), r)
    /\ \/ Publicable(r) /\ Publicado(r) /\ Terminar(r, sol[r].resp) /\ SinFalla
       \/ /\ ~Publicable(r) /\ PerderPublicacion(r) /\ SinFalla
          /\ UNCHANGED db
       \/ \* the commit fails, or succeeds without the request knowing it
          /\ Falla /\ Deshacer(r)
          /\ \/ UNCHANGED db
             \/ Publicable(r) /\ Publicado(r)
    /\ UNCHANGED <<rece, fisco, cerrojo>>

\* Any other exception: rollback.  After ARCA the uncertain replay is stored;
\* before it the answer is a 500 and the rows stay as they were committed.
PublicarInesperada(r) ==
    LET libre == /\ op[K(r)].resp = SinRespuesta
                 /\ op[K(r)].estado \in {"en_proceso", "requiere_reconciliacion"}
    IN
    /\ En(r, "publicar") /\ ~OperacionTomada(K(r), r)
    /\ Falla
    /\ op' = IF Iniciada(r) /\ libre
             THEN [op EXCEPT ![K(r)].estado = "requiere_reconciliacion",
                             ![K(r)].resp = Resp("reconciliacion", sol[r].num)]
             ELSE op
    /\ Terminar(r, IF Iniciada(r) THEN Resp("reconciliacion", sol[r].num)
                                  ELSE Resp("error", 0))
    /\ UNCHANGED <<intento, comprobantes, rece, fisco, cerrojo>>

----------------------------------------------------------------------------
(* _recuperar_operacion_pre_arca                                            *)

Ajenos(r) == IntentosDe(K(r)) \ {r}

\* An attempt of the same operation by another request, closed with evidence
AjenoCoherente(i) ==
    \/ /\ intento[i].fase = "cerrada_terminal"
       /\ \/ intento[i].estado = "autorizado" /\ i \in comprobantes
          \/ intento[i].estado = "rechazado_arca"
    \/ intento[i].fase = "cerrada_pre_arca" /\ intento[i].estado = "fallido_verificado"

\* recuperar_guarda_interrumpida_pre_arca inspects the guard of this request
GuardaRecuperable(r) ==
    /\ Existe(r)
    /\ op[K(r)].resp = SinRespuesta
    /\ \A i \in Ajenos(r) : AjenoCoherente(i)

DestinoRecuperado(r) ==
    IF Ajenos(r) = {} THEN "interrumpida_pre_arca" ELSE "requiere_reconciliacion"

\* The guard may have crossed into ARCA: everything of it awaits reconciliation
InicioAmbiguo(r) ==
    /\ GuardaRecuperable(r)
    /\ intento[r].fase \in {"arca_iniciada", "requiere_reconciliacion"}
    /\ intento' = [intento EXCEPT
                     ![r].fase = "requiere_reconciliacion",
                     ![r].estado = IF @ = "en_proceso" THEN "requiere_reconciliacion" ELSE @]
    /\ op' = [op EXCEPT ![K(r)].estado =
                IF @ = "en_proceso" THEN "requiere_reconciliacion" ELSE @]
    /\ Terminar(r, Resp("post_arca", 0))

\* The guard proves that ARCA was not called: it is closed, the key reopened.
\* A guard closed before needs the key where this recovery would leave it.
Cerrable(r) ==
    /\ GuardaRecuperable(r)
    /\ \/ /\ intento[r].fase = "pre_arca" /\ intento[r].estado = "en_proceso"
          /\ op[K(r)].estado = "en_proceso"
       \/ /\ intento[r].fase = "cerrada_pre_arca"
          /\ op[K(r)].estado \in {"en_proceso", DestinoRecuperado(r)}

CierreProbado(r) ==
    /\ Cerrable(r)
    /\ intento' = CerrarGuarda(r, "fallido_verificado", "cerrada_pre_arca")
    /\ op' = [op EXCEPT ![K(r)].estado = DestinoRecuperado(r)]
    /\ Terminar(r, Resp(IF Ajenos(r) = {} THEN "reintentable" ELSE "post_arca", 0))

\* Mutant of SinReserva: the attempts of the operation are not looked at
SinReservaACiegas(r) ==
    /\ op[K(r)].estado = "en_proceso" /\ op[K(r)].resp = SinRespuesta
    /\ op' = [op EXCEPT ![K(r)].estado = "interrumpida_pre_arca"]
    /\ UNCHANGED intento
    /\ Terminar(r, Resp("reintentable", 0))

\* marcar_operacion_interrumpida_pre_arca: an operation that never reserved
SinReserva(r) ==
    /\ IntentosDe(K(r)) = {}
    /\ op[K(r)].estado = "en_proceso" /\ op[K(r)].resp = SinRespuesta
    /\ op' = [op EXCEPT ![K(r)].estado = "interrumpida_pre_arca"]
    /\ UNCHANGED intento
    /\ Terminar(r, Resp("reintentable", 0))

NoRecuperable(r) ==
    /\ ~Cerrable(r)
    /\ ~(GuardaRecuperable(r)
         /\ intento[r].fase \in {"arca_iniciada", "requiere_reconciliacion"})
    /\ ~(/\ IntentosDe(K(r)) = {}
         /\ op[K(r)].estado = "en_proceso" /\ op[K(r)].resp = SinRespuesta)
    /\ UNCHANGED <<op, intento>>
    /\ Terminar(r, Resp("bloqueado", 0))

Recuperar(r) ==
    /\ En(r, "recuperar") /\ ~GrafoTomado(K(r), r)
    /\ \/ InicioAmbiguo(r) /\ SinFalla
       \/ CierreProbado(r) /\ SinFalla
       \/ SinReserva(r) /\ SinFalla
       \/ NoRecuperable(r) /\ SinFalla
       \/ Falla /\ UNCHANGED <<op, intento>> /\ Terminar(r, Resp("bloqueado", 0))
    /\ UNCHANGED <<comprobantes, rece, fisco, cerrojo>>

----------------------------------------------------------------------------
(* The environment.                                                         *)

\* ARCA handles a request that reached it, even after FactuFlow stopped waiting
ProcesarArca(r) ==
    /\ arca[r] = "en_vuelo"
    /\ \/ /\ intento[r].num = ultimo[T(r)] + 1
          /\ ultimo' = [ultimo EXCEPT ![T(r)] = @ + 1]
          /\ arca' = [arca EXCEPT ![r] = "A"]
       \/ /\ arca' \in {[arca EXCEPT ![r] = "R"], [arca EXCEPT ![r] = "10005"]}
          /\ UNCHANGED ultimo
    /\ UNCHANGED <<db, rece, memoria, cotas>>

\* Another system of the taxpayer issues at the same point
EmisorExterno(t) ==
    /\ ultimo[t] < MaxExterno
    /\ ultimo' = [ultimo EXCEPT ![t] = @ + 1]
    /\ UNCHANGED <<db, rece, arca, memoria, cotas>>

\* aplicar_cambios_punto / atestiguar_constancia_productiva: a fiscal change of
\* the point or a new attestation, refused while a guard is active
CambiarPunto ==
    /\ rece.rev < MaxRev
    /\ PostgreSQL => filaPunto = Nadie
    /\ \A i \in Solicitudes : ~Activa(i)
    /\ \E v \in BOOLEAN : rece' = [rev |-> rece.rev + 1, vigente |-> v]
    /\ UNCHANGED <<db, fisco, memoria, cotas>>

\* vigente_hasta is in the past
VencerEvidencia ==
    /\ rece.vigente
    /\ rece' = [rece EXCEPT !.vigente = FALSE]
    /\ UNCHANGED <<db, fisco, memoria, cotas>>

\* fiscal_attempt_stale_minutes go by
Envejecer(k) ==
    /\ op[k].estado # "inexistente" /\ ~op[k].vieja
    /\ ColaLarga \/ \A r \in Solicitudes : K(r) = k => sol[r].pc \in {"inicio", "fin"}
    /\ op' = [op EXCEPT ![k].vieja = TRUE]
    /\ UNCHANGED <<intento, comprobantes, rece, fisco, memoria, cotas>>

\* The API process dies: open transactions roll back, asyncio locks vanish
Reiniciar ==
    /\ caidas < MaxCaidas
    /\ caidas' = caidas + 1
    /\ sol' = [r \in Solicitudes |->
                 IF sol[r].pc \in {"inicio", "fin"} THEN sol[r]
                 ELSE [sol[r] EXCEPT !.pc = "fin", !.pend = "nada",
                                     !.resp = Resp("cortada", 0)]]
    /\ cerrojo' = [t \in Tipos |-> Nadie]
    /\ filaPunto' = Nadie
    /\ UNCHANGED <<db, rece, fisco, fallas>>

----------------------------------------------------------------------------
Resolver(r) ==
    \/ LeerOperacion(r) \/ CrearOperacion(r) \/ NoCrearOperacion(r)
    \/ RecuperarCreacion(r) \/ Reclamar(r) \/ Confirmar(r)
    \/ ResolverIncompleta(r) \/ PublicarCandidata(r)

Emitir(r) ==
    \/ TomarCerrojo(r) \/ Validar(r) \/ Diagnosticar(r) \/ ConsultarUltimo(r)
    \/ Reservar(r) \/ Preflight(r) \/ MarcarArcaIniciada(r) \/ Solicitar(r)
    \/ RecibirRespuesta(r) \/ SinResultado(r)

Cerrar(r) == Publicar(r) \/ PublicarInesperada(r) \/ Recuperar(r)

Paso(r) == Resolver(r) \/ Emitir(r) \/ Cerrar(r)

Entorno ==
    \/ \E r \in Solicitudes : ProcesarArca(r)
    \/ \E t \in Tipos : EmisorExterno(t)
    \/ \E k \in Claves : Envejecer(k)
    \/ CambiarPunto \/ VencerEvidencia \/ Reiniciar

Next == Entorno \/ \E r \in Solicitudes : Paso(r)

Spec == Init /\ [][Next]_vars

\* The event loop runs every coroutine that can advance; a client may never call
Fairness == \A r \in Solicitudes : WF_vars(sol[r].pc # "inicio" /\ Paso(r))
FairSpec == Spec /\ Fairness

----------------------------------------------------------------------------
(* Properties.                                                              *)

Operaciones ==
    [estado : EstadosOperacion, resp : Respuestas, payload : Payloads,
     rev : Nat, vieja : BOOLEAN]

Intentos ==
    [op : Claves, tipo : Tipos, num : Nat, rev : Nat, orden : Nat,
     estado : EstadosIntento, fase : FasesGuarda]

EstadosSolicitud ==
    [pc : Pasos, num : Nat, local : Nat, confirmada : BOOLEAN,
     pend : Pendientes, resp : Respuestas]

Destinos == {"no_enviada", "en_vuelo", "A", "R", "10005"}

\* Every table row, request and lock has the shape the code gives it.
TypeOK ==
    /\ op \in [Claves -> Operaciones]
    /\ intento \in [Solicitudes -> Intentos]
    /\ comprobantes \subseteq Solicitudes
    /\ rece \in [rev : Nat, vigente : BOOLEAN]
    /\ ultimo \in [Tipos -> Nat]
    /\ arca \in [Solicitudes -> Destinos]
    /\ sol \in [Solicitudes -> EstadosSolicitud]
    /\ cerrojo \in [Tipos -> Solicitudes \cup {Nadie}]
    /\ filaPunto \in Solicitudes \cup {Nadie}
    /\ fallas \in Nat /\ caidas \in Nat

Enviada(i) == arca[i] # "no_enviada"

\* "Misma clave y mismo payload nunca llaman dos veces a FECAESolicitar": no
\* two requests of one idempotency key ever reach ARCA, whatever the double
\* clicks, stale continuations, ambiguous commits, recoveries and restarts.
UnaSolicitudPorOperacion ==
    \A i, j \in Solicitudes :
        Enviada(i) /\ Enviada(j) /\ K(i) = K(j) => i = j

\* A CAE that ARCA granted is either in a committed comprobante with its
\* authorised attempt, or behind a guard that is still active and keeps the
\* point of sale immobile until somebody reconciles it.
CaeNuncaPerdido ==
    \A i \in Solicitudes : arca[i] = "A" =>
        \/ intento[i].fase \in {"arca_iniciada", "requiere_reconciliacion"}
        \/ intento[i].estado = "autorizado" /\ i \in comprobantes

\* The point of sale never has two FECAESolicitar pending at once, and while
\* one is pending the RECE context it was checked against does not change.
VueloInmovilizaPunto ==
    \A i \in Solicitudes : arca[i] = "en_vuelo" =>
        /\ intento[i].rev = rece.rev
        /\ \A j \in Solicitudes : arca[j] = "en_vuelo" => i = j

\* The local history is a subset of ARCA's: every comprobante was authorised
\* with its own number, which no other comprobante of its tipo has.
HistoriaLocalFiel ==
    \A i \in comprobantes :
        /\ arca[i] = "A" /\ intento[i].num <= ultimo[intento[i].tipo]
        /\ \A j \in comprobantes :
              intento[j].tipo = intento[i].tipo /\ intento[j].num = intento[i].num
                  => i = j

\* What a client was told as success is durable: the key is finished with that
\* very response and one comprobante with that number and an ARCA CAE backs it.
ExitoDurable ==
    \A r \in Solicitudes :
        sol[r].pc = "fin" /\ sol[r].resp.clase = "exito" =>
            /\ op[K(r)].estado = "finalizado" /\ op[K(r)].resp = sol[r].resp
            /\ \E i \in comprobantes :
                  K(i) = K(r) /\ arca[i] = "A" /\ intento[i].num = sol[r].resp.num

\* Two answers to one key never disagree: once a request was answered success,
\* failure or global rejection, every retry and double click gets that answer.
RespuestasConcordes ==
    \A r, s \in Solicitudes :
        /\ K(r) = K(s) /\ sol[r].pc = "fin" /\ sol[s].pc = "fin"
        /\ sol[r].resp.clase \in {"exito", "fallido", "rechazo_global"}
        /\ sol[s].resp.clase \in {"exito", "fallido", "rechazo_global"}
        => sol[r].resp = sol[s].resp

\* "Misma clave con payload distinto responde conflicto": whatever wins the race
\* to create the key, only requests of its payload reserve, send or are told
\* of its success.
UnPayloadPorClave ==
    \A r \in Solicitudes :
        Existe(r) \/ (sol[r].pc = "fin" /\ sol[r].resp.clase = "exito")
            => op[K(r)].payload = PayloadDe[r]

EstadosTerminales == {"finalizado", "fallido", "rechazado_arca"}
FasesCerradas     == {"cerrada_pre_arca", "cerrada_terminal"}

\* Terminal rows are immutable: no late publication, recovery or confirmation
\* rewrites a terminal operation, reopens a closed guard or drops a comprobante.
TerminalEstable ==
    [][/\ \A k \in Claves : op[k].estado \in EstadosTerminales =>
             op'[k].estado = op[k].estado /\ op'[k].resp = op[k].resp
       /\ \A i \in Solicitudes :
             intento[i].fase \in FasesCerradas => intento'[i] = intento[i]
       /\ comprobantes \subseteq comprobantes']_vars

\* A key is only reopened for another emission (interrumpida_pre_arca, by an
\* ambiguous creation, a recovery or a closed guard) when no request of it ever
\* reached ARCA and no guard of it is left active, whoever acts on it meanwhile.
ReaperturaSegura ==
    [][\A k \in Claves :
          /\ op[k].estado # "interrumpida_pre_arca"
          /\ op'[k].estado = "interrumpida_pre_arca"
          => \A i \in Solicitudes : K(i) = k =>
                 arca[i] = "no_enviada"
                 /\ (Existe(i) => intento'[i].fase \notin FasesActivas)]_vars

\* Under fair scheduling every request is answered: nobody waits forever for
\* the numbering lock or for a row.  Requests are finitely many and an answered
\* one stays so: from some point on, every request that began has its answer.
TodaSolicitudResponde ==
    <>[](\A r \in Solicitudes : sol[r].pc \in {"inicio", "fin"})

----------------------------------------------------------------------------
(* What the design documents say and the code does not keep.                *)

\* pf-19b, invariant 14: "Un replay terminal con mismo payload devuelve su
\* respuesta durable": a request that finds its key finished gets that response.
ReplayTerminalDurable ==
    [][\A r \in Solicitudes :
          /\ sol[r].pc = "inicio" /\ sol'[r].pc = "fin"
          /\ op[K(r)].estado = "finalizado" /\ op[K(r)].payload = PayloadDe[r]
          => sol'[r].resp = op[K(r)].resp]_vars

\* pf-01, table of operations: fallido comes from a proven failure or an ARCA
\* rejection, so ARCA never authorised anything under a fallido key.
FallidoSinCae ==
    \A i \in Solicitudes : op[K(i)].estado = "fallido" => arca[i] # "A"

\* docs/user-guide/README.md: "Si una emisión responde
\* 503, FactuFlow confirmó que ARCA no fue llamada": whoever is answered 503, no
\* request of its key had reached ARCA.  The handler of main.py answers the same
\* 503 to any outage, and to a publication that lost its row.
ReintentableSeguro ==
    [][\A r \in Solicitudes :
          /\ sol[r].pc # "fin" /\ sol'[r].pc = "fin"
          /\ sol'[r].resp.clase = "reintentable"
          => \A i \in Solicitudes : K(i) = K(r) => ~Enviada(i)]_vars

=============================================================================
