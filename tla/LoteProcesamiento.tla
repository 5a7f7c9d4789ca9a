-------------------------- MODULE LoteProcesamiento --------------------------
(****************************************************************************)
(* Emission of a validated lote of comprobantes: POST .../procesar (inside  *)
(* the request or handed to the worker), the run of procesar_lote, its      *)
(* sublotes of one FECAESolicitar each, the closures after ARCA, the        *)
(* recovery before ARCA, and the discard of groups.                         *)
(*                                                                          *)
(* One lote of one company, point of sale and tipo.  An action is one       *)
(* database transaction or one ARCA call of an actor: an HTTP request or    *)
(* the worker, whose own steps are in LoteWorker.  The RECE context and the *)
(* planned numbers are those of EmisionIndividual and stay fixed here; the  *)
(* confirmation of a logical duplicate by the user is left out.             *)
(*                                                                          *)
(* A session keeps the lote as it first read it: later SELECTs do not       *)
(* refresh it (no populate_existing) and an UPDATE writes only what differs *)
(* from that copy, by id.  mem[a].vista is the copy, Escribir the UPDATE.   *)
(****************************************************************************)
EXTENDS Integers, FiniteSets, Sequences

CONSTANTS
    Solicitudes,   \* HTTP requests
    Worker,        \* the background worker (one per process)
    Claves,        \* values of X-Idempotency-Key
    ClaveDe,       \* [Solicitudes -> Claves]
    Modo,          \* [Solicitudes -> {"sync", "background", "descartar"}]
    Grupos,        \* groups of the lote, in the order of their numbers
    Chunk,         \* RegXReq: groups per FECAESolicitar
    LoteLento,     \* TRUE if a run may outlive batch_processing_stale_minutes
    Nadie,         \* owner of a lote never processed
    MaxFallas,     \* bound: database outages
    MaxCaidas      \* bound: restarts of the process

ASSUME LoteAssumption ==
    /\ Worker \notin Solicitudes
    /\ ClaveDe \in [Solicitudes -> Claves]
    /\ Nadie \notin Claves
    /\ Modo \in [Solicitudes -> {"sync", "background", "descartar"}]
    /\ Grupos \subseteq Nat /\ IsFiniteSet(Grupos) /\ Grupos # {}
    /\ Chunk \in Nat \ {0}
    /\ LoteLento \in BOOLEAN
    /\ MaxFallas \in Nat /\ MaxCaidas \in Nat

VARIABLES
    lote,      \* lotes_comprobantes: state, background flag, owner operation,
               \* confirmed material, and whether updated_at is stale
    grupo,     \* estado of each lotes_comprobantes_grupos
    op,        \* operaciones_idempotentes, by key
    guardas,   \* RECE guards in creation order, with the intentos they cover
    mem,       \* in-memory state of each actor
    fallas,    \* database outages so far
    caidas     \* restarts so far

tablas == <<lote, grupo, op, guardas>>
cotas  == <<fallas, caidas>>
vars   == <<lote, grupo, op, guardas, mem, fallas, caidas>>

----------------------------------------------------------------------------
(* Vocabulary.                                                              *)

Actores == Solicitudes \cup {Worker}

Procesables == {"validado", "en_cola"}
Cerrados    == {"completado", "cerrado_con_descartes"}
Terminales  == Cerrados \cup {"fallido", "requiere_reconciliacion"}
EstadosLote == Procesables \cup Terminales \cup {"procesando", "autorizado_parcial"}

EstadosGrupo ==
    {"validado", "autorizado", "fallido", "requiere_reconciliacion", "descartado"}
Resolubles == {"validado", "fallido"}

EstadosOperacion ==
    {"inexistente", "en_proceso", "interrumpida_pre_arca", "finalizado",
     "fallido_verificado", "rechazado_arca", "requiere_reconciliacion"}

\* _operacion_lote_esta_cerrada
EstadosCerrados ==
    {"finalizado", "fallido_verificado", "rechazado_arca", "requiere_reconciliacion"}

\* response_json: SQL NULL, the worker's en_progreso marker, a result, an error
Respuestas == {"nula", "progreso", "final", "error"}

FasesActivas == {"pre_arca", "arca_iniciada", "requiere_reconciliacion"}
EstadosInciertos == {"en_proceso", "requiere_reconciliacion"}

Pasos ==
    {"inicio", "resolver", "recuperar_creacion", "en_curso", "preparar", "encolar",
     "tomar", "releer", "capacidad", "verificar", "reservar", "marcar", "solicitar",
     "esperar", "aplicar", "terminar", "publicar", "guardar_error", "recuperar", "descartar",
     "bloquear", "fin"}

\* Transactions of a run or of its request: an outage rolls them back
PasosConBase ==
    {"preparar", "encolar", "tomar", "releer", "capacidad", "verificar", "reservar",
     "marcar", "esperar", "aplicar", "terminar", "publicar", "guardar_error"}

K(a) == mem[a].op
Con(gr, e) == {g \in Grupos : gr[g] = e}

\* A set of groups in the order of their numbers: its first n
Primeros(S, n) == {g \in S : Cardinality({h \in S : h <= g}) <= n}

GuardasDe(k) == {i \in DOMAIN guardas : guardas[i].op = k}
GuardasConGrupo(g) == {i \in DOMAIN guardas : g \in guardas[i].grupos}
Activa(i) == guardas[i].fase \in FasesActivas
HayGuardaActiva == \E i \in DOMAIN guardas : Activa(i)

\* estados of the intentos of a group
EstadosIntento(g) == {guardas[i].intento[g] : i \in GuardasConGrupo(g)}

\* _lote_tiene_intentos_fiscales_inciertos
HayInciertos == \E g \in Grupos : EstadosIntento(g) \cap EstadosInciertos # {}

\* _reconciliar_grupo_autorizado_existente: exactly one authorised intento
Respaldado(g) ==
    /\ EstadosIntento(g) \cap EstadosInciertos = {}
    /\ \E i \in GuardasConGrupo(g) :
          {j \in GuardasConGrupo(g) : guardas[j].intento[g] = "autorizado"} = {i}

\* Mutant of EstadoLote: pending groups are forgotten
EstadoLoteSinPendientes(gr) ==
    IF Con(gr, "requiere_reconciliacion") # {} THEN "requiere_reconciliacion"
    ELSE IF Con(gr, "autorizado") # {} THEN "completado" ELSE "fallido"

\* _actualizar_estado_lote: the state the groups give a lote that is not running
EstadoLote(gr) ==
    CASE Con(gr, "requiere_reconciliacion") # {} -> "requiere_reconciliacion"
      [] Con(gr, "autorizado") = Grupos -> "completado"
      [] Con(gr, "autorizado") \cup Con(gr, "descartado") = Grupos
            -> "cerrado_con_descartes"
      [] Con(gr, "autorizado") # {} -> "autorizado_parcial"
      [] Con(gr, "validado") # {} -> "validado"
      [] OTHER -> "fallido"

Recalculado(estado, gr) ==
    IF estado \in {"procesando", "en_cola"} THEN estado ELSE EstadoLote(gr)

\* UPDATE of the state from the copy v: nothing is written if v already has it
Escribir(l, v, estado) ==
    [l EXCEPT !.estado = IF v.estado = estado THEN @ ELSE estado, !.vieja = FALSE]

\* The same for the metadata (owner and confirmed material)
EscribirDueno(l, v, k, m) ==
    IF v.dueno = k /\ v.material = m THEN l
    ELSE [l EXCEPT !.dueno = k, !.material = m, !.vieja = FALSE]

\* respuesta_worker_en_progreso_valida
ProgresoValido(k, m) == op[k].resp = "progreso" /\ op[k].material = m

\* operacion_conserva_ownership_pre_arca
Conserva(k, async, m) ==
    /\ op[k].estado = "en_proceso"
    /\ IF async THEN ProgresoValido(k, m) ELSE op[k].resp = "nula"

----------------------------------------------------------------------------
SinOperacion ==
    [estado |-> "inexistente", resp |-> "nula", huella |-> {}, material |-> {}]

LoteValidado ==
    [estado |-> "validado", async |-> FALSE, dueno |-> Nadie, material |-> {},
     vieja |-> FALSE]

\* pend: groups still to emit; sel: groups selected by the run; sub: groups of
\* the sublote; aut: those ARCA authorised; cierre: phase its guard gets in the
\* commit of the first group; guarda: own guard, 0 if none was registered and
\* -1 if its commit failed; iniciada: guarda_actual_iniciada
Inicial(pc) ==
    [pc |-> pc, op |-> Nadie, vista |-> LoteValidado, mat |-> {}, huella |-> {},
     pend |-> {}, sel |-> {}, sub |-> {}, aut |-> {}, cierre |-> "nada",
     chunk |-> 1, guarda |-> 0, iniciada |-> FALSE, preflight |-> "no", resp |-> "ninguna"]

Init ==
    /\ lote = LoteValidado
    /\ grupo = [g \in Grupos |-> "validado"]
    /\ op = [k \in Claves |-> SinOperacion]
    /\ guardas = <<>>
    /\ mem = [a \in Actores |-> Inicial("inicio")]
    /\ fallas = 0 /\ caidas = 0

----------------------------------------------------------------------------
(* Steps of an actor.                                                       *)

En(a, pc) == mem[a].pc = pc
Ir(a, pc) == mem' = [mem EXCEPT ![a].pc = pc]

\* The answer of a request is sent, or the worker's cycle is over
Fin(a, r) ==
    mem' = [mem EXCEPT ![a] =
              IF a = Worker THEN Inicial("inicio")
              ELSE [Inicial("fin") EXCEPT !.resp = r]]

\* except DATABASE_TEMPORARILY_UNAVAILABLE_ERRORS: recover only before ARCA
AnteCorte(a) ==
    IF mem[a].iniciada THEN Fin(a, "post_arca") ELSE Ir(a, "recuperar")

Falla == fallas < MaxFallas /\ fallas' = fallas + 1 /\ UNCHANGED caidas
SinFalla == UNCHANGED cotas

\* A statement or a commit fails and the transaction is rolled back
CorteDeBase(a) ==
    /\ mem[a].pc \in PasosConBase
    /\ Falla /\ AnteCorte(a)
    /\ UNCHANGED tablas

ResponderOperacion(k, estado, r) ==
    op' = [op EXCEPT ![k].estado = estado, ![k].resp = r]

\* guardar_resultado_operacion_sync: the state its CAS expects
Publicable(k, estado) ==
    /\ op[k].resp = "nula"
    /\ op[k].estado = IF estado = "requiere_reconciliacion"
                      THEN "requiere_reconciliacion" ELSE "en_proceso"

\* LoteComprobanteError: a request stores the error with what its session has
\* flushed (l); the worker logs it and closes its session
ConError(a, l) ==
    IF a = Worker THEN Fin(a, "error") /\ UNCHANGED <<lote, op>>
    ELSE IF Publicable(K(a), "fallido_verificado")
    THEN /\ ResponderOperacion(K(a), "fallido_verificado", "error")
         /\ lote' = l /\ Fin(a, "error")
    ELSE AnteCorte(a) /\ UNCHANGED <<lote, op>>

GuardarError(a) ==
    /\ En(a, "guardar_error")
    /\ ConError(a, lote)
    /\ SinFalla /\ UNCHANGED <<grupo, guardas>>

----------------------------------------------------------------------------
(* POST /lotes-comprobantes/{id}/procesar: key, operation, queue.           *)

OtraHuella(a, h) == op[ClaveDe[a]].estado # "inexistente" /\ op[ClaveDe[a]].huella # h

Replicable(k) == op[k].estado \in EstadosCerrados /\ op[k].resp # "nula"

\* The lote, the material of the key's payload hash and that of the run
LeerLote(a) ==
    LET k == ClaveDe[a]
        h == Grupos \ Con(grupo, "descartado") IN
    /\ En(a, "inicio") /\ Modo[a] # "descartar"
    /\ \/ OtraHuella(a, h) /\ Fin(a, "conflicto")
       \/ ~OtraHuella(a, h) /\ Replicable(k) /\ Fin(a, op[k].resp)
       \/ /\ ~OtraHuella(a, h) /\ ~Replicable(k)
          /\ mem' = [mem EXCEPT ![a].pc = "resolver", ![a].op = k,
                       ![a].vista = lote, ![a].mat = Con(grupo, "validado"),
                       ![a].huella = h]
    /\ SinFalla /\ UNCHANGED tablas

\* Groups to emit are needed before an operation is created or reclaimed
Emitible(a) == mem[a].mat # {}

CrearOperacion(a) ==
    /\ En(a, "resolver") /\ op[K(a)].estado = "inexistente"
    /\ IF Emitible(a)
       THEN /\ op' = [op EXCEPT ![K(a)].estado = "en_proceso",
                                ![K(a)].huella = mem[a].huella]
            /\ Ir(a, "preparar")
       ELSE Fin(a, "elegibilidad") /\ UNCHANGED op
    /\ SinFalla /\ UNCHANGED <<lote, grupo, guardas>>

\* The commit or the refresh of the creation fails
CrearAmbigua(a) ==
    /\ En(a, "resolver") /\ op[K(a)].estado = "inexistente" /\ Emitible(a)
    /\ \/ op' = [op EXCEPT ![K(a)].estado = "en_proceso",
                           ![K(a)].huella = mem[a].huella]
       \/ UNCHANGED op
    /\ Falla /\ Ir(a, "recuperar_creacion")
    /\ UNCHANGED <<lote, grupo, guardas>>

\* recuperar_creacion_ambigua_pre_arca: by identity, not by creator.  What was not
\* there, or whose evidence is no longer valid, is answered 409
RecuperarCreacion(a) ==
    LET o == op[K(a)]
        mia == /\ o.resp = "nula" /\ o.huella = mem[a].huella
               /\ GuardasDe(K(a)) = {} IN
    /\ En(a, "recuperar_creacion")
    /\ IF mia /\ o.estado = "en_proceso"
       THEN op' = [op EXCEPT ![K(a)].estado = "interrumpida_pre_arca"]
       ELSE UNCHANGED op
    /\ \/ /\ mia /\ o.estado \in {"en_proceso", "interrumpida_pre_arca"}
          /\ Fin(a, "reintentable")
       \/ Fin(a, "bloqueado")
    /\ SinFalla /\ UNCHANGED <<lote, grupo, guardas>>

\* reclamar_operacion_interrumpida_pre_arca: CAS, one winner
ReclamarOperacion(a) ==
    /\ En(a, "resolver") /\ op[K(a)].estado = "interrumpida_pre_arca"
    /\ IF Emitible(a)
       THEN /\ op' = [op EXCEPT ![K(a)].estado = "en_proceso"]
            /\ Ir(a, "preparar")
       ELSE Fin(a, "elegibilidad") /\ UNCHANGED op
    /\ SinFalla /\ UNCHANGED <<lote, grupo, guardas>>

EncontrarOperacion(a) ==
    /\ En(a, "resolver")
    /\ op[K(a)].estado \notin {"inexistente", "interrumpida_pre_arca"}
    /\ IF op[K(a)].huella # mem[a].huella THEN Fin(a, "conflicto")
       ELSE IF Replicable(K(a)) THEN Fin(a, op[K(a)].resp)
       ELSE Ir(a, "en_curso")
    /\ SinFalla /\ UNCHANGED tablas

\* _guardar_respuesta_operacion_background: what a lote in this state publishes
EstadoPublicado(estado) ==
    IF estado = "requiere_reconciliacion" THEN "requiere_reconciliacion"
    ELSE IF estado \in {"en_cola", "procesando"} THEN "en_proceso"
    ELSE "finalizado"

\* ... from the worker's marker, which must belong to this material
PublicableBackground(k, estado, m) ==
    /\ op[k].estado = IF estado = "requiere_reconciliacion"
                      THEN "requiere_reconciliacion" ELSE "en_proceso"
    /\ ProgresoValido(k, m)

\* The key's operation is open: answer with the lote, and publish the answer if
\* the lote (as this session read it) is terminal
ResponderEnCurso(a) ==
    LET k == K(a)
        v == mem[a].vista
        e == EstadoPublicado(v.estado) IN
    /\ En(a, "en_curso")
    /\ IF v.estado \notin Terminales THEN Fin(a, "en_progreso") /\ UNCHANGED op
       ELSE IF v.dueno # k THEN Fin(a, "conflicto") /\ UNCHANGED op
       ELSE IF ProgresoValido(k, v.material)
       THEN IF PublicableBackground(k, v.estado, v.material)
            THEN ResponderOperacion(k, e, "final") /\ Fin(a, "final")
            ELSE Fin(a, "conflicto") /\ UNCHANGED op
       ELSE IF Publicable(k, e)
       THEN ResponderOperacion(k, e, "final") /\ Fin(a, "final")
       ELSE AnteCorte(a) /\ UNCHANGED op
    /\ SinFalla /\ UNCHANGED <<lote, grupo, guardas>>

\* The date confirmation of the client is not the expected one, or it is
Preparar(a) ==
    /\ En(a, "preparar")
    /\ \/ ConError(a, lote)
       \/ /\ Ir(a, IF Modo[a] = "background" THEN "encolar" ELSE "tomar")
          /\ UNCHANGED <<lote, op>>
    /\ SinFalla /\ UNCHANGED <<grupo, guardas>>

\* encolar_lote: the state it tests is that of its own copy
Encolable(v) == v.estado \notin Terminales \cup {"procesando"}

Encolar(a) ==
    LET k == K(a)
        v == mem[a].vista
        m == mem[a].mat IN
    /\ En(a, "encolar")
    /\ IF Encolable(v) /\ Publicable(k, "en_proceso")
       THEN /\ lote' = [EscribirDueno(Escribir(lote, v, "en_cola"), v, k, m)
                          EXCEPT !.async = TRUE]
            /\ op' = [op EXCEPT ![k].resp = "progreso", ![k].material = m]
            /\ Fin(a, "en_progreso")
       ELSE Fin(a, "en_curso") /\ UNCHANGED <<lote, op>>
    /\ SinFalla /\ UNCHANGED <<grupo, guardas>>

----------------------------------------------------------------------------
(* procesar_lote: taking the lote.                                          *)

\* procesar_lote of a lote that is already running or closed
DevolverLote(a, l) ==
    LET v == mem[a].vista
        e == EstadoPublicado(v.estado) IN
    IF a = Worker
    THEN IF v.estado \in Terminales /\ PublicableBackground(K(a), v.estado, v.material)
         THEN ResponderOperacion(K(a), e, "final") /\ Fin(a, "final") /\ UNCHANGED lote
         ELSE Fin(a, "error") /\ UNCHANGED <<lote, op>>
    ELSE LET s == IF e = "requiere_reconciliacion" THEN e ELSE "finalizado" IN
         IF Publicable(K(a), s)
         THEN ResponderOperacion(K(a), s, "final") /\ lote' = l /\ Fin(a, "final")
         ELSE AnteCorte(a) /\ UNCHANGED <<lote, op>>

\* Mutant of PoseeLote: the state of the lote is that of the session's copy
PoseeLoteSinEstado(a, l, async, estados) ==
    l.dueno = K(a) /\ l.material = mem[a].mat /\ Conserva(K(a), async, mem[a].mat)

\* _exigir_ownership_operacion_lote_pre_arca, which reads the database
PoseeLote(a, l, async, estados) ==
    /\ l.estado \in estados
    /\ l.dueno = K(a) /\ l.material = mem[a].mat
    /\ Conserva(K(a), async, mem[a].mat)

\* First transaction: write the owner, check the material, take the lote
Tomar(a) ==
    LET v == mem[a].vista
        l == EscribirDueno(lote, v, K(a), mem[a].mat) IN
    /\ En(a, "tomar")
    /\ IF v.estado \in Terminales \cup {"procesando"} THEN DevolverLote(a, l)
       ELSE IF v.estado \notin Procesables THEN ConError(a, l)
       ELSE IF Con(grupo, "validado") # mem[a].mat THEN ConError(a, l)
       ELSE IF ~PoseeLote(a, l, v.async, Procesables) THEN ConError(a, lote)
       ELSE /\ lote' = [l EXCEPT !.estado = "procesando", !.async = v.async,
                                 !.vieja = FALSE]
            /\ Ir(a, "releer") /\ UNCHANGED op
    /\ SinFalla /\ UNCHANGED <<grupo, guardas>>

\* Mutant of Inmovilizar: the groups of an uncertain answer are fallido
InmovilizarComoFallido(S) ==
    /\ lote' = [lote EXCEPT !.estado = "requiere_reconciliacion", !.vieja = FALSE]
    /\ grupo' = [g \in Grupos |-> IF g \in S THEN "fallido" ELSE grupo[g]]

\* _marcar_lote_y_grupos_requieren_reconciliacion
Inmovilizar(S) ==
    /\ lote' = [lote EXCEPT !.estado = "requiere_reconciliacion", !.vieja = FALSE]
    /\ grupo' = [g \in Grupos |-> IF g \in S THEN "requiere_reconciliacion"
                                  ELSE grupo[g]]

\* Second transaction: membership and ownership again, before any ARCA call
Releer(a) ==
    /\ En(a, "releer")
    /\ IF Con(grupo, "validado") # mem[a].mat
       THEN ConError(a, lote) /\ UNCHANGED grupo
       ELSE /\ UNCHANGED op
            /\ IF PoseeLote(a, lote, mem[a].vista.async, {"procesando"})
               THEN /\ mem' = [mem EXCEPT ![a].pc = "capacidad", ![a].vista = lote]
                    /\ UNCHANGED <<lote, grupo>>
               ELSE /\ Inmovilizar(mem[a].mat)
                    /\ IF a = Worker THEN Fin(a, "error") ELSE Ir(a, "guardar_error")
    /\ SinFalla /\ UNCHANGED guardas

\* RegXReq (unitary if ARCA does not answer), then the metadata of the copy is
\* written back; a resumed run links the groups that ARCA already authorised
Capacidad(a) ==
    LET ya == IF a = Worker THEN {g \in mem[a].mat : Respaldado(g)} ELSE {}
        resto == mem[a].mat \ ya IN
    /\ En(a, "capacidad")
    /\ lote' = [lote EXCEPT !.dueno = K(a), !.material = mem[a].mat, !.vieja = FALSE]
    /\ grupo' = [g \in Grupos |-> IF g \in ya THEN "autorizado" ELSE grupo[g]]
    /\ \E c \in {1, Chunk} :
          mem' = [mem EXCEPT ![a].chunk = c, ![a].pend = resto, ![a].sel = resto,
                             ![a].pc = IF resto = {} THEN "terminar" ELSE "verificar"]
    /\ SinFalla /\ UNCHANGED <<op, guardas>>

----------------------------------------------------------------------------
(* One sublote: reservation, FECAESolicitar, application of the result.     *)

\* The process-local numbering lock of the point of sale
LockLibre(a) ==
    \A b \in Actores \ {a} : mem[b].pc \notin {"reservar", "marcar", "solicitar", "esperar"}

\* Row locks of a result that is not committed yet, its numbering lock released
FilasLibres(a) ==
    \A b \in Actores \ {a} : mem[b].pc = "aplicar" => mem[b].cierre = "nada"

\* The sublote did not reach ARCA and its groups are to be marked fallido.  r:
\* a rollback expired the lote (its next use reads it again) and the groups,
\* whose next use may raise and end the run
SinEnviar(a, s, cierre, r) ==
    \/ mem' = [mem EXCEPT ![a].pc = "aplicar", ![a].sub = s, ![a].aut = {},
                          ![a].pend = @ \ s, ![a].cierre = cierre,
                          ![a].vista = IF r THEN lote ELSE @]
    \/ r /\ Fin(a, "error_interno")

GuardaNueva(k, s) ==
    [op |-> k, grupos |-> s, fase |-> "pre_arca",
     intento |-> [g \in s |-> "en_proceso"], arca |-> "no_enviada", aut |-> {}]

\* buscar_duplicado_logico, of a group emitted on its own: a committed comprobante
\* of it.  The batch path does not look
SinDuplicado(s) ==
    Cardinality(s) = 1 => \A g \in s : "autorizado" \notin EstadosIntento(g)

\* The numbering lock is taken and the sublote validated
Verificar(a) ==
    LET s == Primeros(mem[a].pend, mem[a].chunk) IN
    /\ En(a, "verificar") /\ LockLibre(a)
    /\ IF SinDuplicado(s) THEN Ir(a, "reservar") ELSE SinEnviar(a, s, "nada", FALSE)
    /\ SinFalla /\ UNCHANGED tablas

\* crear_guarda_pre_arca: one active guard per point of sale
Reservable(a) == ~HayGuardaActiva

\* Guard and intentos in one transaction; a check before it may fail
Reservar(a) ==
    LET s == Primeros(mem[a].pend, mem[a].chunk) IN
    /\ En(a, "reservar") /\ FilasLibres(a)
    /\ \/ \E r \in BOOLEAN : SinEnviar(a, s, "nada", r) /\ UNCHANGED guardas
       \/ /\ Reservable(a)
          /\ guardas' = Append(guardas, GuardaNueva(K(a), s))
          /\ mem' = [mem EXCEPT ![a].pc = "marcar", ![a].sub = s, ![a].pend = @ \ s,
                                ![a].guarda = Len(guardas) + 1, ![a].iniciada = FALSE]
    /\ SinFalla /\ UNCHANGED <<lote, grupo, op>>

\* The commit of the reservation fails: its guard was registered in memory
ReservarPerdida(a) ==
    /\ En(a, "reservar") /\ FilasLibres(a)
    /\ mem' = [mem EXCEPT ![a].pc = "recuperar", ![a].guarda = -1,
                          ![a].iniciada = FALSE]
    /\ Falla /\ UNCHANGED tablas

\* Guard i in its last phase, and its intentos with it
GuardaCerrada(i, fase, aut) ==
    [guardas EXCEPT
        ![i].fase = fase,
        ![i].intento = [g \in guardas[i].grupos |->
            IF fase = "cerrada_pre_arca" THEN "fallido_verificado"
            ELSE IF g \in aut THEN "autorizado" ELSE "rechazado_arca"]]

\* marcar_arca_iniciada: the owner is that of the session's copy of the lote,
\* the states are read in the UPDATE
Marcable(a) ==
    LET i == mem[a].guarda IN
    /\ mem[a].vista.dueno = K(a)
    /\ Conserva(K(a), mem[a].vista.async, mem[a].vista.material)
    /\ guardas[i].fase = "pre_arca"
    /\ \A g \in mem[a].sub : guardas[i].intento[g] = "en_proceso"
    /\ mem[a].sub \subseteq Con(grupo, "validado")
    /\ lote.estado = "procesando"

\* The numbers are read again, then the guard crosses to arca_iniciada.  If not,
\* a batch closes its guard at once and a single group in its own commit
Marcar(a) ==
    LET i == mem[a].guarda
        s == mem[a].sub IN
    /\ En(a, "marcar")
    /\ \/ /\ Marcable(a)
          /\ guardas' = [guardas EXCEPT ![i].fase = "arca_iniciada"]
          /\ mem' = [mem EXCEPT ![a].pc = "solicitar", ![a].iniciada = TRUE]
       \/ \E r \in BOOLEAN :
             /\ Marcable(a) => ~r
             /\ IF Cardinality(s) > 1
                THEN /\ guardas' = GuardaCerrada(i, "cerrada_pre_arca", {})
                     /\ SinEnviar(a, s, "nada", r)
                ELSE /\ SinEnviar(a, s, "cerrada_pre_arca", r)
                     /\ UNCHANGED guardas
    /\ SinFalla /\ UNCHANGED <<lote, grupo, op>>

\* The commit is applied but its answer is lost
MarcarAmbigua(a) ==
    /\ En(a, "marcar") /\ Marcable(a)
    /\ guardas' = [guardas EXCEPT ![mem[a].guarda].fase = "arca_iniciada"]
    /\ Falla /\ Ir(a, "recuperar")
    /\ UNCHANGED <<lote, grupo, op>>

Solicitar(a) ==
    /\ En(a, "solicitar")
    /\ guardas' = [guardas EXCEPT ![mem[a].guarda].arca = "en_vuelo"]
    /\ Ir(a, "esperar")
    /\ SinFalla /\ UNCHANGED <<lote, grupo, op>>

\* ARCA: authorises some of the groups, or rejects the whole request
ArcaProcesa(i) ==
    /\ guardas[i].arca = "en_vuelo"
    /\ \/ \E s \in SUBSET guardas[i].grupos :
             guardas' = [guardas EXCEPT ![i].arca = "procesada", ![i].aut = s]
       \/ guardas' = [guardas EXCEPT ![i].arca = "rechazo_global"]
    /\ SinFalla /\ UNCHANGED <<lote, grupo, op, mem>>

\* A verifiable answer: nothing is committed until the first group is applied
RecibirResultado(a) ==
    LET i == mem[a].guarda IN
    /\ En(a, "esperar") /\ guardas[i].arca = "procesada"
    /\ mem' = [mem EXCEPT ![a].pc = "aplicar", ![a].aut = guardas[i].aut,
                          ![a].cierre = "cerrada_terminal"]
    /\ SinFalla /\ UNCHANGED tablas

\* Ownership both closures after ARCA demand, under locks
PoseeTrasArca(a, estados) ==
    /\ op[K(a)].estado \in estados
    /\ lote.dueno = K(a) /\ lote.material = mem[a].sel
    /\ IF a = Worker THEN ProgresoValido(K(a), lote.material)
                     ELSE op[K(a)].resp = "nula"

\* Groups of the operation with an intento
ConIntento(k) == UNION {guardas[i].grupos : i \in GuardasDe(k)}

RechazoAplicable(a) ==
    LET i == mem[a].guarda IN
    /\ PoseeTrasArca(a, {"en_proceso"})
    /\ lote.async = (a = Worker)
    /\ mem[a].sub \cap UNION {guardas[j].grupos : j \in GuardasDe(K(a)) \ {i}} = {}
    /\ mem[a].pend \subseteq Con(grupo, "validado") \ ConIntento(K(a))

\* _cerrar_lote_por_rechazo_global: the groups not sent are fallido too; closed
\* and published in one transaction
CerrarRechazoGlobal(a) ==
    LET k == K(a)
        gr == [g \in Grupos |-> IF g \in mem[a].sub \cup mem[a].pend
                                THEN "fallido" ELSE grupo[g]] IN
    /\ En(a, "esperar") /\ guardas[mem[a].guarda].arca = "rechazo_global"
    /\ IF RechazoAplicable(a)
       THEN /\ grupo' = gr
            /\ guardas' = GuardaCerrada(mem[a].guarda, "cerrada_terminal", {})
            /\ lote' = [lote EXCEPT !.estado = EstadoLote(gr), !.vieja = FALSE]
            /\ ResponderOperacion(k, "rechazado_arca", "final")
            /\ Fin(a, "final")
       ELSE AnteCorte(a) /\ UNCHANGED tablas
    /\ SinFalla

\* Mutant of GuardasInciertas: a timeout is taken for a failure before ARCA
GuardasInciertasCerradas(k, S) ==
    [i \in DOMAIN guardas |->
        IF i \notin GuardasDe(k) \/ guardas[i].fase # "arca_iniciada" THEN guardas[i]
        ELSE [guardas[i] EXCEPT
                !.fase = "cerrada_pre_arca",
                !.intento = [g \in guardas[i].grupos |-> "fallido_verificado"]]]

\* The intentos of S and the guards of k that may have reached ARCA
GuardasInciertas(k, S) ==
    [i \in DOMAIN guardas |->
        IF i \notin GuardasDe(k) THEN guardas[i]
        ELSE [guardas[i] EXCEPT
                !.fase = IF @ = "arca_iniciada" THEN "requiere_reconciliacion" ELSE @,
                !.intento = [g \in guardas[i].grupos |->
                    IF g \in S THEN "requiere_reconciliacion" ELSE @[g]]]]

\* _cerrar_lote_por_incertidumbre_post_arca: timeout, unreadable answer or a
\* failure to store it; the groups not sent are held too
CerrarIncertidumbre(a) ==
    LET k == K(a)
        s == mem[a].sub \cup mem[a].pend IN
    /\ En(a, "esperar")
    /\ IF PoseeTrasArca(a, {"en_proceso", "requiere_reconciliacion"})
       THEN /\ guardas' = GuardasInciertas(k, s)
            /\ Inmovilizar(s)
            /\ ResponderOperacion(k, "requiere_reconciliacion", "final")
            /\ Fin(a, "final")
       ELSE AnteCorte(a) /\ UNCHANGED tablas
    /\ SinFalla

\* One commit per group; the first one carries the closure of the guard
AplicarGrupo(a) ==
    LET m  == mem[a]
        g  == CHOOSE h \in m.sub : \A j \in m.sub : h <= j
        gr == [grupo EXCEPT ![g] = IF g \in m.aut THEN "autorizado" ELSE "fallido"]
        e  == Recalculado(m.vista.estado, gr) IN
    /\ En(a, "aplicar")
    /\ grupo' = gr
    /\ guardas' = IF m.cierre = "nada" THEN guardas
                  ELSE GuardaCerrada(m.guarda, m.cierre, m.aut)
    /\ lote' = Escribir(lote, m.vista, e)
    /\ mem' = [mem EXCEPT ![a].sub = @ \ {g}, ![a].cierre = "nada",
                 ![a].vista.estado = e,
                 ![a].pc = IF m.sub # {g} THEN "aplicar"
                           ELSE IF m.pend # {} THEN "verificar" ELSE "terminar"]
    /\ SinFalla /\ UNCHANGED op

\* End of procesar_lote; the worker publishes in the same commit
Terminar(a) ==
    LET k == K(a)
        e == EstadoLote(grupo)
        l == Escribir(lote, mem[a].vista, e) IN
    /\ En(a, "terminar")
    /\ IF a # Worker
       THEN /\ lote' = l /\ UNCHANGED op
            /\ mem' = [mem EXCEPT ![a].pc = "publicar", ![a].vista.estado = e]
       ELSE IF PublicableBackground(k, e, mem[a].vista.material)
       THEN lote' = l /\ ResponderOperacion(k, EstadoPublicado(e), "final")
            /\ Fin(a, "final")
       ELSE Fin(a, "error") /\ UNCHANGED <<lote, op>>
    /\ SinFalla /\ UNCHANGED <<grupo, guardas>>

\* The request publishes in a transaction of its own; if its CAS loses, the
\* answer of the winner is served
Publicar(a) ==
    LET k == K(a)
        e == IF mem[a].vista.estado = "requiere_reconciliacion"
             THEN "requiere_reconciliacion" ELSE "finalizado" IN
    /\ En(a, "publicar")
    /\ IF Publicable(k, e) THEN ResponderOperacion(k, e, "final") /\ Fin(a, "final")
       ELSE /\ IF Replicable(k) /\ op[k].resp = "final" THEN Fin(a, "final")
               ELSE AnteCorte(a)
            /\ UNCHANGED op
    /\ SinFalla /\ UNCHANGED <<lote, grupo, guardas>>

----------------------------------------------------------------------------
(* Recovery before ARCA.                                                    *)

\* Evidence of the other sublotes of the operation: closed and coherent
AjenaCoherente(j) ==
    \A g \in guardas[j].grupos :
        \/ /\ guardas[j].fase = "cerrada_terminal"
           /\ guardas[j].intento[g] \in {"autorizado", "rechazado_arca"}
        \/ /\ guardas[j].fase = "cerrada_pre_arca"
           /\ guardas[j].intento[g] = "fallido_verificado"

\* recuperar_guarda_interrumpida_pre_arca, of a guard with SQL NULL response in o
ResultadoGuarda(k, i, resp) ==
    LET ajenas == GuardasDe(k) \ {i} IN
    IF i \notin GuardasDe(k) \/ resp # "nula" \/ \E j \in ajenas : ~AjenaCoherente(j)
    THEN "no_recuperable"
    ELSE IF guardas[i].fase \in {"arca_iniciada", "requiere_reconciliacion"}
    THEN "ambigua"
    ELSE IF guardas[i].fase \in {"pre_arca", "cerrada_pre_arca"}
            /\ op[k].estado = "en_proceso"
    THEN IF ajenas = {} THEN "recuperada" ELSE "reconciliacion"
    ELSE "no_recuperable"

\* Mutant of GuardaRecuperada: a guard still before ARCA is left open
GuardaSinCerrar(i, r) == guardas

\* What it writes to the guard and its intentos
GuardaRecuperada(i, r) ==
    IF r = "ambigua"
    THEN [guardas EXCEPT
            ![i].fase = "requiere_reconciliacion",
            ![i].intento = [g \in guardas[i].grupos |->
                IF @[g] = "en_proceso" THEN "requiere_reconciliacion" ELSE @[g]]]
    ELSE GuardaCerrada(i, "cerrada_pre_arca", {})

\* recuperar_lote_interrumpido_pre_arca (with commit = FALSE: one transaction)
Recuperar(a) ==
    LET k == K(a)
        i == mem[a].guarda
        r == ResultadoGuarda(k, i, op[k].resp)
        toma == IF Modo[a] = "background" THEN {"validado"} ELSE {"procesando", "validado"}
        libera == /\ op' = [op EXCEPT ![k].estado = "interrumpida_pre_arca"]
                  /\ lote' = [lote EXCEPT !.estado = "validado", !.vieja = FALSE]
                  /\ Fin(a, "reintentable") IN
    /\ a # Worker /\ En(a, "recuperar")
    /\ CASE /\ i = 0 /\ op[k].estado = "en_proceso" /\ op[k].resp = "nula"
            /\ GuardasDe(k) = {} /\ lote.estado \in toma
            -> libera /\ UNCHANGED <<grupo, guardas>>
         [] i > 0 /\ r \in {"ambigua", "reconciliacion"}
            -> /\ guardas' = GuardaRecuperada(i, r)
               /\ op' = [op EXCEPT ![k].estado = IF @ = "en_proceso"
                                   THEN "requiere_reconciliacion" ELSE @]
               /\ Inmovilizar(guardas[i].grupos)
               /\ Fin(a, "post_arca")
         [] /\ i > 0 /\ r = "recuperada" /\ lote.estado \in toma
            /\ guardas[i].grupos \subseteq Con(grupo, "validado")
            -> libera /\ guardas' = GuardaRecuperada(i, r) /\ UNCHANGED grupo
         [] OTHER -> Fin(a, "bloqueado") /\ UNCHANGED tablas
    /\ SinFalla

\* The database is still down: nothing is written
RecuperarSinBase(a) ==
    /\ a # Worker /\ (En(a, "recuperar") \/ En(a, "recuperar_creacion"))
    /\ Fin(a, "bloqueado") /\ Falla /\ UNCHANGED tablas

----------------------------------------------------------------------------
(* POST .../descartar: a group that will not be emitted.                    *)

Activos == {"en_cola", "procesando"}

\* _validar_lote_resoluble
Resoluble(estado) ==
    estado \notin Activos \cup Cerrados \cup {"requiere_reconciliacion"}

DescartarLeer(a) ==
    /\ En(a, "inicio") /\ Modo[a] = "descartar"
    /\ IF Resoluble(lote.estado)
       THEN \E g \in Grupos :
              IF grupo[g] \in Resolubles
              THEN mem' = [mem EXCEPT ![a].pc = "descartar", ![a].vista = lote,
                                      ![a].sub = {g}]
              ELSE Fin(a, "error")
       ELSE Fin(a, "error")
    /\ SinFalla /\ UNCHANGED tablas

\* The group is claimed by CAS, the lote is not read again
Descartar(a) ==
    LET g  == CHOOSE h \in mem[a].sub : TRUE
        gr == [grupo EXCEPT ![g] = "descartado"] IN
    /\ En(a, "descartar")
    /\ IF grupo[g] \in Resolubles
       THEN /\ grupo' = gr
            /\ lote' = Escribir(lote, mem[a].vista, Recalculado(mem[a].vista.estado, gr))
            /\ Fin(a, "final")
       ELSE Fin(a, "error") /\ UNCHANGED <<lote, grupo>>
    /\ SinFalla /\ UNCHANGED <<op, guardas>>

----------------------------------------------------------------------------
(* Restart of the process and passing of time.                              *)

\* Requests are cut without an answer and the worker starts a new cycle
Caida ==
    /\ caidas < MaxCaidas /\ caidas' = caidas + 1 /\ UNCHANGED fallas
    /\ \E a \in Actores : mem[a].pc \notin {"inicio", "fin"}
    /\ mem' = [a \in Actores |->
                 IF a = Worker \/ mem[a].pc = "inicio" THEN Inicial("inicio")
                 ELSE IF mem[a].pc = "fin" THEN mem[a]
                 ELSE [Inicial("fin") EXCEPT !.resp = "cortada"]]
    /\ UNCHANGED tablas

Corriendo ==
    \E a \in Actores : mem[a].pc \in {"releer", "capacidad", "verificar", "reservar",
        "marcar", "solicitar", "esperar", "aplicar", "terminar", "recuperar"}

\* updated_at falls behind batch_processing_stale_minutes
Envejecer ==
    /\ lote.estado = "procesando" /\ ~lote.vieja
    /\ LoteLento \/ ~Corriendo
    /\ lote' = [lote EXCEPT !.vieja = TRUE]
    /\ SinFalla /\ UNCHANGED <<grupo, op, guardas, mem>>

----------------------------------------------------------------------------
PasoSolicitud(a) ==
    \/ LeerLote(a) \/ CrearOperacion(a) \/ CrearAmbigua(a) \/ RecuperarCreacion(a)
    \/ ReclamarOperacion(a) \/ EncontrarOperacion(a) \/ ResponderEnCurso(a)
    \/ Preparar(a) \/ Encolar(a) \/ Publicar(a) \/ GuardarError(a)
    \/ Recuperar(a) \/ RecuperarSinBase(a)
    \/ DescartarLeer(a) \/ Descartar(a)

\* procesar_lote, of a request or of the worker
PasoCorrida(a) ==
    \/ Tomar(a) \/ Releer(a) \/ Capacidad(a)
    \/ Verificar(a) \/ Reservar(a) \/ ReservarPerdida(a) \/ Marcar(a) \/ MarcarAmbigua(a)
    \/ Solicitar(a) \/ RecibirResultado(a)
    \/ CerrarRechazoGlobal(a) \/ CerrarIncertidumbre(a)
    \/ AplicarGrupo(a) \/ Terminar(a) \/ CorteDeBase(a)

Entorno ==
    \/ \E i \in DOMAIN guardas : ArcaProcesa(i)
    \/ Caida \/ Envejecer
==============================================================================
