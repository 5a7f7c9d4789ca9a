------------------------------ MODULE LoteWorker ------------------------------
(****************************************************************************)
(* The background worker over the lote of LoteProcesamiento: each cycle     *)
(* first decides what to do with a lote left procesando for too long and    *)
(* then runs procesar_lote on what is en_cola.  An outage before ARCA puts  *)
(* the lote back in the queue.                                              *)
(*                                                                          *)
(* One cycle is a walk of mem[Worker].pc from inicio to inicio.             *)
(****************************************************************************)
EXTENDS LoteProcesamiento

HayGuardaActivaDe(k) == \E i \in GuardasDe(k) : Activa(i)

----------------------------------------------------------------------------
(* Queue.                                                                   *)

Listar ==
    /\ En(Worker, "inicio") /\ lote.estado = "en_cola"
    /\ Ir(Worker, "en_curso")
    /\ SinFalla /\ UNCHANGED tablas

\* procesar_lote(reanudar = TRUE) reads the lote it was told of: the operation
\* and the material are those of its metadata
LeerEnCola ==
    /\ En(Worker, "en_curso")
    /\ mem' = [mem EXCEPT ![Worker].pc = "tomar", ![Worker].op = lote.dueno,
                 ![Worker].vista = lote, ![Worker].mat = lote.material]
    /\ SinFalla /\ UNCHANGED tablas

----------------------------------------------------------------------------
(* Stale lotes: bloquear_lote_procesando_stale.                             *)

\* _grupo_validado_stale_intacto
Intacto(g) == GuardasConGrupo(g) = {}

Intactos(gr) == {g \in Con(gr, "validado") : Intacto(g)}

\* Mutant of Reclamada: the operation of the owner is not looked at
ReclamadaPorDueno(k) == lote.dueno = k

\* The owner's operation still has the lote
Reclamada(k) == lote.dueno = k /\ Conserva(k, TRUE, lote.material)

\* Local evidence is complete: no uncertain intento, each authorised group backed
Coherente(gr) == ~HayInciertos /\ \A g \in Con(gr, "autorizado") : Respaldado(g)

\* Mutant of Stale: only what was queued is looked at
StaleSoloAsync == lote.estado = "procesando" /\ lote.vieja /\ lote.async

\* updated_at is older than batch_processing_stale_minutes
Stale == lote.estado = "procesando" /\ lote.vieja

\* Classification and, if everything is intact, a diagnosis against ARCA with no
\* transaction open.  A lote whose guard is active is left as it is
BloquearInicio ==
    LET k == lote.dueno
        validos == Con(grupo, "validado")
        reanudable == /\ Reclamada(k) /\ validos # {} /\ Intactos(grupo) = validos
                      /\ Coherente(grupo) IN
    /\ En(Worker, "inicio") /\ Stale /\ ~HayGuardaActivaDe(k)
    /\ \E p \in {"ok", "error", "no"} :
          /\ p = "no" <=> ~reanudable
          /\ p = "ok" => validos = lote.material
          /\ mem' = [mem EXCEPT ![Worker].pc = "bloquear", ![Worker].op = k,
                       ![Worker].mat = Intactos(grupo), ![Worker].preflight = p]
    /\ SinFalla /\ UNCHANGED tablas

\* Groups with an authorised intento that its commit never reached
Vinculados == [g \in Grupos |-> IF grupo[g] = "validado" /\ Respaldado(g)
                                THEN "autorizado" ELSE grupo[g]]

\* Everything is read again under locks, then: close, queue again or hold
BloquearFin ==
    LET k == mem[Worker].op
        gr == Vinculados
        valido == Reclamada(k)
        p == mem[Worker].preflight
        mismos == Intactos(gr) = mem[Worker].mat
        retenidos == IF valido /\ p # "error" /\ mismos
                     THEN Con(gr, "validado") \ Intactos(gr) ELSE Con(gr, "validado")
        publica(e) == IF valido THEN ResponderOperacion(k, e, "final")
                                ELSE UNCHANGED op IN
    /\ En(Worker, "bloquear")
    /\ CASE ~Stale \/ HayGuardaActivaDe(k) -> UNCHANGED tablas
         [] Stale /\ ~HayGuardaActivaDe(k) /\ EstadoLote(gr) \in Cerrados /\ Coherente(gr)
            -> /\ grupo' = gr
               /\ lote' = [lote EXCEPT !.estado = EstadoLote(gr), !.vieja = FALSE]
               /\ publica("finalizado") /\ UNCHANGED guardas
         [] OTHER
            -> IF valido /\ p = "ok" /\ mismos
               THEN /\ grupo' = gr
                    /\ lote' = [lote EXCEPT !.estado = "en_cola", !.async = TRUE,
                                            !.vieja = FALSE]
                    /\ UNCHANGED <<op, guardas>>
               ELSE /\ grupo' = [g \in Grupos |-> IF g \in retenidos
                                    THEN "requiere_reconciliacion" ELSE gr[g]]
                    /\ lote' = [lote EXCEPT !.estado = "requiere_reconciliacion",
                                            !.vieja = FALSE]
                    /\ publica("requiere_reconciliacion") /\ UNCHANGED guardas
    /\ Fin(Worker, "final")
    /\ SinFalla

----------------------------------------------------------------------------
(* recuperar_lote_worker_interrumpido_pre_arca: the operation is the current  *)
(* owner of the lote, its marker is set aside while the guard is recovered.  *)

Reencolar == lote' = [lote EXCEPT !.estado = "en_cola", !.vieja = FALSE]

RecuperarWorker ==
    LET k == lote.dueno
        i == mem[Worker].guarda
        r == ResultadoGuarda(k, i, "nula")
        propia == i > 0 /\ op[k].estado = "en_proceso" /\ ProgresoValido(k, lote.material) IN
    /\ En(Worker, "recuperar")
    /\ CASE i = 0 /\ GuardasDe(k) = {} /\ lote.estado \in Activos
            -> Reencolar /\ UNCHANGED <<grupo, op, guardas>>
         [] propia /\ r \in {"ambigua", "reconciliacion"}
            -> /\ guardas' = GuardaRecuperada(i, r)
               /\ ResponderOperacion(k, "requiere_reconciliacion", "nula")
               /\ Inmovilizar(guardas[i].grupos)
         [] /\ propia /\ r = "recuperada" /\ lote.estado \in Activos
            /\ guardas[i].grupos \subseteq Con(grupo, "validado")
            -> Reencolar /\ guardas' = GuardaRecuperada(i, r) /\ UNCHANGED <<grupo, op>>
         [] OTHER -> UNCHANGED tablas
    /\ Fin(Worker, "error")
    /\ SinFalla

RecuperarWorkerSinBase ==
    /\ En(Worker, "recuperar")
    /\ Fin(Worker, "error") /\ Falla /\ UNCHANGED tablas

----------------------------------------------------------------------------
PasoWorker ==
    \/ Listar \/ LeerEnCola \/ BloquearInicio \/ BloquearFin
    \/ RecuperarWorker \/ RecuperarWorkerSinBase
    \/ PasoCorrida(Worker)

Next ==
    \/ \E a \in Solicitudes : PasoSolicitud(a) \/ PasoCorrida(a)
    \/ PasoWorker
    \/ Entorno

Spec == Init /\ [][Next]_vars

\* A request that has arrived advances, the worker polls for ever and time
\* passes; ARCA, the clients and the database owe nothing
PasoEnCurso(a) == mem[a].pc # "inicio" /\ (PasoSolicitud(a) \/ PasoCorrida(a))

FairSpec ==
    /\ Spec
    /\ \A a \in Solicitudes : WF_vars(PasoEnCurso(a))
    /\ WF_vars(PasoWorker) /\ WF_vars(Envejecer)

----------------------------------------------------------------------------
(* Properties.                                                              *)

Enviada(i) == guardas[i].arca # "no_enviada"

TypeOK ==
    /\ lote \in [estado : EstadosLote, async : BOOLEAN, dueno : Claves \cup {Nadie},
                 material : SUBSET Grupos, vieja : BOOLEAN]
    /\ grupo \in [Grupos -> EstadosGrupo]
    /\ op \in [Claves -> [estado : EstadosOperacion, resp : Respuestas,
                          huella : SUBSET Grupos, material : SUBSET Grupos]]
    /\ \A i \in DOMAIN guardas :
          /\ guardas[i].op \in Claves /\ guardas[i].grupos \subseteq Grupos
          /\ guardas[i].intento \in [guardas[i].grupos ->
                {"en_proceso", "autorizado", "rechazado_arca", "fallido_verificado",
                 "requiere_reconciliacion"}]
          /\ guardas[i].aut \subseteq guardas[i].grupos
    /\ \A a \in Actores : mem[a].pc \in Pasos /\ mem[a].guarda \in -1..Len(guardas)

\* No group goes to ARCA in two FECAESolicitar.  The code keeps it for a client
\* that calls one request at a time (SpecDeAUna) and between two synchronous
\* requests, not for every mix of them: see UnaAutorizacionPorGrupo
UnEnvioPorGrupo ==
    \A i, j \in DOMAIN guardas :
        Enviada(i) /\ Enviada(j) /\ i # j => guardas[i].grupos \cap guardas[j].grupos = {}

\* The lote is asked for twice, inside the requests: neither hands it to the worker
DosSincronicas ==
    Cardinality(Solicitudes) <= 2 /\ \A a \in Solicitudes : Modo[a] = "sync"

\* Between two synchronous requests, with one key or with two, no group goes to
\* ARCA in two FECAESolicitar although the stale check of the worker, an outage or
\* a restart comes in between.  Out of that scope the code does not promise it:
\* three requests, or one in the background, may send a group twice
UnEnvioEntreSincronicas == DosSincronicas => UnEnvioPorGrupo

\* "Un lote ya tomado no puede volver a tomarse para emisión": whatever keys compete
\* for the lote, ARCA authorises a group at most once.  encolar_lote breaks it
UnaAutorizacionPorGrupo ==
    \A i, j \in DOMAIN guardas : i # j => guardas[i].aut \cap guardas[j].aut = {}

\* What ARCA authorised stays known: the intento of the group is authorised or
\* in reconciliation, or its guard still blocks the point of sale
CaeConservado ==
    \A i \in DOMAIN guardas : \A g \in guardas[i].aut :
        \/ Activa(i)
        \/ guardas[i].intento[g] \in {"autorizado", "requiere_reconciliacion"}

\* A lote is completado only when each group has exactly one authorised intento,
\* of a request ARCA answered with that group authorised
CompletadoVeraz ==
    lote.estado = "completado" =>
        \A g \in Grupos : \E i \in GuardasConGrupo(g) :
            g \in guardas[i].aut /\ Respaldado(g)

\* Once no run is under way, no group marked fallido was authorised by ARCA
FallidoSinCae ==
    ~Corriendo => \A g \in Con(grupo, "fallido") : \A i \in GuardasConGrupo(g) :
                      g \notin guardas[i].aut

\* A published final answer is never replaced
RespuestaFinalEstable ==
    [][\A k \in Claves : op[k].resp = "final" => op'[k] = op[k]]_vars

\* While a lote waits in the queue nothing of its owner can be in ARCA
ColaSinGuarda == lote.estado = "en_cola" => ~HayGuardaActivaDe(lote.dueno)

\* The rows keep their shape, and the queue what it promises to the worker
ColaCoherente == TypeOK /\ ColaSinGuarda

\* A lote in the queue is eventually taken: what the documents promise, and the
\* code does not keep (README, section 5)
ColaSeAtiende == lote.estado = "en_cola" ~> lote.estado # "en_cola"

\* A lote left procesando is eventually queued again or closed, unless a guard of
\* its owner still blocks the point
ProcesandoSeDecide ==
    lote.estado = "procesando" ~>
        lote.estado # "procesando" \/ HayGuardaActivaDe(lote.dueno)
==============================================================================
