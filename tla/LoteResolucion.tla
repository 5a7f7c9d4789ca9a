---------------------------- MODULE LoteResolucion ----------------------------
(****************************************************************************)
(* What the user does with a lote that already ran: retry of its failed     *)
(* groups (POST .../reintentar-fallidos), reconciliation of comprobantes    *)
(* issued outside, discard of groups, compaction and deletion of the lote.  *)
(*                                                                          *)
(* One lote of one company, point and tipo, RECE context fixed.  An action  *)
(* is one database transaction or one ARCA call.  A session keeps the lote  *)
(* as it read it (mem[a].v) until a SELECT ... FOR UPDATE with              *)
(* populate_existing, and writes its estado only if it differs from that    *)
(* copy.  A discard or a reconciliation holds the row of its group and its  *)
(* count of the lote until its commit (mem[a].toma); whoever needs the row  *)
(* waits.  After a rollback the ORM objects are expired: the handler that   *)
(* touches them afterwards dies with what was committed before.             *)
(*                                                                          *)
(* Answers that change nothing leave the request where it was.  Left out:   *)
(* the confirmation of the date and of a logical duplicate, a group whose   *)
(* stored request cannot be read, and more than one group per discard or    *)
(* reconciliation.                                                          *)
(****************************************************************************)
EXTENDS Integers, FiniteSets, Sequences

CONSTANTS
    Reintentos,    \* requests that retry failed groups, one after the other
    Usuario,       \* the session of the other resolutive actions
    Claves,        \* values of X-Idempotency-Key
    Previa,        \* the operation that processed the lote
    Nadie,         \* owner of a lote never processed
    Grupos,        \* groups of the lote, in their order
    Iniciales,     \* states in which procesar or the upload left the groups
    Selecciones,   \* sets of groups that a retry with each key may ask for
    MaxIntentos,   \* bound: intentos of the lote
    MaxIncidentes  \* bound: database outages and comprobantes of the web

ASSUME ResolucionAssumption ==
    /\ Usuario \notin Reintentos
    /\ Previa \notin Claves /\ Nadie \notin Claves \cup {Previa}
    /\ Grupos \subseteq Nat \ {0} /\ IsFiniteSet(Grupos) /\ Grupos # {}
    /\ Iniciales \subseteq
         [Grupos -> {"autorizado", "fallido", "con_error", "requiere_reconciliacion"}]
    /\ MaxIntentos \in Nat /\ MaxIncidentes \in Nat

ASSUME SeleccionesAssumption ==
    \A k \in Claves : Selecciones[k] \subseteq (SUBSET Grupos) \ {{}}

VARIABLES
    lote,          \* lotes_comprobantes: state, owner operation, operation of a
                   \* global rejection, compacted, and whether the row exists
    grupo,         \* state and number of each group (0: no CAE nor comprobante)
    fila,          \* state of the rows of each group
    op,            \* operaciones_idempotentes by key
    intentos,      \* intentos_emision_fiscal in order, with the phase of their guard
    arca,          \* what ARCA authorised, by number: group and way
    comprobantes,  \* numbers of the local comprobantes
    mem,           \* in-memory state of each session
    fallas,        \* database outages so far
    cruzados       \* history: groups the user reconciled with a comprobante of the
                   \* web while an open request had them selected

tablas == <<lote, grupo, fila, op, intentos, comprobantes>>
vars   == <<lote, grupo, fila, op, intentos, arca, comprobantes, mem, fallas, cruzados>>

----------------------------------------------------------------------------
(* Vocabulary.                                                              *)

Operaciones == Claves \cup {Previa}
Sesiones == Reintentos \cup {Usuario}

EstadosGrupo ==
    {"validado", "con_error", "fallido", "reintentando", "autorizado",
     "autorizado_externo", "descartado", "requiere_reconciliacion"}
Resolubles     == {"validado", "con_error", "fallido"}
Reconciliables == Resolubles \cup {"requiere_reconciliacion", "reintentando"}

Cerrados == {"completado", "cerrado_reconciliado", "cerrado_con_descartes"}
Terminales == Cerrados \cup {"fallido", "requiere_reconciliacion"}
EstadosLote == Terminales \cup {"autorizado_parcial", "con_errores", "validado"}

\* What an intento may still be worth in ARCA
Inciertos == {"en_proceso", "requiere_reconciliacion"}
\* States whose answer lets the lote change hands
Transferibles == {"finalizado", "fallido_verificado", "rechazado_arca"}

Con(gr, S) == {g \in Grupos : gr[g].estado \in S}
IntentosDe(k) == {i \in DOMAIN intentos : intentos[i].op = k}
EnVuelo(k) == {i \in IntentosDe(k) : intentos[i].estado \in Inciertos}

\* Mutant of EstadoLote: a group in reintentando does not count as pending
EstadoLoteSinReintentos(gr) ==
    IF Con(gr, {"descartado", "reintentando"}) = Grupos THEN "cerrado_con_descartes"
    ELSE IF Con(gr, {"requiere_reconciliacion", "reintentando"}) # {}
    THEN "requiere_reconciliacion" ELSE "fallido"

\* _actualizar_estado_lote: the order of its branches
EstadoLote(gr) ==
    LET emitidos == Con(gr, {"autorizado"})
        resueltos == Con(gr, {"autorizado", "autorizado_externo", "descartado"}) IN
    CASE Con(gr, {"requiere_reconciliacion", "reintentando"}) # {} -> "requiere_reconciliacion"
      [] emitidos = Grupos -> "completado"
      [] resueltos = Grupos ->
            IF Con(gr, {"descartado"}) # {} THEN "cerrado_con_descartes"
            ELSE "cerrado_reconciliado"
      [] Con(gr, {"autorizado", "autorizado_externo"}) # {} -> "autorizado_parcial"
      [] Con(gr, {"con_error"}) # {} -> "con_errores"
      [] Con(gr, {"validado"}) # {} -> "validado"
      [] OTHER -> "fallido"

\* UPDATE of the lote from the copy v: estado is written if it differs from it
Escribir(v, e) == [lote EXCEPT !.estado = IF v.estado = e THEN @ ELSE e]

----------------------------------------------------------------------------
(* Initial states: a lote that procesar left with something to resolve.     *)

SinOperacion == [estado |-> "inexistente", resp |-> "nula", sel |-> {}]
OperacionPrevia(estado) == [estado |-> estado, resp |-> "final", sel |-> Grupos]

Intento(k, g, e, fase, n) ==
    [op |-> k, grupo |-> g, estado |-> e, fase |-> fase, numero |-> n]

Libre == [g |-> 0, estado |-> "no", numero |-> 0, lote |-> "fallido"]

\* sel: groups selected; pend: those still to emit; g: the one in course and cae
\* the number its copy had; i: its intento (0: none); res: what emission
\* returned; iniciada: guarda_actual_iniciada; toma: uncommitted resolution
EnReposo(v) ==
    [pc |-> "inicio", op |-> Nadie, sel |-> {}, v |-> v, pend |-> {}, g |-> 0,
     cae |-> 0, i |-> 0, res |-> "nada", iniciada |-> FALSE, toma |-> Libre]

\* What a session's copy of the lote is used for
Visto(l) == [estado |-> l.estado, dueno |-> l.dueno, rechazo |-> l.rechazo]

SinVer == [estado |-> "fallido", dueno |-> Nadie, rechazo |-> Nadie]

LoteInicial(e, k) ==
    [estado |-> e, dueno |-> k, rechazo |-> Nadie, compacto |-> FALSE, existe |-> TRUE]

Primero(S) == CHOOSE g \in S : \A h \in S : g <= h

\* How procesar left the groups; only one with every group in con_error was
\* never processed.  An uncertain group has an intento ARCA may have authorised
Init ==
    \E gr \in Iniciales, enArca \in BOOLEAN :
       LET nunca == \A g \in Grupos : gr[g] = "con_error"
           emit  == {g \in Grupos : gr[g] = "autorizado"}
           duda  == {g \in Grupos : gr[g] = "requiere_reconciliacion"}
           hay   == Cardinality(emit) + Cardinality(duda) IN
       /\ hay <= 1 /\ (enArca => duda # {})
       /\ \E g \in Grupos : gr[g] # "autorizado"
       /\ grupo = [g \in Grupos |->
                     [estado |-> gr[g], numero |-> IF g \in emit THEN 1 ELSE 0]]
       /\ fila = gr
       /\ intentos = IF hay = 0 THEN <<>>
                     ELSE << IF duda = {}
                             THEN Intento(Previa, Primero(emit), "autorizado", "cerrada_terminal", 1)
                             ELSE Intento(Previa, Primero(duda), "requiere_reconciliacion",
                                          "requiere_reconciliacion", 1) >>
       /\ arca = IF emit # {} \/ enArca
                 THEN << [grupo |-> Primero(emit \cup duda), via |-> "propia"] >> ELSE <<>>
       /\ comprobantes = IF emit # {} THEN {1} ELSE {}
       /\ op = [k \in Operaciones |->
                  IF k # Previa \/ nunca THEN SinOperacion
                  ELSE OperacionPrevia(IF duda # {} THEN "requiere_reconciliacion" ELSE "finalizado")]
       /\ lote = LoteInicial(EstadoLote(grupo), IF nunca THEN Nadie ELSE Previa)
       /\ mem = [a \in Sesiones |-> EnReposo(SinVer)]
       /\ fallas = 0 /\ cruzados = {}

----------------------------------------------------------------------------
(* Steps of a session.                                                      *)

En(a, pc) == mem[a].pc = pc
Ir(a, pc) == mem' = [mem EXCEPT ![a].pc = pc]
K(a) == mem[a].op
G(a) == mem[a].g
I(a) == mem[a].i

\* The answer is sent: the session is closed
Fin(a) == mem' = [mem EXCEPT ![a] = EnReposo(SinVer)]

SinFalla == UNCHANGED fallas
DeWeb == {n \in DOMAIN arca : arca[n].via = "web"}
Falla == fallas + Cardinality(DeWeb) < MaxIncidentes /\ fallas' = fallas + 1

\* Rows that a discard or a reconciliation has not committed yet
Tomados == {mem[a].toma.g : a \in Sesiones} \ {0}

\* Transactions of the loop over the groups, and all those an outage undoes
PasosDeGrupo ==
    {"reclamar", "revalidar", "reservar", "marcar", "aplicar"}
PasosConBase == PasosDeGrupo \cup {"preparar", "en_curso", "publicar"}

\* After an outage: ARCA may have the request, or the recovery is tried, of the
\* group in course or only of the operation
TrasCorte(a) ==
    IF mem[a].iniciada THEN Fin(a)
    ELSE Ir(a, IF mem[a].pc \in PasosDeGrupo THEN "recuperar" ELSE "recuperar_op")

\* Mutant of Publicable: the answer is not required to be NULL
PublicableSinNulo(k, e) ==
    op[k].estado \in {"finalizado", IF e = "requiere_reconciliacion" THEN e ELSE "en_proceso"}

\* guardar_resultado_operacion_sync: the state and the NULL answer its CAS expects
Publicable(k, e) ==
    /\ op[k].resp = "nula"
    /\ op[k].estado = IF e = "requiere_reconciliacion" THEN e ELSE "en_proceso"

Responder(k, e, r) == op' = [op EXCEPT ![k].estado = e, ![k].resp = r]

\* _estado_operacion_lote_desde_respuesta, of the copy v of the lote
EstadoPublicado(v, k) ==
    IF v.estado = "requiere_reconciliacion" THEN v.estado
    ELSE IF v.rechazo = k THEN "rechazado_arca" ELSE "finalizado"

----------------------------------------------------------------------------
(* POST /lotes-comprobantes/{id}/reintentar-fallidos.                       *)

\* The lote is read and _resolver_operacion_lote creates the operation, reclaims
\* an interrupted one or finds it open; the same key with another selection is a
\* conflict
Leer(a) ==
    /\ En(a, "inicio") /\ lote.existe
    /\ \E k \in Claves : \E S \in Selecciones[k] :
          LET empezar(pc) ==
                mem' = [mem EXCEPT ![a] = [EnReposo(Visto(lote)) EXCEPT
                                             !.pc = pc, !.op = k, !.sel = S]] IN
          \/ /\ op[k].estado = "inexistente"
             /\ op' = [op EXCEPT ![k] = [estado |-> "en_proceso", resp |-> "nula", sel |-> S]]
             /\ empezar("preparar")
          \/ /\ op[k].estado = "interrumpida_pre_arca" /\ op[k].sel = S
             /\ op' = [op EXCEPT ![k].estado = "en_proceso"]
             /\ empezar("preparar")
          \/ /\ op[k].estado \in Inciertos /\ op[k].sel = S /\ op[k].resp = "nula"
             /\ empezar("en_curso") /\ UNCHANGED op
    /\ SinFalla /\ UNCHANGED <<lote, grupo, fila, intentos, arca, cruzados, comprobantes>>

\* The key's operation is open: a lote that looks finished is its answer
ResponderEnCurso(a) ==
    LET e == EstadoPublicado(mem[a].v, K(a)) IN
    /\ En(a, "en_curso")
    /\ IF mem[a].v.estado \notin Terminales \/ mem[a].v.dueno # K(a)
       THEN Fin(a) /\ UNCHANGED op
       ELSE IF Publicable(K(a), e) THEN Responder(K(a), e, "final") /\ Fin(a)
       ELSE Ir(a, "recuperar_op") /\ UNCHANGED op
    /\ SinFalla /\ UNCHANGED <<lote, grupo, fila, intentos, arca, cruzados, comprobantes>>

\* LoteComprobanteError before ARCA: the error is the answer of the key
GuardarError(a) ==
    IF Publicable(K(a), "fallido_verificado")
    THEN Responder(K(a), "fallido_verificado", "error") /\ Fin(a)
    ELSE Fin(a) /\ UNCHANGED op

\* _validar_lote_resoluble and the selection, all of it in fallido
Preparar(a) ==
    /\ En(a, "preparar")
    /\ IF /\ mem[a].v.estado \notin Cerrados \cup {"requiere_reconciliacion"}
          /\ mem[a].sel \subseteq Con(grupo, {"fallido"}) /\ lote.existe
       THEN /\ mem' = [mem EXCEPT ![a].pc = "reclamar", ![a].pend = mem[a].sel]
            /\ UNCHANGED op
       ELSE GuardarError(a)
    /\ SinFalla /\ UNCHANGED <<lote, grupo, fila, intentos, arca, cruzados, comprobantes>>

\* The operation still owns nothing that may be in ARCA
ConservaOperacion(k) ==
    op[k].estado = "en_proceso" /\ op[k].resp = "nula" /\ EnVuelo(k) = {}

\* Mutant of OwnerTransferible: the intentos of the previous owner are not read
OwnerTransferibleSinIntentos(o, k) == o \in {Nadie, k} \/ op[o].resp = "final"

\* The previous owner answered with the lote and has nothing in flight
OwnerTransferible(o, k) ==
    \/ o \in {Nadie, k}
    \/ /\ op[o].estado \in Transferibles /\ op[o].resp = "final"
       /\ EnVuelo(o) = {}

ReclamableEnOrden(a) ==
    /\ lote.existe /\ lote.dueno = mem[a].v.dueno
    /\ ConservaOperacion(K(a))
    /\ OwnerTransferible(mem[a].v.dueno, K(a))

\* _reclamar_grupo_para_reintento: owner and claim of a group in one commit
Reclamar(a) ==
    LET g == Primero(mem[a].pend) IN
    /\ En(a, "reclamar") /\ mem[a].sel \cap Tomados = {}
    /\ IF ReclamableEnOrden(a) /\ grupo[g].estado = "fallido"
       THEN /\ lote' = [lote EXCEPT !.dueno = K(a)]
            /\ grupo' = [grupo EXCEPT ![g].estado = "reintentando"]
            /\ mem' = [mem EXCEPT ![a].pc = "revalidar", ![a].g = g, ![a].i = 0,
                                  ![a].pend = @ \ {g}, ![a].v = Visto(lote'), ![a].res = "nada"]
       ELSE Fin(a) /\ UNCHANGED <<lote, grupo>>
    /\ SinFalla /\ UNCHANGED <<fila, op, intentos, arca, cruzados, comprobantes>>

\* The claimed group is read again after the commit and, once the number lock is
\* taken, with solo_revalidar: lote and group are refreshed.  Lost at the first
\* read it is an error of the key, later a conflict
Revalidar(a) ==
    /\ En(a, "revalidar") /\ mem[a].sel \cap Tomados = {}
    /\ IF ReclamableEnOrden(a) /\ grupo[G(a)].estado = "reintentando"
       THEN /\ mem' = [mem EXCEPT ![a].pc = "reservar", ![a].v = Visto(lote),
                                  ![a].cae = grupo[G(a)].numero]
            /\ UNCHANGED op
       ELSE \/ GuardarError(a)
            \/ Fin(a) /\ UNCHANGED op
    /\ SinFalla /\ UNCHANGED <<lote, grupo, fila, intentos, arca, cruzados, comprobantes>>

\* _obtener_diagnostico_numeracion: an uncertain intento stops every emission
Diagnosticable == \A i \in DOMAIN intentos : intentos[i].estado \notin Inciertos

IntentoNuevo(a) == Intento(K(a), G(a), "en_proceso", "pre_arca", Len(arca) + 1)

SinEnviar(a) == mem' = [mem EXCEPT ![a].pc = "aplicar", ![a].res = "bloqueado"]

\* The commit of the reservation fails, applied or not
ReservarAmbigua(a) ==
    /\ En(a, "reservar") /\ Len(intentos) < MaxIntentos /\ Diagnosticable /\ lote.existe
    /\ \/ UNCHANGED intentos
       \/ intentos' = Append(intentos, IntentoNuevo(a))
    /\ mem' = [mem EXCEPT ![a].pc = "recuperar", ![a].i = Len(intentos) + 1]
    /\ Falla /\ UNCHANGED <<lote, grupo, fila, op, arca, cruzados, comprobantes>>

\* Guard and intento in one commit; or an error before it, answered as such;
\* or the lote is gone and the foreign key rejects the intento
Reservar(a) ==
    /\ En(a, "reservar") /\ Len(intentos) < MaxIntentos
    /\ \/ SinEnviar(a) /\ UNCHANGED intentos
       \/ /\ Diagnosticable /\ lote.existe
          /\ intentos' = Append(intentos, IntentoNuevo(a))
          /\ mem' = [mem EXCEPT ![a].pc = "marcar", ![a].i = Len(intentos) + 1,
                                ![a].iniciada = FALSE]
       \/ Diagnosticable /\ ~lote.existe /\ Fin(a) /\ UNCHANGED intentos
    /\ SinFalla /\ UNCHANGED <<lote, grupo, fila, op, arca, cruzados, comprobantes>>

\* States of the lote that marcar_arca_iniciada accepts for a retry
LoteMarcable(e) == e \in {"con_errores", "fallido"}

\* marcar_arca_iniciada: owner of the session's copy, the rest read under lock
Marcable(a) ==
    /\ lote.existe /\ mem[a].v.dueno = K(a)
    /\ op[K(a)].estado = "en_proceso" /\ op[K(a)].resp = "nula"
    /\ intentos[I(a)].estado = "en_proceso" /\ intentos[I(a)].fase = "pre_arca"
    /\ grupo[G(a)].estado = "reintentando" /\ LoteMarcable(lote.estado)

\* The last number is read again and nothing is sent if it moved or cannot be
\* read.  A refusal rolls back and the handler dies: claim and guard stay
Marcar(a) ==
    /\ En(a, "marcar") /\ mem[a].sel \cap Tomados = {}
    /\ \/ SinEnviar(a) /\ UNCHANGED intentos
       \/ /\ Marcable(a)
          /\ intentos' = [intentos EXCEPT ![I(a)].fase = "arca_iniciada"]
          /\ mem' = [mem EXCEPT ![a].pc = "solicitar", ![a].iniciada = TRUE]
       \/ ~Marcable(a) /\ Fin(a) /\ UNCHANGED intentos
    /\ SinFalla /\ UNCHANGED <<lote, grupo, fila, op, arca, cruzados, comprobantes>>

\* The commit is applied and its answer lost
MarcarAmbigua(a) ==
    /\ En(a, "marcar") /\ Marcable(a) /\ mem[a].sel \cap Tomados = {}
    /\ intentos' = [intentos EXCEPT ![I(a)].fase = "arca_iniciada"]
    /\ Ir(a, "recuperar")
    /\ Falla /\ UNCHANGED <<lote, grupo, fila, op, arca, cruzados, comprobantes>>

\* FECAESolicitar: a number out of order is rejected; the answer may be lost
Solicitar(a) ==
    LET enOrden == intentos[I(a)].numero = Len(arca) + 1 IN
    /\ En(a, "solicitar")
    /\ \E r \in {"autorizado", "rechazado", "global", "incierto"}, procesa \in BOOLEAN :
          /\ r = "autorizado" => procesa
          /\ r \in {"rechazado", "global"} => ~procesa
          /\ procesa => enOrden
          /\ arca' = IF procesa THEN Append(arca, [grupo |-> G(a), via |-> "propia"]) ELSE arca
          /\ mem' = [mem EXCEPT ![a].pc = "aplicar", ![a].res = r]
    /\ SinFalla /\ UNCHANGED <<tablas, cruzados>>

\* Groups selected that the run did not finish
SinTerminar(a) == mem[a].pend \cup {G(a)}

\* The groups s get the state e, and their rows with them
Marcados(s, e) == [g \in Grupos |-> IF g \in s THEN [grupo[g] EXCEPT !.estado = e] ELSE grupo[g]]
FilasMarcadas(s, e) ==
    IF lote.compacto THEN fila ELSE [g \in Grupos |-> IF g \in s THEN e ELSE fila[g]]

\* Intento of the group in its last state; none if nothing was reserved
Cerrado(a, e, fase) ==
    IF I(a) = 0 THEN intentos ELSE [intentos EXCEPT ![I(a)].estado = e, ![I(a)].fase = fase]

\* On to the next group, or out of the loop with the lote as this session has it
Seguir(a, l) ==
    LET v == [l EXCEPT !.estado = EstadoLote(grupo')] IN
    mem' = [mem EXCEPT ![a] =
              IF mem[a].res \in {"autorizado", "rechazado"} /\ mem[a].pend # {}
              THEN [mem[a] EXCEPT !.pc = "reclamar", !.v = v]
              ELSE [EnReposo(v) EXCEPT !.pc = "publicar", !.op = K(a), !.i = I(a),
                                       !.iniciada = mem[a].iniciada]]

\* uq of comprobantes: nobody registered the number meanwhile
ComprobanteNuevo(a) == intentos[I(a)].numero \notin comprobantes

\* _aplicar_resultado_emision_grupo and the commit of comprobante, intento,
\* guard, group, rows and lote.  The unique number makes it fail as a whole
AplicarAutorizado(a) ==
    /\ mem[a].res = "autorizado"
    /\ IF ComprobanteNuevo(a)
       THEN /\ comprobantes' = comprobantes \cup {intentos[I(a)].numero}
            /\ grupo' = [grupo EXCEPT ![G(a)] =
                            [estado |-> "autorizado", numero |-> intentos[I(a)].numero]]
            /\ fila' = FilasMarcadas({G(a)}, "autorizado")
            /\ intentos' = Cerrado(a, "autorizado", "cerrada_terminal")
            /\ lote' = Escribir(mem[a].v, EstadoLote(grupo'))
            /\ Seguir(a, mem[a].v)
       ELSE Fin(a) /\ UNCHANGED <<comprobantes, grupo, fila, intentos, lote>>
    /\ UNCHANGED op

\* Mutant of Fallidos: a request without an answer counts as failed
FallidosSinRespuesta == {"rechazado", "bloqueado", "incierto"}

\* Results that prove the group was not issued
Fallidos == {"rechazado", "bloqueado"}

\* Rejected by ARCA, or stopped before it: the group can be retried
AplicarFallido(a) ==
    /\ mem[a].res \in Fallidos
    /\ grupo' = Marcados({G(a)}, "fallido")
    /\ fila' = FilasMarcadas({G(a)}, "fallido")
    /\ intentos' = IF mem[a].res = "rechazado"
                   THEN Cerrado(a, "rechazado_arca", "cerrada_terminal")
                   ELSE Cerrado(a, "fallido_verificado", "cerrada_pre_arca")
    /\ lote' = Escribir(mem[a].v, EstadoLote(grupo'))
    /\ Seguir(a, mem[a].v)
    /\ UNCHANGED <<comprobantes, op>>

\* _cerrar_lote_por_rechazo_global: the rest was not sent; owner and operation
\* are checked again and an error leaves everything to reconciliation
AplicarGlobal(a) ==
    /\ mem[a].res = "global"
    /\ IF /\ op[K(a)].estado = "en_proceso" /\ op[K(a)].resp = "nula"
          /\ lote.dueno = K(a)
          /\ \A h \in mem[a].pend :
                /\ grupo[h] = [estado |-> "fallido", numero |-> 0]
                /\ \A i \in IntentosDe(K(a)) : intentos[i].grupo # h
       THEN /\ grupo' = [grupo EXCEPT ![G(a)] =
                            [estado |-> "fallido",
                             numero |-> IF mem[a].cae = 0 THEN @.numero ELSE 0]]
            /\ fila' = FilasMarcadas(SinTerminar(a), "fallido")
            /\ intentos' = Cerrado(a, "rechazado_arca", "cerrada_terminal")
            /\ lote' = [lote EXCEPT !.estado = EstadoLote(grupo'), !.rechazo = K(a)]
            /\ Seguir(a, Visto(lote'))
       ELSE Fin(a) /\ UNCHANGED <<grupo, fila, intentos, lote>>
    /\ UNCHANGED <<comprobantes, op>>

\* _cerrar_lote_por_incertidumbre_post_arca: the group and the rest of the
\* selection, whatever their state is by now
AplicarIncierto(a) ==
    /\ mem[a].res = "incierto"
    /\ IF op[K(a)].estado \in Inciertos /\ op[K(a)].resp = "nula" /\ lote.dueno = K(a)
       THEN /\ grupo' = Marcados(SinTerminar(a), "requiere_reconciliacion")
            /\ fila' = FilasMarcadas(SinTerminar(a), "requiere_reconciliacion")
            /\ intentos' = [i \in DOMAIN intentos |->
                  IF i \in IntentosDe(K(a)) /\ intentos[i].grupo \in SinTerminar(a)
                  THEN [intentos[i] EXCEPT !.estado = "requiere_reconciliacion",
                          !.fase = IF @ = "arca_iniciada" THEN "requiere_reconciliacion" ELSE @]
                  ELSE intentos[i]]
            /\ op' = [op EXCEPT ![K(a)].estado = "requiere_reconciliacion"]
            /\ lote' = [lote EXCEPT !.estado = "requiere_reconciliacion"]
            /\ Seguir(a, Visto(lote'))
       ELSE Fin(a) /\ UNCHANGED <<grupo, fila, intentos, op, lote>>
    /\ UNCHANGED comprobantes

Aplicar(a) ==
    /\ En(a, "aplicar") /\ mem[a].sel \cap Tomados = {}
    /\ AplicarAutorizado(a) \/ AplicarFallido(a) \/ AplicarGlobal(a) \/ AplicarIncierto(a)
    /\ SinFalla /\ UNCHANGED <<arca, cruzados>>

\* The lote as this session left it is the answer of the key
Publicar(a) ==
    LET e == EstadoPublicado(mem[a].v, K(a)) IN
    /\ En(a, "publicar")
    /\ IF Publicable(K(a), e) THEN Responder(K(a), e, "final") /\ Fin(a)
       ELSE TrasCorte(a) /\ UNCHANGED op
    /\ SinFalla /\ UNCHANGED <<lote, grupo, fila, intentos, arca, cruzados, comprobantes>>

----------------------------------------------------------------------------
(* Outages.                                                                 *)

CorteDeBase(a) ==
    /\ mem[a].pc \in PasosConBase
    /\ Falla /\ TrasCorte(a)
    /\ UNCHANGED <<tablas, arca, cruzados>>

\* A discard or a reconciliation is rolled back and answered as an error
CorteDelUsuario ==
    /\ mem[Usuario].pc = "confirmar"
    /\ Falla /\ Fin(Usuario)
    /\ UNCHANGED <<tablas, arca, cruzados>>

\* The other intentos of the operation ended, in ARCA or before it
AjenosCoherentes(a) ==
    \A j \in IntentosDe(K(a)) \ {I(a)} :
        \/ intentos[j].fase = "cerrada_terminal"
           /\ intentos[j].estado \in {"autorizado", "rechazado_arca"}
        \/ intentos[j].fase = "cerrada_pre_arca" /\ intentos[j].estado = "fallido_verificado"

GuardaPropia(a) ==
    /\ I(a) \in IntentosDe(K(a)) /\ AjenosCoherentes(a)
    /\ op[K(a)].resp = "nula"

\* The guard proves that ARCA got nothing
GuardaSinArca(a) ==
    /\ GuardaPropia(a) /\ op[K(a)].estado = "en_proceso"
    /\ \/ intentos[I(a)].fase = "pre_arca" /\ intentos[I(a)].estado = "en_proceso"
       \/ intentos[I(a)].fase = "cerrada_pre_arca"

GuardaAmbigua(a) ==
    GuardaPropia(a) /\ intentos[I(a)].fase \in {"arca_iniciada", "requiere_reconciliacion"}

\* What the recovery leaves the operation in; "nada" if it proves nothing.  With
\* other intentos the operation cannot start again
Recuperado(a) ==
    IF GuardaSinArca(a)
    THEN IF IntentosDe(K(a)) = {I(a)} THEN "interrumpida_pre_arca" ELSE "requiere_reconciliacion"
    ELSE IF GuardaAmbigua(a) THEN "requiere_reconciliacion"
    ELSE IF /\ I(a) = 0 /\ op[K(a)].estado = "en_proceso" /\ op[K(a)].resp = "nula"
            /\ IntentosDe(K(a)) = {}
    THEN "interrumpida_pre_arca" ELSE "nada"

\* The intento the recovery closes or immobilises, with its guard
IntentosRecuperados(a) ==
    IF GuardaSinArca(a) THEN Cerrado(a, "fallido_verificado", "cerrada_pre_arca")
    ELSE IF GuardaAmbigua(a)
    THEN Cerrado(a, "requiere_reconciliacion", "requiere_reconciliacion")
    ELSE intentos

\* recuperar_reintento_interrumpido_pre_arca: the owner's group, still claimed
Recuperar(a) ==
    LET e == Recuperado(a) IN
    /\ En(a, "recuperar") /\ mem[a].sel \cap Tomados = {}
    /\ IF /\ lote.existe /\ lote.dueno = K(a) /\ G(a) # 0
          /\ grupo[G(a)].estado = "reintentando" /\ e # "nada"
       THEN /\ op' = [op EXCEPT ![K(a)].estado = e]
            /\ intentos' = IntentosRecuperados(a)
            /\ grupo' = Marcados({G(a)}, IF e = "interrumpida_pre_arca" THEN "fallido" ELSE e)
            /\ fila' = IF e = "interrumpida_pre_arca" THEN fila ELSE FilasMarcadas({G(a)}, e)
            /\ lote' = IF e = "interrumpida_pre_arca" THEN lote ELSE [lote EXCEPT !.estado = e]
       ELSE UNCHANGED <<op, intentos, grupo, fila, lote>>
    /\ Fin(a)
    /\ SinFalla /\ UNCHANGED <<arca, cruzados, comprobantes>>

\* _recuperar_operacion_lote_pre_arca: only the operation and its guard
RecuperarOperacion(a) ==
    LET e == Recuperado(a) IN
    /\ En(a, "recuperar_op")
    /\ IF e = "nada" THEN UNCHANGED <<op, intentos>>
       ELSE op' = [op EXCEPT ![K(a)].estado = e] /\ intentos' = IntentosRecuperados(a)
    /\ Fin(a)
    /\ SinFalla /\ UNCHANGED <<lote, grupo, fila, arca, cruzados, comprobantes>>

----------------------------------------------------------------------------
(* The other actions on the lote.                                           *)

\* Mutant of Descartables: a retry in course is discarded too
DescartablesEnVuelo == Con(grupo, Resolubles \cup {"reintentando"})

Descartables == Con(grupo, Resolubles)

\* The lote is read, the row of g taken with its new state, and the lote counted
\* with it
Tomar(g, e, n) ==
    LET gr == [grupo EXCEPT ![g].estado = e] IN
    mem' = [mem EXCEPT ![Usuario] =
              [@ EXCEPT !.pc = "confirmar", !.v.estado = lote.estado,
                        !.toma = [g |-> g, estado |-> e, numero |-> n, lote |-> EstadoLote(gr)]]]

Descartar ==
    /\ En(Usuario, "inicio")
    /\ lote.existe /\ lote.estado \notin Cerrados \cup {"requiere_reconciliacion"}
    /\ \E g \in Descartables : Tomar(g, "descartado", grupo[g].numero)
    /\ SinFalla /\ UNCHANGED <<tablas, arca, cruzados>>

\* _validar_consulta_arca_externa: the number has the data of the group
ConfirmadoPorArca(g, n) == arca[n].grupo = g

\* _crear_o_vincular_comprobante_externo: the local comprobante is new, or known
\* and of no group
Vinculable(n) == \A h \in Grupos : grupo[h].numero # n

Reconciliar ==
    /\ En(Usuario, "inicio")
    /\ lote.existe /\ lote.estado \notin Cerrados
    /\ \E g \in Con(grupo, Reconciliables), n \in DOMAIN arca :
          /\ ConfirmadoPorArca(g, n) /\ Vinculable(n)
          /\ Tomar(g, "autorizado_externo", n)
          /\ cruzados' = IF arca[n].via = "web" /\ (\E a \in Reintentos : g \in mem[a].sel)
                         THEN cruzados \cup {g} ELSE cruzados
    /\ SinFalla /\ UNCHANGED <<tablas, arca>>

\* Mutant of FilasResueltas: the detail of the group is forgotten
FilasOlvidadas(t) == fila

FilasResueltas(t) == FilasMarcadas({t.g}, t.estado)

\* The commit of a discard or a reconciliation
Confirmar ==
    LET t == mem[Usuario].toma IN
    /\ En(Usuario, "confirmar")
    /\ grupo' = [grupo EXCEPT ![t.g] = [estado |-> t.estado, numero |-> t.numero]]
    /\ fila' = FilasResueltas(t)
    /\ lote' = Escribir(mem[Usuario].v, t.lote)
    /\ comprobantes' = IF t.estado = "autorizado_externo" THEN comprobantes \cup {t.numero}
                       ELSE comprobantes
    /\ Fin(Usuario)
    /\ SinFalla /\ UNCHANGED <<op, intentos, arca, cruzados>>

\* _lote_tiene_emision_o_incertidumbre
TieneEmision ==
    \E g \in Grupos :
        grupo[g].estado \notin Resolubles \cup {"descartado"} \/ grupo[g].numero # 0

\* eliminar_lote_sin_emision: no intentos, nothing issued or uncertain
ComprobarEliminable ==
    /\ En(Usuario, "inicio")
    /\ lote.existe /\ intentos = <<>> /\ lote.estado # "requiere_reconciliacion"
    /\ ~TieneEmision
    /\ Ir(Usuario, "borrar")
    /\ SinFalla /\ UNCHANGED <<tablas, arca, cruzados>>

\* Mutant of Borrable: the foreign key of the intentos cascades
BorrableSinRestriccion == TRUE

\* RESTRICT: an intento created since the check stops the DELETE
Borrable == intentos = <<>>

Borrar ==
    /\ En(Usuario, "borrar")
    /\ lote' = [lote EXCEPT !.existe = @ /\ ~Borrable]
    /\ Fin(Usuario)
    /\ SinFalla /\ UNCHANGED <<grupo, fila, op, intentos, arca, cruzados, comprobantes>>

\* compactar_lote: the rows of a closed lote are deleted
Compactar ==
    /\ En(Usuario, "inicio")
    /\ lote.estado \in Cerrados /\ ~lote.compacto /\ lote.existe
    /\ fila' = [g \in Grupos |-> "borrada"]
    /\ lote' = [lote EXCEPT !.compacto = TRUE]
    /\ SinFalla /\ UNCHANGED <<grupo, op, intentos, arca, cruzados, comprobantes, mem>>

\* The user issues a pending comprobante in the web of ARCA
EmitirEnWeb ==
    /\ fallas + Cardinality(DeWeb) < MaxIncidentes
    /\ \E g \in Con(grupo, Resolubles) : arca' = Append(arca, [grupo |-> g, via |-> "web"])
    /\ SinFalla /\ UNCHANGED <<tablas, mem, cruzados>>

----------------------------------------------------------------------------
Reclamo(a) ==
    \/ Leer(a) \/ ResponderEnCurso(a) \/ Preparar(a)
    \/ Reclamar(a) \/ Revalidar(a)

Emision(a) ==
    \/ Reservar(a) \/ ReservarAmbigua(a) \/ Marcar(a) \/ MarcarAmbigua(a)
    \/ Solicitar(a) \/ Aplicar(a) \/ Publicar(a)

Corte(a) == CorteDeBase(a) \/ Recuperar(a) \/ RecuperarOperacion(a)

Resolucion ==
    \/ Descartar \/ Reconciliar \/ Confirmar \/ CorteDelUsuario
    \/ ComprobarEliminable \/ Borrar \/ Compactar

Next ==
    \/ \E a \in Reintentos : Reclamo(a) \/ Emision(a) \/ Corte(a)
    \/ Resolucion \/ EmitirEnWeb

Spec == Init /\ [][Next]_vars

----------------------------------------------------------------------------
(* Properties.                                                              *)

TypeOK ==
    /\ lote \in [estado : EstadosLote, dueno : Operaciones \cup {Nadie},
                 rechazo : Claves \cup {Nadie}, compacto : BOOLEAN, existe : BOOLEAN]
    /\ grupo \in [Grupos -> [estado : EstadosGrupo, numero : Nat]]
    /\ fila \in [Grupos -> EstadosGrupo \cup {"borrada"}]
    /\ \A k \in Operaciones :
          /\ op[k].estado \in {"inexistente", "en_proceso", "interrumpida_pre_arca", "finalizado",
                               "fallido_verificado", "rechazado_arca", "requiere_reconciliacion"}
          /\ op[k].resp \in {"nula", "final", "error"}
          /\ op[k].sel \subseteq Grupos
    /\ comprobantes \subseteq DOMAIN arca /\ cruzados \subseteq Grupos

\* Groups of the lote authorised by its own requests
Propias(g) == {n \in DOMAIN arca : arca[n] = [grupo |-> g, via |-> "propia"]}

\* A group is never authorised twice by requests of the program, whatever is
\* retried, reclaimed, recovered or reconciled in between
UnaAutorizacionPropia == \A g \in Grupos : Cardinality(Propias(g)) <= 1

\* What can be retried or was discarded has nothing of its own in ARCA nor on its
\* way there: the end of a flight, its recovery, the discards and the
\* reconciliations agree, whatever the user does of a group in flight.  A number
\* it may only have if the user reconciled it while a request had it selected
SinDescarteEnVuelo ==
    lote.existe =>
      \A g \in Con(grupo, Resolubles \cup {"descartado"}) :
         /\ Propias(g) = {} /\ (grupo[g].numero = 0 \/ g \in cruzados)
         /\ \A i \in DOMAIN intentos :
               intentos[i].grupo = g =>
                 intentos[i].fase \notin {"arca_iniciada", "requiere_reconciliacion"}

\* A closed lote has no group that can still be emitted or discarded, but for those
\* reconciled while a request had them selected: the counts of two sessions that
\* resolve it at once do not close it too early
CerradoSinResolubles ==
    lote.estado \in Cerrados => Con(grupo, Resolubles) \subseteq cruzados

\* "Cerrado reconciliado: todos quedaron autorizados".  The code does not keep it:
\* a retry that fails after its group was reconciled puts it back in fallido, with
\* its number, and leaves the lote closed
CierreReconciliadoVeraz ==
    lote.estado = "cerrado_reconciliado" =>
        Con(grupo, {"autorizado", "autorizado_externo"}) = Grupos

\* A lote with intentos is not deleted, however the check and the DELETE fall, and
\* while one of them may be in ARCA the lote belongs to its operation: nobody else
\* can take another of its groups
DuenoDelVuelo ==
    \A i \in DOMAIN intentos :
      lote.existe /\ (intentos[i].fase = "arca_iniciada" => lote.dueno = intentos[i].op)

\* The answer of a key does not change once it is stored
ReplayEstable ==
    [][\A k \in Operaciones :
         op[k].resp # "nula" => op'[k].resp = op[k].resp /\ op'[k].estado = op[k].estado]_vars

\* The rows shown for a group tell its state, except while it is retried: the
\* export to another server refuses a lote where they differ
FilasSiguen ==
    lote.existe /\ ~lote.compacto =>
      \A g \in Grupos : grupo[g].estado = "reintentando" \/ fila[g] = grupo[g].estado

\* The rows keep their shape, and what is shown of the lote says what its groups say
ResumenFiel == TypeOK /\ CerradoSinResolubles /\ FilasSiguen

\* Retrying failed groups of a lote with others issued can get them authorised:
\* the intento of a retry that passed every check is never left behind.  The user
\* guide promises it and the code does not keep it (README, section 5)
ParcialReintentable ==
    \A i \in DOMAIN intentos :
      intentos[i].fase = "pre_arca" =>
        \E a \in Reintentos : mem[a].op = intentos[i].op /\ mem[a].pc # "inicio"
=============================================================================
