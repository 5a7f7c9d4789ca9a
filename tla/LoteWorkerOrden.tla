--------------------------- MODULE LoteWorkerOrden ---------------------------
(****************************************************************************)
(* What the safety invariants of LoteWorker need besides the code: the      *)
(* checks whose absence lets two runs of one lote overlap (README, section  *)
(* 5), the inductive invariant that holds wherever those checks would have  *)
(* passed, and the client for which they always would.                      *)
(****************************************************************************)
EXTENDS LoteWorkerInv

----------------------------------------------------------------------------
(* The behaviours in which nobody takes the lote from under another.        *)

\* Steps of an actor between the opening of its operation and taking the lote
AntesDeTomar == {"preparar", "encolar", "tomar"}

PasosDeCorrida ==
    {"releer", "capacidad", "verificar", "reservar", "marcar", "solicitar", "esperar",
     "aplicar", "terminar", "publicar"}

\* m is the memory of an actor that took the lote and did not give it up: in a
\* run, or about to recover the guard its run reserved
EnCorrida(m) == m.pc \in PasosDeCorrida \/ (m.pc = "recuperar" /\ m.guarda > 0)

\* m works on its operation
EnObra(m) == m.pc \in AntesDeTomar \/ EnCorrida(m)

\* encolar_lote and the discard write a state over the one they read, if it is
\* still there.  The code does not look
CopiaAlDia ==
    \A a \in Solicitudes :
        /\ Encolar(a) /\ op' # op =>
              mem[a].vista.estado = lote.estado /\ mem[a].mat = Con(grupo, "validado")
        /\ Descartar(a) /\ lote'.estado # lote.estado =>
              mem[a].vista.estado = lote.estado

\* Who recovers without a guard gives up what is its own and of nobody else: the
\* lote its open operation owns.  The code looks at states, not at owners
SueltaLoSuyo(a) ==
    /\ op[K(a)].estado = "en_proceso"
    /\ lote' # lote /\ lote.estado = "procesando" => lote.dueno = K(a)
    /\ \A b \in Actores \ {a} : EnObra(mem[b]) => K(b) # K(a)

\* Recuperar and RecuperarCreacion of a request, RecuperarWorker: without a guard,
\* what they give up is their own
SueltaPropia ==
    \A a \in Actores :
        /\ mem[a].guarda = 0
        /\ \/ a # Worker /\ (Recuperar(a) \/ RecuperarCreacion(a))
           \/ a = Worker /\ RecuperarWorker
        /\ op' # op \/ lote' # lote
        => SueltaLoSuyo(a)

\* Nobody takes the lote from under another
Ordenado == CopiaAlDia /\ SueltaPropia

\* LoteWorker with those checks made, for TLC
SpecOrdenada == Init /\ [][Next /\ Ordenado]_vars

----------------------------------------------------------------------------
(* A guard, a lote l, the groups gr and the operations o.                   *)

\* The request of guard x may have gone to ARCA
Cruzo(x) == x.fase \notin FasesPrevias

\* Guard x holds the lote back: it is active or its result is half applied
Pendiente(x, gr) ==
    \/ x.fase \in FasesActivas
    \/ x.fase = "cerrada_terminal" /\ x.grupos \cap Con(gr, "validado") # {}

\* A lote being processed is that of operation k, or its owner has finished
DuenoEs(k, l, o) == l.dueno = k \/ o[l.dueno].estado \in EstadosCerrados

\* What the intento of group g says of its guard, and a group marked fallido of ARCA
IntentoFirme(x, g, gr) ==
    /\ x.intento[g] = "autorizado" => x.fase = "cerrada_terminal" /\ g \in x.aut
    /\ x.intento[g] = "rechazado_arca" => x.fase = "cerrada_terminal"
    /\ x.fase = "cerrada_pre_arca" =>
          x.intento[g] \in {"fallido_verificado", "requiere_reconciliacion"}
    /\ x.intento[g] = "requiere_reconciliacion" => gr[g] # "validado"
    /\ gr[g] = "fallido" => g \notin x.aut /\ x.arca # "en_vuelo"

\* A guard that holds the lote back keeps it out of the queue and is of its owner
LoteRetenido(x, l, gr, o) ==
    /\ x.fase \in FasesActivas => l.estado # "en_cola"
    /\ Pendiente(x, gr) =>
          /\ Con(gr, "validado") # {} =>
                l.estado \in {"procesando", "requiere_reconciliacion"}
          /\ l.estado = "procesando" => DuenoEs(x.op, l, o)

GuardasFirmes ==
    \A i \in DOMAIN guardas :
        /\ LoteRetenido(guardas[i], lote, grupo, op)
        /\ \A g \in guardas[i].grupos : IntentoFirme(guardas[i], g, grupo)

\* Two requests that may have gone to ARCA have no group in common
CrucesDisjuntos ==
    \A i, j \in DOMAIN guardas :
        Cruzo(guardas[i]) /\ Cruzo(guardas[j]) /\ i # j =>
            guardas[i].grupos \cap guardas[j].grupos = {}

\* Group g has one request, whose CAE is known
UnicoCae(g, gs) ==
    \E i \in DOMAIN gs :
        /\ g \in gs[i].grupos /\ gs[i].intento[g] = "autorizado"
        /\ \A j \in DOMAIN gs \ {i} :
              g \in gs[j].grupos => gs[j].intento[g] = "fallido_verificado"

\* An authorised group has one request, and a completado lote only such groups
AutorizadosFirmes ==
    /\ \A g \in Con(grupo, "autorizado") : UnicoCae(g, guardas)
    /\ lote.estado = "completado" => Con(grupo, "autorizado") = Grupos

\* No lote has an owner without groups to emit
DuenoConMaterial == lote.dueno \in Claves => lote.material # {}

TablasFirmes == GuardasFirmes /\ CrucesDisjuntos /\ AutorizadosFirmes /\ DuenoConMaterial

----------------------------------------------------------------------------
(* A run, with memory m.                                                    *)

\* Groups it may still send, those in its hands, and both
PorEnviarDe(m) ==
    IF m.pc \in {"releer", "capacidad"} THEN m.mat
    ELSE IF m.pc \in {"verificar", "reservar", "marcar", "solicitar", "esperar", "aplicar"}
    THEN m.pend ELSE {}
EnManoDe(m) ==
    IF m.pc \in {"marcar", "solicitar", "esperar", "aplicar"} THEN m.sub ELSE {}
RestoDe(m) == PorEnviarDe(m) \cup EnManoDe(m)

\* While there is something to emit its lote stays procesando, in the row and in
\* its copy, and it is never back in the queue
LoteDeCorrida(m, l, gr, o) ==
    /\ l.estado # "en_cola"
    /\ Con(gr, "validado") # {} =>
          l.estado = "procesando" /\ (m.pc # "releer" => m.vista.estado = "procesando")
    /\ l.estado = "procesando" => DuenoEs(m.op, l, o)

\* What is still to emit is in its hands, and its guard covers what it sends
GruposDeCorrida(m, gr, gs) ==
    /\ m.pc = "recuperar" \/ Con(gr, "validado") \subseteq RestoDe(m)
    /\ PorEnviarDe(m) \cap EnManoDe(m) = {}
    /\ m.pc \in {"verificar", "reservar"} => m.pend # {}
    /\ m.pc \in {"marcar", "solicitar", "esperar", "aplicar"} => m.sub # {}
    /\ m.pc \in {"marcar", "solicitar", "esperar"} =>
          gs[m.guarda].grupos = m.sub /\ gs[m.guarda].op = m.op
    /\ m.pc = "solicitar" => m.sub \cap Con(gr, "fallido") = {}

\* The groups to apply are those of the guard to close, and what ARCA authorised
\* has an intento that says so once the guard is closed
AplicacionSana(m, gs) ==
    m.pc = "aplicar" =>
        /\ m.cierre # "nada" => gs[m.guarda].grupos = m.sub
        /\ \A g \in m.sub \cap m.aut :
              /\ m.cierre # "cerrada_pre_arca"
              /\ m.guarda \in DOMAIN gs /\ g \in gs[m.guarda].grupos
              /\ m.cierre = "nada" => gs[m.guarda].intento[g] = "autorizado"

\* Guard x, number i, is closed before ARCA for what is yet to send, but for the
\* run's own; ARCA answered it for what is to apply; it holds nobody else's lote
Respetada(m, i, x, l, gr) ==
    /\ \A g \in x.grupos \cap RestoDe(m) :
          /\ x.fase = "cerrada_pre_arca" \/ (i = m.guarda /\ g \in EnManoDe(m))
          /\ x.intento[g] # "requiere_reconciliacion"
    /\ m.pc = "aplicar" =>
          \A g \in x.grupos \cap m.sub : x.arca # "en_vuelo" /\ (g \in x.aut => g \in m.aut)
    /\ Pendiente(x, gr) /\ l.estado = "procesando" => x.op = m.op

CorridaSana(m, l, gr, o, gs) ==
    /\ LoteDeCorrida(m, l, gr, o)
    /\ GruposDeCorrida(m, gr, gs)
    /\ AplicacionSana(m, gs)
    /\ \A i \in DOMAIN gs : Respetada(m, i, gs[i], l, gr)

----------------------------------------------------------------------------
(* The actors.                                                              *)

SinGuarda ==
    {"inicio", "resolver", "recuperar_creacion", "en_curso", "preparar", "encolar", "tomar",
     "releer", "capacidad", "guardar_error", "descartar", "bloquear", "fin"}

\* Nobody sets out without groups to emit, or with the guard of another run; the
\* worker queues a lote again if it saw every group still to emit
Prevision(a, m, gr) ==
    /\ m.chunk # 0
    /\ m.pc \in SinGuarda => m.guarda = 0
    /\ m.pc = "descartar" => Resoluble(m.vista.estado)
    /\ EnObra(m) => m.mat # {}
    /\ a = Worker /\ m.pc = "bloquear" /\ m.preflight = "ok" =>
          Con(gr, "validado") \subseteq m.mat

\* The operation a request works on is open or decided, never up for another
\* request or for the worker
ConClave(x) ==
    x.estado \notin {"inexistente", "interrumpida_pre_arca"} /\ x.resp # "progreso"

ActorSano(a, m, l, gr, o, gs) ==
    /\ Prevision(a, m, gr)
    /\ a # Worker /\ EnObra(m) => ConClave(o[m.op])
    /\ EnCorrida(m) => CorridaSana(m, l, gr, o, gs)

ActoresSanos == \A a \in Actores : ActorSano(a, mem[a], lote, grupo, op, guardas)

\* One run at a time, and one request per operation
SolaCorrida == \A a, b \in Actores : EnCorrida(mem[a]) /\ EnCorrida(mem[b]) => a = b
ClaveDeUno ==
    \A a, b \in Solicitudes : EnObra(mem[a]) /\ EnObra(mem[b]) /\ K(a) = K(b) => a = b

InductivoOrden == TablasFirmes /\ ActoresSanos /\ SolaCorrida /\ ClaveDeUno

----------------------------------------------------------------------------
(* One client: it repeats its request with the same key, or discards, and   *)
(* calls again when it has its answer or a restart has cut it.  The worker  *)
(* is not its concern.                                                      *)

\* It uses one key
ClaveUnica == \A j, k \in Claves : j = k

\* Request a has arrived and has no answer yet
Atendida(a) == mem[a].pc \notin {"inicio", "fin"}

\* A request arrives when no other is under way
DeAUna ==
    \A a, b \in Solicitudes :
        a # b /\ mem[a].pc = "inicio" /\ mem'[a].pc # "inicio" => ~Atendida(b)

\* LoteWorker with one client, for TLC
SpecDeAUna == ClaveUnica /\ Init /\ [][Next /\ DeAUna]_vars

\* No two requests are under way
SolaSolicitud == \A a, b \in Solicitudes : Atendida(a) /\ Atendida(b) => a = b

\* The worker has a lote in its hands, or one waits for it
EnCurso == mem[Worker].pc \notin {"inicio", "bloquear"} \/ lote.estado = "en_cola"

\* Then the operation has its marker, which closes it to requests
ConMarca == EnCurso => \A k \in Claves : op[k].estado = "en_proceso" /\ op[k].resp = "progreso"

\* The lote is as the worker left it, and so is its copy
LoteDelWorker ==
    LET m == mem[Worker] IN
    /\ m.pc \in {"en_curso", "tomar"} => lote.estado = "en_cola"
    /\ m.pc = "tomar" => m.vista.estado = "en_cola"
    /\ m.pc \in PasosDeCorrida => lote.estado = "procesando"
    /\ m.pc \in PasosDeCorrida \ {"releer"} => m.vista.estado = "procesando"
    /\ m.pc \notin {"inicio", "bloquear"} => lote.estado \in Activos

ConCopia == {"resolver", "en_curso", "preparar", "encolar", "tomar", "descartar"}

\* The copy m of a lote that nobody had is the lote, and whoever opened its
\* operation did not read it in the queue
CopiaFresca(m) ==
    /\ m.pc \in ConCopia /\ m.vista.estado \notin Activos =>
          /\ m.vista.estado = lote.estado
          /\ m.pc # "descartar" => m.mat = Con(grupo, "validado")
    /\ m.pc \in AntesDeTomar => m.vista.estado # "en_cola"
    /\ m.pc = "resolver" /\ m.vista.estado = "en_cola" =>
          \A k \in Claves : op[k].estado \notin {"inexistente", "interrumpida_pre_arca"}

\* One request at a time, and the lote is in the hands of that request or of the
\* worker, never of both
Turnos ==
    /\ ClaveUnica
    /\ SolaSolicitud
    /\ ConMarca
    /\ LoteDelWorker
    /\ \A a \in Solicitudes : CopiaFresca(mem[a])
==============================================================================
