-------------------------- MODULE EmisionIndividualInv --------------------------
(****************************************************************************)
(* The inductive invariant of EmisionIndividual.                            *)
(*                                                                          *)
(* The guard of a request tells how far it went: it is created before ARCA, *)
(* crosses into ARCA once, and is closed either before crossing or with the *)
(* answer of ARCA in the same commit that makes its operation terminal.     *)
(****************************************************************************)
EXTENDS EmisionIndividual

\* The guard crossed into ARCA, whatever came of it
Cruzada(i) ==
    intento[i].fase \in {"arca_iniciada", "requiere_reconciliacion", "cerrada_terminal"}

PasosSinReserva ==
    {"inicio", "crear", "recuperar_creacion", "reclamar", "confirmar",
     "incompleta", "candidata", "emitir", "validar", "diagnosticar", "ultimo",
     "reservar"}

\* Where a request is, what it has pending and what its own guard says
Avance(r) ==
    /\ sol[r].pc \in PasosSinReserva => intento[r].fase = "ninguna"
    /\ sol[r].pc \in {"preflight", "marcar"} => intento[r].fase = "pre_arca"
    /\ sol[r].pc = "solicitar" => intento[r].fase = "arca_iniciada" /\ ~Enviada(r)
    /\ sol[r].pc = "esperar" => intento[r].fase = "arca_iniciada"
    /\ sol[r].pend # "nada" => sol[r].pc = "publicar"
    /\ sol[r].pend = "cerrada_pre_arca" => intento[r].fase = "pre_arca"
    /\ sol[r].pend \in {"autorizado", "rechazado", "rechazo_global", "reconciliacion"} =>
          intento[r].fase = "arca_iniciada"
    /\ sol[r].pend = "autorizado" => arca[r] = "A" /\ sol[r].resp.clase = "exito"
    /\ sol[r].pend = "rechazado" => arca[r] = "R" /\ sol[r].resp.clase = "fallido"
    /\ sol[r].pend = "rechazo_global" =>
          arca[r] = "10005" /\ sol[r].resp.clase = "rechazo_global"

AvanceCoherente == \A r \in Solicitudes : Avance(r)

\* uq_guarda_rece_activa, of the committed rows
GuardaUnica == \A i, j \in Solicitudes : Activa(i) /\ Activa(j) => i = j

RevisionCongelada == \A i \in Solicitudes : Activa(i) => intento[i].rev = rece.rev

EnvioCruza == \A i \in Solicitudes : Enviada(i) => Cruzada(i)

CruceUnico ==
    \A i, j \in Solicitudes : Cruzada(i) /\ Cruzada(j) /\ K(i) = K(j) => i = j

\* A guard is closed as terminal with the answer of ARCA and its operation
CierreConRespuesta ==
    \A i \in Solicitudes : intento[i].fase = "cerrada_terminal" =>
        /\ op[K(i)].estado \in EstadosTerminales
        /\ \/ intento[i].estado = "autorizado" /\ i \in comprobantes /\ arca[i] = "A"
           \/ intento[i].estado = "rechazado_arca" /\ arca[i] \in {"R", "10005"}

CierreSinArca ==
    \A i \in Solicitudes : intento[i].fase = "cerrada_pre_arca" =>
        intento[i].estado = "fallido_verificado"

ComprobanteAutorizado ==
    \A i \in comprobantes : arca[i] = "A" /\ intento[i].fase = "cerrada_terminal"

TipoDelIntento ==
    \A i \in Solicitudes : intento[i].fase # "ninguna" => intento[i].tipo = T(i)

\* ARCA authorises consecutive numbers of a tipo
NumeracionFiel ==
    \A i \in Solicitudes : arca[i] = "A" =>
        /\ intento[i].num <= ultimo[T(i)]
        /\ \A j \in Solicitudes :
              arca[j] = "A" /\ T(j) = T(i) /\ intento[j].num = intento[i].num => i = j

\* The inductive invariant: guards, requests, ARCA and operations agree.
Inductivo ==
    /\ TypeOK
    /\ AvanceCoherente
    /\ GuardaUnica /\ RevisionCongelada
    /\ EnvioCruza /\ CruceUnico
    /\ CierreConRespuesta /\ CierreSinArca
    /\ ComprobanteAutorizado /\ TipoDelIntento /\ NumeracionFiel

----------------------------------------------------------------------------
(* Requests and the operation of their key.                                 *)

\* The key is taken, with the payload of this request
Suya(r) ==
    op[K(r)].estado # "inexistente" /\ op[K(r)].payload = PayloadDe[r]

\* From these steps on a request works on an operation it has compared with
\* its payload; an ambiguous creation may still find the one of another
PasosConOperacion ==
    Pasos \ {"inicio", "crear", "recuperar_creacion", "fin"}

\* Answers that nothing may rewrite once a client has them
ClasesFirmes == {"exito", "fallido", "rechazo_global"}

\* A committed comprobante of the key has the number of the response
Respaldada(r) ==
    \E i \in comprobantes : K(i) = K(r) /\ intento[i].num = sol[r].resp.num

\* The stored response of the key is the one this request was given
Firme(r) ==
    /\ Suya(r)
    /\ op[K(r)].resp = sol[r].resp
    /\ op[K(r)].estado = EstadoDesde(sol[r].resp.clase)

\* What a request is about to answer, or answered, and what it rests on
Respuesta(r) ==
    /\ sol[r].pc \in PasosConOperacion => Suya(r)
    /\ sol[r].pc \in {"preflight", "marcar", "solicitar", "esperar"} =>
          sol[r].num = intento[r].num
    /\ sol[r].pc = "candidata" =>
          /\ sol[r].resp.clase \in {"exito", "rechazo_global", "reconciliacion"}
          /\ sol[r].resp.clase = "exito" => Respaldada(r)
    /\ sol[r].pc = "publicar" =>
          /\ sol[r].resp.clase \in ClasesDurables
          /\ sol[r].resp.clase = "exito" =>
                sol[r].pend = "autorizado" /\ sol[r].resp.num = intento[r].num
    /\ sol[r].pc = "fin" /\ sol[r].resp.clase \in ClasesFirmes => Firme(r)
    /\ sol[r].pc = "fin" /\ sol[r].resp.clase = "exito" => Respaldada(r)

RespuestasFieles == \A r \in Solicitudes : Respuesta(r)

\* An attempt belongs to the key and the payload of its request
IntentoPropio ==
    \A i \in Solicitudes :
        /\ Existe(i) <=> intento[i].fase # "ninguna"
        /\ Existe(i) => intento[i].op = K(i) /\ Suya(i)

\* The whole inductive invariant: nor do answers and stored responses disagree.
InductivoCompleto == Inductivo /\ IntentoPropio /\ RespuestasFieles

=============================================================================
