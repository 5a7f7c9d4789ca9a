----------------------- MODULE EmisionIndividualProofs -----------------------
(****************************************************************************)
(* Theorems about EmisionIndividual, for any set of requests, keys and      *)
(* payloads and for every bound: its rows keep their shape, Inductivo is an *)
(* invariant, and with it the safety of the emission.                       *)
(*                                                                          *)
(* A step of a request touches only its own attempt, and only in the seven  *)
(* ways of Transicion; the invariant is proved from them, and not from each *)
(* of the twenty-two actions.                                               *)
(*                                                                          *)
(* Then InductivoCompleto is an invariant: what a request answers is what   *)
(* its key stored, and nothing rewrites it afterwards.  A step of request r *)
(* changes no key but its own, never gives that key another payload, and    *)
(* leaves r where Respuesta holds; the other requests of the key keep       *)
(* theirs because a firm response is never replaced.                        *)
(*                                                                          *)
(* Last, EmisionIndividual implements EmisionUnica: every step of a request,*)
(* of ARCA or of the process is seen as one step of the key, or is not      *)
(* seen.  Also, what a retryable answer says of the key when it is given.   *)
(****************************************************************************)
EXTENDS EmisionIndividualInv, EmisionIndividualRefina, FiniteSetTheorems, TLAPS

----------------------------------------------------------------------------
(* Facts about the vocabulary.                                              *)

\* The stored state of every response is a state of the table.
LEMMA EstadoDesdeTipo ==
    ASSUME NEW c PROVE EstadoDesde(c) \in EstadosOperacion
BY DEF EstadoDesde, EstadosOperacion

\* Responses built by the model are responses.
LEMMA RespTipo ==
    ASSUME NEW c \in ClasesDurables \cup ClasesHttp, NEW n \in Nat
    PROVE  Resp(c, n) \in Respuestas
BY DEF Resp, Respuestas

LEMMA SinRespuestaTipo == SinRespuesta \in Respuestas
BY RespTipo DEF SinRespuesta, ClasesHttp

\* The key and the tipo of a request.
LEMMA ClaveTipo ==
    ASSUME NEW r \in Solicitudes PROVE K(r) \in Claves /\ T(r) \in Tipos
           /\ PayloadDe[r] \in Payloads
BY SolicitudesAssumption DEF K, T

\* A freshly reserved attempt counts the attempts before it.
LEMMA OrdenTipo ==
    Cardinality({i \in Solicitudes : Existe(i)}) \in Nat
<1>1. IsFiniteSet({i \in Solicitudes : Existe(i)})
  BY FS_Subset, SolicitudesAssumption
<1> QED BY <1>1, FS_CardinalityType

----------------------------------------------------------------------------
(* Types of the building blocks of the actions.                             *)

\* Ending a request keeps requests and the row lock well typed.
LEMMA TerminarTipo ==
    ASSUME TypeOK, NEW r \in Solicitudes, NEW resp \in Respuestas,
           Terminar(r, resp)
    PROVE  /\ sol' \in [Solicitudes -> EstadosSolicitud]
           /\ filaPunto' \in Solicitudes \cup {Nadie}
<1> DEFINE nuevo == [sol[r] EXCEPT !.pc = "fin", !.pend = "nada", !.resp = resp]
<1>1. sol[r] \in EstadosSolicitud
  BY DEF TypeOK
<1>2. "fin" \in Pasos /\ "nada" \in Pendientes
  BY DEF Pasos, Pendientes
<1>3. nuevo \in EstadosSolicitud
  BY <1>1, <1>2 DEF EstadosSolicitud
<1>4. sol' = [sol EXCEPT ![r] = nuevo]
  BY DEF Terminar
<1> HIDE DEF nuevo
<1> QED BY <1>3, <1>4, ZenonT(30) DEF TypeOK, Terminar

\* So does moving it to another step.
LEMMA IrTipo ==
    ASSUME TypeOK, NEW r \in Solicitudes, NEW pc \in Pasos, Ir(r, pc)
    PROVE  sol' \in [Solicitudes -> EstadosSolicitud]
BY DEF TypeOK, Ir, EstadosSolicitud

LEMMA DevolverTipo ==
    ASSUME TypeOK, NEW r \in Solicitudes, NEW resp \in Respuestas,
           NEW p \in Pendientes, Devolver(r, p, resp)
    PROVE  /\ sol' \in [Solicitudes -> EstadosSolicitud]
           /\ cerrojo' \in [Tipos -> Solicitudes \cup {Nadie}]
<1> DEFINE nuevo == [sol[r] EXCEPT !.pc = "publicar", !.pend = p, !.resp = resp]
<1>1. sol[r] \in EstadosSolicitud
  BY DEF TypeOK
<1>2. "publicar" \in Pasos
  BY DEF Pasos
<1>3. nuevo \in EstadosSolicitud
  BY <1>1, <1>2 DEF EstadosSolicitud
<1>4. sol' = [sol EXCEPT ![r] = nuevo]
  BY DEF Devolver
<1> HIDE DEF nuevo
<1> QED BY <1>3, <1>4, ClaveTipo, ZenonT(30) DEF TypeOK, Devolver

LEMMA SaltarTipo ==
    ASSUME TypeOK, NEW r \in Solicitudes, NEW pc \in Pasos, SaltarA(r, pc)
    PROVE  /\ sol' \in [Solicitudes -> EstadosSolicitud]
           /\ cerrojo' \in [Tipos -> Solicitudes \cup {Nadie}]
BY ClaveTipo DEF TypeOK, SaltarA, EstadosSolicitud

LEMMA FilaSoltadaTipo ==
    ASSUME TypeOK, NEW r \in Solicitudes
    PROVE  FilaSoltada(r) \in Solicitudes \cup {Nadie}
BY DEF TypeOK, FilaSoltada

\* Every destination of the database counters is a counter.
LEMMA CotasTipo ==
    ASSUME TypeOK, Falla \/ SinFalla
    PROVE  fallas' \in Nat /\ caidas' \in Nat
BY DEF TypeOK, Falla, SinFalla, cotas

LEMMA ReplayTipo ==
    ASSUME TypeOK, NEW k \in Claves
    PROVE  RespuestaReplay(k) \in Respuestas
BY RespTipo DEF TypeOK, RespuestaReplay, Operaciones, ClasesHttp

LEMMA SeguirTipo ==
    ASSUME TypeOK, NEW r \in Solicitudes, NEW f \in Solicitudes \cup {Nadie},
           Seguir(r, f)
    PROVE  /\ sol' \in [Solicitudes -> EstadosSolicitud]
           /\ filaPunto' \in Solicitudes \cup {Nadie}
<1>1. CASE Destino(r) = "fin"
  BY <1>1, TerminarTipo, ReplayTipo, ClaveTipo DEF Seguir
<1>2. CASE Destino(r) # "fin"
  <2>1. Destino(r) \in Pasos
    BY DEF Destino, Pasos
  <2> QED BY <1>2, <2>1, IrTipo DEF Seguir
<1> QED BY <1>1, <1>2

\* Rows whose state, or stored response, changes.
LEMMA EstadoOpTipo ==
    ASSUME TypeOK, NEW k \in Claves, NEW e \in EstadosOperacion
    PROVE  [op EXCEPT ![k].estado = e] \in [Claves -> Operaciones]
BY DEF TypeOK, Operaciones

LEMMA RespOpTipo ==
    ASSUME TypeOK, NEW k \in Claves, NEW e \in EstadosOperacion,
           NEW resp \in Respuestas
    PROVE  [op EXCEPT ![k].estado = e, ![k].resp = resp]
              \in [Claves -> Operaciones]
<1> DEFINE nueva == [op[k] EXCEPT !.estado = e, !.resp = resp]
<1>1. nueva \in Operaciones
  BY DEF TypeOK, Operaciones
<1>2. [op EXCEPT ![k].estado = e, ![k].resp = resp] = [op EXCEPT ![k] = nueva]
  OBVIOUS
<1> HIDE DEF nueva
<1> QED BY <1>1, <1>2 DEF TypeOK

LEMMA CerrarGuardaTipo ==
    ASSUME TypeOK, NEW i \in Solicitudes, NEW e \in EstadosIntento,
           NEW f \in FasesGuarda
    PROVE  CerrarGuarda(i, e, f) \in [Solicitudes -> Intentos]
<1> DEFINE nuevo == [intento[i] EXCEPT !.estado = e, !.fase = f]
<1>1. nuevo \in Intentos
  BY DEF TypeOK, Intentos
<1>2. CerrarGuarda(i, e, f) = [intento EXCEPT ![i] = nuevo]
  BY DEF CerrarGuarda
<1> HIDE DEF nuevo
<1> QED BY <1>1, <1>2 DEF TypeOK

LEMMA OperacionNuevaTipo ==
    ASSUME TypeOK, NEW r \in Solicitudes
    PROVE  [op EXCEPT ![K(r)] = OperacionNueva(r)] \in [Claves -> Operaciones]
<1>1. OperacionNueva(r) \in Operaciones
  BY ClaveTipo, SinRespuestaTipo
  DEF TypeOK, OperacionNueva, Operaciones, EstadosOperacion
<1> QED BY <1>1 DEF TypeOK

LEMMA IntentoNuevoTipo ==
    ASSUME TypeOK, NEW r \in Solicitudes
    PROVE  [intento EXCEPT ![r] = IntentoNuevo(r)] \in [Solicitudes -> Intentos]
<1>1. op[K(r)].rev \in Nat /\ sol[r].num \in Nat
  BY ClaveTipo DEF TypeOK, Operaciones, EstadosSolicitud
<1>2. "en_proceso" \in EstadosIntento /\ "pre_arca" \in FasesGuarda
  BY DEF EstadosIntento, FasesGuarda
<1>3. IntentoNuevo(r) \in Intentos
  BY <1>1, <1>2, ClaveTipo, OrdenTipo DEF IntentoNuevo, Intentos
<1> QED BY <1>3 DEF TypeOK

LEMMA IntentoPublicadoTipo ==
    ASSUME TypeOK, NEW r \in Solicitudes
    PROVE  IntentoPublicado(r) \in [Solicitudes -> Intentos]
<1>1. {"autorizado", "rechazado_arca", "requiere_reconciliacion",
       "fallido_verificado"} \subseteq EstadosIntento
  BY DEF EstadosIntento
<1>2. {"cerrada_terminal", "requiere_reconciliacion", "cerrada_pre_arca"}
         \subseteq FasesGuarda
  BY DEF FasesGuarda
<1>3. intento \in [Solicitudes -> Intentos]
  BY DEF TypeOK
<1> QED BY <1>1, <1>2, <1>3, CerrarGuardaTipo DEF IntentoPublicado

----------------------------------------------------------------------------
(* Type correctness.                                                        *)

LEMMA InitTipo == Init => TypeOK
<1> SUFFICES ASSUME Init PROVE TypeOK
  OBVIOUS
<1>1. op \in [Claves -> Operaciones]
  BY SinRespuestaTipo, SolicitudesAssumption
  DEF Init, SinOperacion, Operaciones, EstadosOperacion
<1>2. intento \in [Solicitudes -> Intentos]
  BY ClaveTipo DEF Init, SinIntento, Intentos, EstadosIntento, FasesGuarda
<1>3. sol \in [Solicitudes -> EstadosSolicitud]
  BY SinRespuestaTipo DEF Init, EstadosSolicitud, Pasos, Pendientes
<1> QED BY <1>1, <1>2, <1>3 DEF Init, TypeOK, Destinos

\* Resolution of the key.
LEMMA ResolverTipo ==
    ASSUME TypeOK, NEW r \in Solicitudes, Resolver(r) PROVE TypeOK'
<1> USE DEF db, fisco, memoria, cotas
<1> DEFINE Sol == [Solicitudes -> EstadosSolicitud]
           Fila == Solicitudes \cup {Nadie}
<1>1. {"crear", "emitir", "recuperar_creacion", "candidata"} \subseteq Pasos
  BY DEF Pasos
<1>2. /\ K(r) \in Claves /\ T(r) \in Tipos
      /\ filaPunto \in Fila /\ FilaSoltada(r) \in Fila
      /\ sol[r] \in EstadosSolicitud /\ sol[r].resp \in Respuestas
  BY ClaveTipo, FilaSoltadaTipo DEF TypeOK, EstadosSolicitud
<1>3. \A c \in {"conflicto", "elegibilidad", "reintentable", "bloqueado",
                "en_proceso", "error", "no_recuperable"} : Resp(c, 0) \in Respuestas
  BY RespTipo DEF ClasesHttp
<1>4. {"en_proceso", "interrumpida_pre_arca"} \subseteq EstadosOperacion
  BY DEF EstadosOperacion
<1>5. RespuestaReplay(K(r)) \in Respuestas
  BY <1>2, ReplayTipo
<1>6. CASE LeerOperacion(r)
  <2>1. sol' \in Sol /\ filaPunto' \in Fila
    BY <1>1, <1>2, <1>3, <1>6, IrTipo, TerminarTipo, SeguirTipo
       DEF LeerOperacion, FallaSinCapturar
  <2>2. fallas' \in Nat /\ caidas' \in Nat
    BY <1>6, CotasTipo DEF LeerOperacion, FallaSinCapturar
  <2> QED BY <1>6, <2>1, <2>2 DEF LeerOperacion, TypeOK
<1>7. CASE CrearOperacion(r)
  <2>1. sol' \in Sol
    BY <1>1, <1>7, IrTipo DEF CrearOperacion
  <2>2. op' \in [Claves -> Operaciones]
    BY <1>7, OperacionNuevaTipo DEF CrearOperacion, TypeOK
  <2>3. fallas' \in Nat /\ caidas' \in Nat
    BY <1>7, CotasTipo DEF CrearOperacion
  <2> QED BY <1>7, <2>1, <2>2, <2>3 DEF CrearOperacion, TypeOK
<1>8. CASE NoCrearOperacion(r)
  <2>1. sol' \in Sol /\ filaPunto' \in Fila
    BY <1>2, <1>3, <1>8, TerminarTipo, SeguirTipo DEF NoCrearOperacion, FallaSinCapturar
  <2>2. fallas' \in Nat /\ caidas' \in Nat
    BY <1>8, CotasTipo DEF NoCrearOperacion, FallaSinCapturar
  <2> QED BY <1>8, <2>1, <2>2 DEF NoCrearOperacion, TypeOK
<1>9. CASE RecuperarCreacion(r)
  <2>1. \E c \in {"reintentable", "bloqueado"} : Terminar(r, Resp(c, 0))
    BY <1>9 DEF RecuperarCreacion
  <2>2. sol' \in Sol /\ filaPunto' \in Fila
    BY <1>3, <2>1, TerminarTipo
  <2>3. op' \in [Claves -> Operaciones]
    BY <1>2, <1>4, <1>9, EstadoOpTipo DEF RecuperarCreacion, TypeOK
  <2>4. fallas' \in Nat /\ caidas' \in Nat
    BY <1>9, CotasTipo DEF RecuperarCreacion
  <2> QED BY <1>9, <2>2, <2>3, <2>4 DEF RecuperarCreacion, TypeOK
<1>10. CASE Reclamar(r)
  <2>1. sol' \in Sol /\ filaPunto' \in Fila
    BY <1>1, <1>2, <1>3, <1>10, IrTipo, TerminarTipo, SeguirTipo
       DEF Reclamar, FallaSinCapturar
  <2>2. op' \in [Claves -> Operaciones]
    BY <1>2, <1>4, <1>10, EstadoOpTipo DEF Reclamar, Reclamada, TypeOK
  <2>3. fallas' \in Nat /\ caidas' \in Nat
    BY <1>10, CotasTipo DEF Reclamar, FallaSinCapturar
  <2> QED BY <1>10, <2>1, <2>2, <2>3 DEF Reclamar, TypeOK
<1>11. CASE Confirmar(r)
  <2> DEFINE tomada == [op EXCEPT ![K(r)].estado = "en_proceso",
                                  ![K(r)].resp = SinRespuesta]
  <2>1. tomada \in [Claves -> Operaciones]
    BY <1>2, <1>4, SinRespuestaTipo, RespOpTipo
  <2>2. op' \in [Claves -> Operaciones]
    <3>1. op' = op \/ op' = tomada
      BY <1>11 DEF Confirmar
    <3> HIDE DEF tomada
    <3> QED BY <2>1, <3>1 DEF TypeOK
  <2>3. [sol[r] EXCEPT !.pc = "emitir", !.confirmada = TRUE] \in EstadosSolicitud
    BY <1>1, <1>2 DEF EstadosSolicitud
  <2>4. ASSUME sol' = [sol EXCEPT ![r].pc = "emitir", ![r].confirmada = TRUE]
        PROVE  sol' \in Sol
    <3> DEFINE nuevo == [sol[r] EXCEPT !.pc = "emitir", !.confirmada = TRUE]
    <3>1. sol' = [sol EXCEPT ![r] = nuevo] /\ nuevo \in EstadosSolicitud
      BY <2>3, <2>4
    <3> HIDE DEF nuevo
    <3> QED BY <3>1 DEF TypeOK
  <2>5. sol' \in Sol /\ filaPunto' \in Fila
    <3>1. \/ /\ sol' = [sol EXCEPT ![r].pc = "emitir", ![r].confirmada = TRUE]
             /\ filaPunto' = FilaSoltada(r)
          \/ Terminar(r, Resp("elegibilidad", 0)) \/ Terminar(r, Resp("reintentable", 0))
          \/ Terminar(r, Resp("en_proceso", 0)) \/ Terminar(r, RespuestaReplay(K(r)))
      BY <1>11 DEF Confirmar, FallaSinCapturar
    <3> QED BY <1>2, <1>3, <1>5, <2>4, <3>1, TerminarTipo
  <2>6. fallas' \in Nat /\ caidas' \in Nat
    BY <1>11, CotasTipo DEF Confirmar, FallaSinCapturar
  <2> QED BY <1>11, <2>2, <2>5, <2>6 DEF Confirmar, TypeOK
<1>12. CASE ResolverIncompleta(r)
  <2>1. ASSUME NEW i \in Solicitudes,
               sol' = [sol EXCEPT ![r].pc = "candidata", ![r].resp = Reconstruida(i)]
        PROVE  sol' \in Sol
    <3> DEFINE nuevo == [sol[r] EXCEPT !.pc = "candidata", !.resp = Reconstruida(i)]
    <3>1. Reconstruida(i) \in Respuestas
      BY RespTipo DEF Reconstruida, TypeOK, Intentos, ClasesDurables
    <3>2. sol' = [sol EXCEPT ![r] = nuevo] /\ nuevo \in EstadosSolicitud
      BY <1>1, <1>2, <2>1, <3>1 DEF EstadosSolicitud
    <3> HIDE DEF nuevo
    <3> QED BY <3>2 DEF TypeOK
  <2>2. \/ Terminar(r, Resp("elegibilidad", 0)) \/ Terminar(r, Resp("en_proceso", 0))
        \/ Terminar(r, Resp("no_recuperable", 0)) \/ Terminar(r, Resp("reintentable", 0))
        \/ Ir(r, "emitir") /\ filaPunto' \in {r, filaPunto}
        \/ \E i \in Solicitudes :
              /\ sol' = [sol EXCEPT ![r].pc = "candidata", ![r].resp = Reconstruida(i)]
              /\ filaPunto' = FilaSoltada(r)
    BY <1>12 DEF ResolverIncompleta, FallaSinCapturar
  <2>3. sol' \in Sol /\ filaPunto' \in Fila
    BY <1>1, <1>2, <1>3, <2>1, <2>2, TerminarTipo, IrTipo
  <2>4. fallas' \in Nat /\ caidas' \in Nat
    BY <1>12, CotasTipo DEF ResolverIncompleta, FallaSinCapturar
  <2> QED BY <1>12, <2>3, <2>4 DEF ResolverIncompleta, TypeOK
<1>13. CASE PublicarCandidata(r)
  <2>1. Terminar(r, sol[r].resp) \/ Terminar(r, Resp("reintentable", 0))
    BY <1>13 DEF PublicarCandidata, FallaSinCapturar
  <2>2. sol' \in Sol /\ filaPunto' \in Fila
    BY <1>2, <1>3, <2>1, TerminarTipo
  <2>3. op' \in [Claves -> Operaciones]
    <3> DEFINE publicada == [op EXCEPT ![K(r)].estado = EstadoDesde(sol[r].resp.clase),
                                       ![K(r)].resp = sol[r].resp]
    <3>1. op' = op \/ op' = publicada
      BY <1>13 DEF PublicarCandidata
    <3>2. publicada \in [Claves -> Operaciones]
      BY <1>2, EstadoDesdeTipo, RespOpTipo
    <3> HIDE DEF publicada
    <3> QED BY <3>1, <3>2 DEF TypeOK
  <2>4. fallas' \in Nat /\ caidas' \in Nat
    BY <1>13, CotasTipo DEF PublicarCandidata, FallaSinCapturar
  <2> QED BY <1>13, <2>2, <2>3, <2>4 DEF PublicarCandidata, TypeOK
<1> QED BY <1>6, <1>7, <1>8, <1>9, <1>10, <1>11, <1>12, <1>13 DEF Resolver

\* Reservation, ARCA call and its answer.
LEMMA EmitirTipo ==
    ASSUME TypeOK, NEW r \in Solicitudes, Emitir(r) PROVE TypeOK'
<1> USE DEF db, fisco, memoria, cotas
<1> DEFINE Sol  == [Solicitudes -> EstadosSolicitud]
           Fila == Solicitudes \cup {Nadie}
           Cerr == [Tipos -> Solicitudes \cup {Nadie}]
<1>1. {"validar", "diagnosticar", "ultimo", "reservar", "preflight", "marcar",
       "solicitar", "esperar", "recuperar"} \subseteq Pasos
  BY DEF Pasos
<1>2. /\ K(r) \in Claves /\ T(r) \in Tipos
      /\ filaPunto \in Fila /\ FilaSoltada(r) \in Fila
      /\ sol \in Sol /\ cerrojo \in Cerr
      /\ sol[r].num \in Nat /\ intento \in [Solicitudes -> Intentos]
      /\ fallas \in Nat /\ caidas \in Nat
  BY ClaveTipo, FilaSoltadaTipo DEF TypeOK, EstadosSolicitud
<1>3. \A c \in {"fallido", "duplicado", "exito", "rechazo_global", "reconciliacion",
                "post_arca"}, n \in Nat :
         Resp(c, n) \in Respuestas
  BY RespTipo DEF ClasesDurables, ClasesHttp
<1>4. {"nada", "autorizado", "rechazado", "rechazo_global", "reconciliacion",
       "cerrada_pre_arca"} \subseteq Pendientes
  BY DEF Pendientes
<1>5. ASSUME FallarPreArca(r)
      PROVE  sol' \in Sol /\ cerrojo' \in Cerr /\ filaPunto' \in Fila
             /\ fallas' \in Nat /\ caidas' \in Nat
  BY <1>1, <1>2, <1>5, SaltarTipo, CotasTipo DEF FallarPreArca
<1>6. ASSUME NEW p \in Pendientes, NEW resp \in Respuestas, Devolver(r, p, resp)
      PROVE  sol' \in Sol /\ cerrojo' \in Cerr
  BY <1>6, DevolverTipo
<1>7. ASSUME NEW pc \in Pasos, Ir(r, pc) PROVE sol' \in Sol
  BY <1>7, IrTipo
<1>8. ASSUME SinFalla PROVE fallas' \in Nat /\ caidas' \in Nat
  BY <1>8, CotasTipo
<1>9. CASE TomarCerrojo(r)
  BY <1>1, <1>2, <1>7, <1>9 DEF TomarCerrojo, TypeOK
<1>10. CASE Validar(r)
  <2>1. \A d \in Duplicados(r) : intento[d].num \in Nat
    BY DEF Duplicados, TypeOK, Intentos
  <2>2. \/ /\ \E n \in Nat : \/ Devolver(r, "nada", Resp("fallido", n))
                            \/ Devolver(r, "nada", Resp("duplicado", n))
           /\ UNCHANGED filaPunto /\ SinFalla
        \/ /\ Ir(r, "diagnosticar") /\ filaPunto' = FilaSoltada(r)
           /\ UNCHANGED cerrojo /\ SinFalla
        \/ FallarPreArca(r)
    BY <1>10, <2>1 DEF Validar
  <2>3. sol' \in Sol /\ cerrojo' \in Cerr /\ filaPunto' \in Fila
        /\ fallas' \in Nat /\ caidas' \in Nat
    BY <1>1, <1>2, <1>3, <1>4, <1>5, <1>6, <1>7, <1>8, <2>2
  <2> QED BY <1>10, <2>3 DEF Validar, TypeOK
<1>11. CASE Diagnosticar(r)
  <2>1. ASSUME NEW n \in NumerosLocales(T(r)),
               sol' = [sol EXCEPT ![r].pc = "ultimo", ![r].local = n]
        PROVE  sol' \in Sol
    <3> DEFINE nuevo == [sol[r] EXCEPT !.pc = "ultimo", !.local = n]
    <3>1. n \in Nat
      BY DEF NumerosLocales, TypeOK, Intentos
    <3>2. sol' = [sol EXCEPT ![r] = nuevo] /\ nuevo \in EstadosSolicitud
      BY <1>1, <1>2, <2>1, <3>1 DEF EstadosSolicitud
    <3> HIDE DEF nuevo
    <3> QED BY <1>2, <3>2
  <2>2. \/ /\ \E n \in NumerosLocales(T(r)) :
                 sol' = [sol EXCEPT ![r].pc = "ultimo", ![r].local = n]
           /\ UNCHANGED <<cerrojo, filaPunto>> /\ SinFalla
        \/ /\ Devolver(r, "nada", Resp("fallido", 0))
           /\ UNCHANGED filaPunto /\ SinFalla
        \/ FallarPreArca(r)
    BY <1>11 DEF Diagnosticar
  <2>3. sol' \in Sol /\ cerrojo' \in Cerr /\ filaPunto' \in Fila
        /\ fallas' \in Nat /\ caidas' \in Nat
    BY <1>2, <1>3, <1>4, <1>5, <1>6, <1>8, <2>1, <2>2
  <2> QED BY <1>11, <2>3 DEF Diagnosticar, TypeOK
<1>12. CASE ConsultarUltimo(r)
  <2>1. ultimo[T(r)] + 1 \in Nat
    BY <1>2 DEF TypeOK
  <2>2. ASSUME sol' = [sol EXCEPT ![r].pc = "reservar", ![r].num = ultimo[T(r)] + 1]
        PROVE  sol' \in Sol
    <3> DEFINE nuevo == [sol[r] EXCEPT !.pc = "reservar", !.num = ultimo[T(r)] + 1]
    <3>1. sol' = [sol EXCEPT ![r] = nuevo] /\ nuevo \in EstadosSolicitud
      BY <1>1, <1>2, <2>1, <2>2 DEF EstadosSolicitud
    <3> HIDE DEF nuevo
    <3> QED BY <1>2, <3>1
  <2>3. sol' \in Sol /\ cerrojo' \in Cerr
    BY <1>2, <1>3, <1>4, <1>6, <1>12, <2>2 DEF ConsultarUltimo
  <2> QED BY <1>12, <2>3 DEF ConsultarUltimo, TypeOK
<1>13. CASE Reservar(r)
  <2>1. intento' \in [Solicitudes -> Intentos]
    BY <1>2, <1>13, IntentoNuevoTipo DEF Reservar
  <2>2. sol' \in Sol /\ cerrojo' \in Cerr /\ filaPunto' \in Fila
        /\ fallas' \in Nat /\ caidas' \in Nat
    BY <1>1, <1>2, <1>3, <1>4, <1>5, <1>6, <1>7, <1>8, <1>13 DEF Reservar
  <2> QED BY <1>13, <2>1, <2>2 DEF Reservar, TypeOK
<1>14. CASE Preflight(r)
  <2>1. intento' \in [Solicitudes -> Intentos]
    <3>1. "fallido_verificado" \in EstadosIntento /\ "cerrada_pre_arca" \in FasesGuarda
      BY DEF EstadosIntento, FasesGuarda
    <3> QED BY <1>2, <1>14, <3>1, CerrarGuardaTipo DEF Preflight
  <2>2. sol' \in Sol /\ cerrojo' \in Cerr /\ filaPunto' \in Fila
        /\ fallas' \in Nat /\ caidas' \in Nat
    BY <1>1, <1>2, <1>3, <1>4, <1>5, <1>6, <1>7, <1>8, <1>14 DEF Preflight
  <2> QED BY <1>14, <2>1, <2>2 DEF Preflight, TypeOK
<1>15. CASE MarcarArcaIniciada(r)
  <2>1. intento' \in [Solicitudes -> Intentos]
    <3>1. [intento EXCEPT ![r].fase = "arca_iniciada"] \in [Solicitudes -> Intentos]
      BY <1>2 DEF Intentos, FasesGuarda
    <3> QED BY <1>2, <1>15, <3>1 DEF MarcarArcaIniciada
  <2>2. sol' \in Sol /\ cerrojo' \in Cerr /\ filaPunto' \in Fila
        /\ fallas' \in Nat /\ caidas' \in Nat
    BY <1>1, <1>2, <1>3, <1>4, <1>5, <1>6, <1>7, <1>8, <1>15 DEF MarcarArcaIniciada
  <2> QED BY <1>15, <2>1, <2>2 DEF MarcarArcaIniciada, TypeOK
<1>16. CASE Solicitar(r)
  BY <1>1, <1>7, <1>16 DEF Solicitar, TypeOK, Destinos
<1>17. CASE RecibirRespuesta(r)
  <2>1. sol' \in Sol /\ cerrojo' \in Cerr
    BY <1>2, <1>3, <1>4, <1>6, <1>17 DEF RecibirRespuesta
  <2> QED BY <1>17, <2>1 DEF RecibirRespuesta, TypeOK
<1>18. CASE SinResultado(r)
  <2>1. ASSUME Inmovilizar(r) PROVE sol' \in Sol /\ cerrojo' \in Cerr
    <3>1. CASE Inmovilizable(r)
      BY <1>2, <1>3, <1>4, <1>6, <2>1, <3>1 DEF Inmovilizar
    <3>2. CASE ~Inmovilizable(r)
      <4> DEFINE nuevo == [sol[r] EXCEPT !.pc = "fin", !.resp = Resp("post_arca", 0)]
      <4>1. "fin" \in Pasos
        BY DEF Pasos
      <4>2. sol' = [sol EXCEPT ![r] = nuevo] /\ cerrojo' = [cerrojo EXCEPT ![T(r)] = Nadie]
        BY <2>1, <3>2 DEF Inmovilizar
      <4>3. nuevo \in EstadosSolicitud
        BY <1>2, <1>3, <4>1 DEF EstadosSolicitud
      <4> HIDE DEF nuevo
      <4> QED BY <1>2, <4>2, <4>3
    <3> QED BY <3>1, <3>2
  <2>2. ASSUME Terminar(r, Resp("post_arca", 0)) PROVE sol' \in Sol /\ filaPunto' \in Fila
    BY <1>3, <2>2, TerminarTipo
  <2>3. sol' \in Sol /\ cerrojo' \in Cerr /\ filaPunto' \in Fila
    BY <1>2, <1>18, <2>1, <2>2 DEF SinResultado
  <2>4. fallas' \in Nat /\ caidas' \in Nat
    BY <1>18, CotasTipo DEF SinResultado
  <2> QED BY <1>18, <2>3, <2>4 DEF SinResultado, TypeOK
<1> QED BY <1>9, <1>10, <1>11, <1>12, <1>13, <1>14, <1>15, <1>16, <1>17, <1>18 DEF Emitir

\* Publication and recovery.
LEMMA CerrarTipo ==
    ASSUME TypeOK, NEW r \in Solicitudes, Cerrar(r) PROVE TypeOK'
<1> USE DEF db, fisco, memoria, cotas
<1> DEFINE Sol  == [Solicitudes -> EstadosSolicitud]
           Fila == Solicitudes \cup {Nadie}
<1>1. /\ K(r) \in Claves
      /\ filaPunto \in Fila /\ FilaSoltada(r) \in Fila
      /\ sol \in Sol /\ sol[r].num \in Nat /\ sol[r].resp \in Respuestas
      /\ intento \in [Solicitudes -> Intentos] /\ op \in [Claves -> Operaciones]
      /\ comprobantes \subseteq Solicitudes
  BY ClaveTipo, FilaSoltadaTipo DEF TypeOK, EstadosSolicitud
<1>2. \A c \in {"reconciliacion", "post_arca", "error", "bloqueado", "reintentable",
                "no_recuperable"}, n \in Nat :
         Resp(c, n) \in Respuestas
  BY RespTipo DEF ClasesDurables, ClasesHttp
<1>3. ASSUME NEW resp \in Respuestas, Terminar(r, resp)
      PROVE  sol' \in Sol /\ filaPunto' \in Fila
  BY <1>3, TerminarTipo
<1>4. {"requiere_reconciliacion", "interrumpida_pre_arca"} \subseteq EstadosOperacion
  BY DEF EstadosOperacion
<1>5. ASSUME Publicado(r)
      PROVE  /\ op' \in [Claves -> Operaciones]
             /\ intento' \in [Solicitudes -> Intentos]
             /\ comprobantes' \subseteq Solicitudes
  BY <1>1, <1>5, EstadoDesdeTipo, RespOpTipo, IntentoPublicadoTipo DEF Publicado
<1>6. ASSUME Deshacer(r) PROVE sol' \in Sol /\ filaPunto' \in Fila
  <2>1. CASE Iniciada(r)
    BY <1>2, <1>3, <1>6, <2>1 DEF Deshacer
  <2>2. CASE ~Iniciada(r)
    <3> DEFINE nuevo == [sol[r] EXCEPT !.pc = "recuperar", !.pend = "nada"]
    <3>1. "recuperar" \in Pasos /\ "nada" \in Pendientes
      BY DEF Pasos, Pendientes
    <3>2. sol' = [sol EXCEPT ![r] = nuevo] /\ filaPunto' = FilaSoltada(r)
      BY <1>6, <2>2 DEF Deshacer
    <3>3. nuevo \in EstadosSolicitud
      BY <1>1, <3>1 DEF EstadosSolicitud
    <3> HIDE DEF nuevo
    <3> QED BY <1>1, <3>2, <3>3
  <2> QED BY <2>1, <2>2
<1>7. CASE Publicar(r)
  <2>1. RespuestaReplay(K(r)) \in Respuestas
    BY <1>1, ReplayTipo
  <2>2. op[K(r)].resp \in Respuestas
    BY <1>1 DEF Operaciones
  <2>3. ASSUME PerderPublicacion(r) PROVE sol' \in Sol /\ filaPunto' \in Fila
    BY <1>2, <1>3, <1>6, <2>1, <2>3 DEF PerderPublicacion
  <2>4. sol' \in Sol /\ filaPunto' \in Fila
    BY <1>1, <1>3, <1>6, <1>7, <2>3 DEF Publicar
  <2>5. /\ op' \in [Claves -> Operaciones]
        /\ intento' \in [Solicitudes -> Intentos]
        /\ comprobantes' \subseteq Solicitudes
    BY <1>1, <1>5, <1>7 DEF Publicar
  <2>6. fallas' \in Nat /\ caidas' \in Nat
    BY <1>7, CotasTipo DEF Publicar
  <2> QED BY <1>7, <2>4, <2>5, <2>6 DEF Publicar, TypeOK
<1>8. CASE PublicarInesperada(r)
  <2>1. \/ Terminar(r, Resp("reconciliacion", sol[r].num))
        \/ Terminar(r, Resp("error", 0))
    BY <1>8 DEF PublicarInesperada
  <2>2. sol' \in Sol /\ filaPunto' \in Fila
    BY <1>1, <1>2, <1>3, <2>1
  <2>3. op' \in [Claves -> Operaciones]
    <3> DEFINE incierta == [op EXCEPT
                              ![K(r)].estado = "requiere_reconciliacion",
                              ![K(r)].resp = Resp("reconciliacion", sol[r].num)]
    <3>1. op' = op \/ op' = incierta
      BY <1>8 DEF PublicarInesperada
    <3>2. incierta \in [Claves -> Operaciones]
      BY <1>1, <1>2, <1>4, RespOpTipo
    <3> HIDE DEF incierta
    <3> QED BY <1>1, <3>1, <3>2
  <2>4. fallas' \in Nat /\ caidas' \in Nat
    BY <1>8, CotasTipo DEF PublicarInesperada
  <2> QED BY <1>8, <2>2, <2>3, <2>4 DEF PublicarInesperada, TypeOK
<1>9. CASE Recuperar(r)
  <2> USE DEF InicioAmbiguo, CierreProbado, SinReserva, NoRecuperable
  <2>1. \E c \in {"post_arca", "reintentable", "bloqueado"} : Terminar(r, Resp(c, 0))
    BY <1>9 DEF Recuperar
  <2>2. sol' \in Sol /\ filaPunto' \in Fila
    BY <1>2, <1>3, <2>1
  <2>3. op' \in [Claves -> Operaciones]
    <3>1. \/ op' = op
          \/ \E e \in {"requiere_reconciliacion", "interrumpida_pre_arca",
                       op[K(r)].estado} : op' = [op EXCEPT ![K(r)].estado = e]
      BY <1>9 DEF Recuperar, DestinoRecuperado
    <3>2. op[K(r)].estado \in EstadosOperacion
      BY <1>1 DEF Operaciones
    <3> QED BY <1>1, <1>4, <3>1, <3>2, EstadoOpTipo
  <2>4. intento' \in [Solicitudes -> Intentos]
    <3>1. {"requiere_reconciliacion", "fallido_verificado"} \subseteq EstadosIntento
          /\ {"requiere_reconciliacion", "cerrada_pre_arca"} \subseteq FasesGuarda
      BY DEF EstadosIntento, FasesGuarda
    <3>2. intento[r].estado \in EstadosIntento
      BY <1>1 DEF Intentos
    <3>3. \/ intento' = intento
          \/ intento' = CerrarGuarda(r, "fallido_verificado", "cerrada_pre_arca")
          \/ \E e \in {"requiere_reconciliacion", intento[r].estado} :
                intento' = CerrarGuarda(r, e, "requiere_reconciliacion")
      BY <1>9, <1>1, ZenonT(30) DEF Recuperar, CerrarGuarda
    <3> QED BY <1>1, <3>1, <3>2, <3>3, CerrarGuardaTipo
  <2>5. fallas' \in Nat /\ caidas' \in Nat
    BY <1>9, CotasTipo DEF Recuperar
  <2> QED BY <1>9, <2>2, <2>3, <2>4, <2>5 DEF Recuperar, TypeOK
<1> QED BY <1>7, <1>8, <1>9 DEF Cerrar

\* ARCA, other systems, the operators of the point, time and restarts.
LEMMA EntornoTipo ==
    ASSUME TypeOK, Entorno PROVE TypeOK'
<1> USE DEF db, fisco, memoria, cotas
<1>1. CASE \E r \in Solicitudes : ProcesarArca(r)
  <2> PICK r \in Solicitudes : ProcesarArca(r)
    BY <1>1
  <2>1. T(r) \in Tipos
    BY ClaveTipo
  <2>2. ultimo' \in [Tipos -> Nat] /\ arca' \in [Solicitudes -> Destinos]
    BY <2>1 DEF ProcesarArca, TypeOK, Destinos
  <2> QED BY <2>2 DEF ProcesarArca, TypeOK
<1>2. CASE \E t \in Tipos : EmisorExterno(t)
  BY <1>2 DEF EmisorExterno, TypeOK
<1>3. CASE \E k \in Claves : Envejecer(k)
  <2> PICK k \in Claves : Envejecer(k)
    BY <1>3
  <2>1. op' = [op EXCEPT ![k].vieja = TRUE]
    BY DEF Envejecer
  <2>2. [op[k] EXCEPT !.vieja = TRUE] \in Operaciones
    BY DEF TypeOK, Operaciones
  <2>3. op' \in [Claves -> Operaciones]
    BY <2>1, <2>2 DEF TypeOK
  <2> QED BY <2>3 DEF Envejecer, TypeOK
<1>4. CASE CambiarPunto
  <2>1. rece' \in [rev : Nat, vigente : BOOLEAN]
    BY <1>4 DEF CambiarPunto, TypeOK
  <2> QED BY <1>4, <2>1 DEF CambiarPunto, TypeOK
<1>5. CASE VencerEvidencia
  BY <1>5 DEF VencerEvidencia, TypeOK
<1>6. CASE Reiniciar
  <2>1. /\ "fin" \in Pasos /\ "nada" \in Pendientes
        /\ Resp("cortada", 0) \in Respuestas
    BY RespTipo DEF Pasos, Pendientes, ClasesHttp
  <2>2. ASSUME NEW r \in Solicitudes
        PROVE  [sol[r] EXCEPT !.pc = "fin", !.pend = "nada",
                              !.resp = Resp("cortada", 0)] \in EstadosSolicitud
    BY <2>1 DEF TypeOK, EstadosSolicitud
  <2>3. sol' \in [Solicitudes -> EstadosSolicitud]
    BY <1>6, <2>2 DEF Reiniciar, TypeOK
  <2>4. cerrojo' \in [Tipos -> Solicitudes \cup {Nadie}]
        /\ filaPunto' \in Solicitudes \cup {Nadie}
    BY <1>6 DEF Reiniciar
  <2>5. fallas' \in Nat /\ caidas' \in Nat
    <3>1. fallas' = fallas /\ caidas' = caidas + 1
      BY <1>6 DEF Reiniciar
    <3>2. fallas \in Nat /\ caidas \in Nat
      BY DEF TypeOK
    <3> QED BY <3>1, <3>2
  <2>6. UNCHANGED <<op, intento, comprobantes, rece, ultimo, arca>>
    BY <1>6 DEF Reiniciar
  <2> QED BY <2>3, <2>4, <2>5, <2>6 DEF TypeOK
<1> QED BY <1>1, <1>2, <1>3, <1>4, <1>5, <1>6 DEF Entorno

LEMMA TipoInductivo == TypeOK /\ [Next]_vars => TypeOK'
<1> SUFFICES ASSUME TypeOK, [Next]_vars PROVE TypeOK'
  OBVIOUS
<1>1. CASE Entorno
  BY <1>1, EntornoTipo
<1>2. CASE \E r \in Solicitudes : Paso(r)
  BY <1>2, ResolverTipo, EmitirTipo, CerrarTipo DEF Paso
<1>3. CASE UNCHANGED vars
  BY <1>3 DEF vars, TypeOK
<1> QED BY <1>1, <1>2, <1>3 DEF Next

\* Type correctness: whatever the requests, keys, payloads and bounds, every
\* row of operaciones_idempotentes, intentos_emision_fiscal and its guard, and
\* every in-memory request keeps the shape the models declare.
THEOREM TipoCorrecto == Spec => []TypeOK
BY InitTipo, TipoInductivo, PTL DEF Spec


----------------------------------------------------------------------------
(* What a step of request r may do to its own attempt.                      *)

SinCambio(r) == intento'[r] = intento[r] /\ comprobantes' = comprobantes

Reserva(r) ==
    /\ sol[r].pc = "reservar" /\ intento[r].fase = "ninguna"
    /\ \A i \in Solicitudes : ~Activa(i)
    /\ intento'[r].estado = "en_proceso" /\ intento'[r].fase = "pre_arca"
    /\ intento'[r].rev = rece.rev /\ intento'[r].num = sol[r].num
    /\ intento'[r].op = K(r) /\ intento'[r].tipo = T(r)
    /\ comprobantes' = comprobantes

Cruce(r) ==
    /\ intento[r].fase = "pre_arca" /\ op[K(r)].estado = "en_proceso"
    /\ intento'[r] = [intento[r] EXCEPT !.fase = "arca_iniciada"]
    /\ comprobantes' = comprobantes

CierreLocal(r) ==
    /\ intento[r].fase \in {"pre_arca", "cerrada_pre_arca"}
    /\ intento'[r] = [intento[r] EXCEPT !.estado = "fallido_verificado",
                                        !.fase = "cerrada_pre_arca"]
    /\ comprobantes' = comprobantes

Autorizacion(r) ==
    /\ intento[r].fase = "arca_iniciada" /\ arca[r] = "A"
    /\ intento'[r] = [intento[r] EXCEPT !.estado = "autorizado",
                                        !.fase = "cerrada_terminal"]
    /\ comprobantes' = comprobantes \cup {r}
    /\ op'[K(r)].estado \in EstadosTerminales

Rechazo(r) ==
    /\ intento[r].fase = "arca_iniciada" /\ arca[r] \in {"R", "10005"}
    /\ intento'[r] = [intento[r] EXCEPT !.estado = "rechazado_arca",
                                        !.fase = "cerrada_terminal"]
    /\ comprobantes' = comprobantes
    /\ op'[K(r)].estado \in EstadosTerminales

Incertidumbre(r) ==
    /\ intento[r].fase \in {"arca_iniciada", "requiere_reconciliacion"}
    /\ \E e \in EstadosIntento \ {"inexistente"} :
          intento'[r] = [intento[r] EXCEPT !.estado = e, !.fase = "requiere_reconciliacion"]
    /\ comprobantes' = comprobantes

Transicion(r) ==
    \/ SinCambio(r) \/ Reserva(r) \/ Cruce(r) \/ CierreLocal(r)
    \/ Autorizacion(r) \/ Rechazo(r) \/ Incertidumbre(r)

\* Sending is a step of its own, of a guard that crossed
Envio(r) ==
    \/ arca' = arca
    \/ /\ arca' = [arca EXCEPT ![r] = "en_vuelo"]
       /\ intento[r].fase = "arca_iniciada" /\ intento' = intento
       /\ comprobantes' = comprobantes

\* What a step leaves alone
Ajeno(r) ==
    /\ \A i \in Solicitudes \ {r} : sol'[i] = sol[i] /\ intento'[i] = intento[i]
    /\ rece' = rece /\ ultimo' = ultimo

\* A terminal operation keeps its state and its response
OperacionTerminalFija ==
    \A k \in Claves : op[k].estado \in EstadosTerminales =>
        op'[k].estado = op[k].estado /\ op'[k].resp = op[k].resp

Efecto(r) ==
    /\ Ajeno(r) /\ OperacionTerminalFija
    /\ Transicion(r) /\ Envio(r) /\ Avance(r)'

----------------------------------------------------------------------------
(* Building blocks.                                                         *)

LEMMA OpCambiada ==
    ASSUME TypeOK, NEW k \in Claves, op[k].estado \notin EstadosTerminales,
           op' \in [Claves -> Operaciones],
           \A c \in Claves \ {k} : op'[c] = op[c]
    PROVE  OperacionTerminalFija
BY DEF OperacionTerminalFija

\* A request that ends, with its attempt as it was.
LEMMA TerminarAvance ==
    ASSUME TypeOK, NEW r \in Solicitudes, NEW resp, Terminar(r, resp)
    PROVE  /\ \A i \in Solicitudes \ {r} : sol'[i] = sol[i]
           /\ Avance(r)'
<1>1. sol \in [Solicitudes -> EstadosSolicitud]
  BY DEF TypeOK
<1>2. sol'[r].pc = "fin" /\ sol'[r].pend = "nada"
  BY <1>1 DEF Terminar, EstadosSolicitud
<1>3. \A i \in Solicitudes \ {r} : sol'[i] = sol[i]
  BY <1>1 DEF Terminar
<1> QED BY <1>2, <1>3 DEF Avance, PasosSinReserva

\* A request that moves among the steps before its reservation.
LEMMA IrAvance ==
    ASSUME TypeOK, NEW r \in Solicitudes, NEW pc \in PasosSinReserva, Ir(r, pc),
           sol[r].pend = "nada", intento'[r].fase = "ninguna"
    PROVE  /\ \A i \in Solicitudes \ {r} : sol'[i] = sol[i]
           /\ Avance(r)'
<1>1. sol \in [Solicitudes -> EstadosSolicitud]
  BY DEF TypeOK
<1>2. sol'[r].pc = pc /\ sol'[r].pend = "nada"
  BY <1>1 DEF Ir, EstadosSolicitud
<1>3. \A i \in Solicitudes \ {r} : sol'[i] = sol[i]
  BY <1>1 DEF Ir
<1> QED BY <1>2, <1>3 DEF Avance, PasosSinReserva

LEMMA SeguirAvance ==
    ASSUME TypeOK, NEW r \in Solicitudes, NEW f, Seguir(r, f),
           sol[r].pend = "nada", intento'[r].fase = "ninguna"
    PROVE  /\ \A i \in Solicitudes \ {r} : sol'[i] = sol[i]
           /\ Avance(r)'
<1>1. CASE Destino(r) = "fin"
  BY <1>1, TerminarAvance DEF Seguir
<1>2. CASE Destino(r) # "fin"
  <2>1. Destino(r) \in PasosSinReserva
    BY <1>2 DEF Destino, PasosSinReserva
  <2> QED BY <1>2, <2>1, IrAvance DEF Seguir
<1> QED BY <1>1, <1>2

\* Reservation, ARCA: leaving the numbering lock with something to publish.
LEMMA DevolverAvance ==
    ASSUME TypeOK, NEW r \in Solicitudes, NEW p \in Pendientes, NEW resp \in Respuestas,
           Devolver(r, p, resp),
           p = "cerrada_pre_arca" => intento'[r].fase = "pre_arca",
           p \in {"autorizado", "rechazado", "rechazo_global", "reconciliacion"} =>
              intento'[r].fase = "arca_iniciada",
           p = "autorizado" => arca'[r] = "A" /\ resp.clase = "exito",
           p = "rechazado" => arca'[r] = "R" /\ resp.clase = "fallido",
           p = "rechazo_global" => arca'[r] = "10005" /\ resp.clase = "rechazo_global"
    PROVE  /\ \A i \in Solicitudes \ {r} : sol'[i] = sol[i]
           /\ Avance(r)'
<1>1. sol \in [Solicitudes -> EstadosSolicitud]
  BY DEF TypeOK
<1>2. sol'[r].pc = "publicar" /\ sol'[r].pend = p /\ sol'[r].resp = resp
  BY <1>1 DEF Devolver, EstadosSolicitud
<1>3. \A i \in Solicitudes \ {r} : sol'[i] = sol[i]
  BY <1>1 DEF Devolver
<1> QED BY <1>2, <1>3 DEF Avance, PasosSinReserva

----------------------------------------------------------------------------
(* Every step of a request has one of those effects.                        *)

\* Before the reservation only the operation may change.
LEMMA EfectoResolver ==
    ASSUME Inductivo, NEW r \in Solicitudes, Resolver(r) PROVE Efecto(r)
<1> USE DEF db, fisco, memoria, cotas
<1>1. TypeOK /\ Avance(r)
  BY DEF Inductivo, AvanceCoherente
<1>2. TypeOK'
  BY <1>1, ResolverTipo
<1>3. UNCHANGED <<intento, comprobantes, rece, ultimo, arca>>
  BY DEF Resolver, LeerOperacion, CrearOperacion, NoCrearOperacion, RecuperarCreacion,
         Reclamar, Confirmar, ResolverIncompleta, PublicarCandidata
<1>4. sol[r].pc \in PasosSinReserva /\ sol[r].pc # "publicar"
  BY DEF Resolver, LeerOperacion, CrearOperacion, NoCrearOperacion, RecuperarCreacion,
         Reclamar, Confirmar, ResolverIncompleta, PublicarCandidata, En, PasosSinReserva
<1>5. sol[r].pend = "nada" /\ intento[r].fase = "ninguna"
  BY <1>1, <1>4 DEF Avance
<1>6. K(r) \in Claves
  BY ClaveTipo
<1>7. {"crear", "emitir", "recuperar_creacion", "candidata"} \subseteq PasosSinReserva
  BY DEF PasosSinReserva
<1>8. /\ \A i \in Solicitudes \ {r} : sol'[i] = sol[i]
      /\ Avance(r)'
  <2>1. \/ \E resp : Terminar(r, resp)
        \/ \E f : Seguir(r, f)
        \/ \E pc \in PasosSinReserva : Ir(r, pc)
        \/ sol' = [sol EXCEPT ![r].pc = "emitir", ![r].confirmada = TRUE]
        \/ \E resp : sol' = [sol EXCEPT ![r].pc = "candidata", ![r].resp = resp]
    <3>1. CASE LeerOperacion(r)
      BY <1>7, <3>1 DEF LeerOperacion, FallaSinCapturar
    <3>2. CASE CrearOperacion(r)
      BY <1>7, <3>2 DEF CrearOperacion
    <3>3. CASE NoCrearOperacion(r)
      BY <3>3 DEF NoCrearOperacion, FallaSinCapturar
    <3>4. CASE RecuperarCreacion(r)
      BY <3>4 DEF RecuperarCreacion
    <3>5. CASE Reclamar(r)
      BY <1>7, <3>5 DEF Reclamar, FallaSinCapturar
    <3>6. CASE Confirmar(r)
      BY <3>6 DEF Confirmar, FallaSinCapturar
    <3>7. CASE ResolverIncompleta(r)
      BY <1>7, <3>7 DEF ResolverIncompleta, FallaSinCapturar
    <3>8. CASE PublicarCandidata(r)
      BY <3>8 DEF PublicarCandidata, FallaSinCapturar
    <3> QED BY <3>1, <3>2, <3>3, <3>4, <3>5, <3>6, <3>7, <3>8 DEF Resolver
  <2>2. ASSUME NEW pc \in PasosSinReserva,
               sol'[r].pc = pc, sol'[r].pend = "nada",
               \A i \in Solicitudes \ {r} : sol'[i] = sol[i]
        PROVE  Avance(r)'
    BY <1>3, <1>5, <2>2 DEF Avance, PasosSinReserva
  <2>3. sol \in [Solicitudes -> EstadosSolicitud]
    BY <1>1 DEF TypeOK
  <2>4. CASE sol' = [sol EXCEPT ![r].pc = "emitir", ![r].confirmada = TRUE]
    <3>1. sol'[r].pc = "emitir" /\ sol'[r].pend = "nada"
          /\ \A i \in Solicitudes \ {r} : sol'[i] = sol[i]
      BY <1>5, <2>3, <2>4 DEF EstadosSolicitud
    <3> QED BY <1>7, <2>2, <3>1
  <2>5. CASE \E resp : sol' = [sol EXCEPT ![r].pc = "candidata", ![r].resp = resp]
    <3>1. sol'[r].pc = "candidata" /\ sol'[r].pend = "nada"
          /\ \A i \in Solicitudes \ {r} : sol'[i] = sol[i]
      BY <1>5, <2>3, <2>5 DEF EstadosSolicitud
    <3> QED BY <1>7, <2>2, <3>1
  <2>6. intento'[r].fase = "ninguna"
    BY <1>3, <1>5
  <2> QED BY <1>1, <1>5, <2>1, <2>4, <2>5, <2>6, TerminarAvance, SeguirAvance, IrAvance
<1>9. OperacionTerminalFija
  <2>1. op' = op \/ op[K(r)].estado \notin EstadosTerminales
    BY DEF Resolver, LeerOperacion, CrearOperacion, NoCrearOperacion, RecuperarCreacion,
           Reclamar, Reclamable, Confirmar, Confirmable, ResolverIncompleta, PublicarCandidata,
           EstadosTerminales
  <2>2. \A c \in Claves \ {K(r)} : op'[c] = op[c]
    BY <1>1, <1>6 DEF Resolver, LeerOperacion, CrearOperacion, NoCrearOperacion,
           RecuperarCreacion, Reclamar, Reclamada, Confirmar, ResolverIncompleta,
           PublicarCandidata, TypeOK
  <2> QED BY <1>1, <1>2, <1>6, <2>1, <2>2, OpCambiada DEF OperacionTerminalFija, TypeOK
<1> QED BY <1>3, <1>8, <1>9 DEF Efecto, Ajeno, Transicion, SinCambio, Envio

\* A step that reaches a given point of the program, without pending rows.
LEMMA PasoAvance ==
    ASSUME TypeOK, NEW r \in Solicitudes, NEW pc \in Pasos \ {"publicar"},
           sol[r].pend = "nada",
           sol' = [sol EXCEPT ![r].pc = pc],
           pc \in PasosSinReserva => intento'[r].fase = "ninguna",
           pc \in {"preflight", "marcar"} => intento'[r].fase = "pre_arca",
           pc = "solicitar" => intento'[r].fase = "arca_iniciada" /\ arca'[r] = "no_enviada",
           pc = "esperar" => intento'[r].fase = "arca_iniciada"
    PROVE  /\ \A i \in Solicitudes \ {r} : sol'[i] = sol[i]
           /\ Avance(r)'
<1>1. sol \in [Solicitudes -> EstadosSolicitud]
  BY DEF TypeOK
<1>2. sol'[r].pc = pc /\ sol'[r].pend = "nada"
  BY <1>1 DEF EstadosSolicitud
<1>3. \A i \in Solicitudes \ {r} : sol'[i] = sol[i]
  BY <1>1
<1> QED BY <1>2, <1>3 DEF Avance, Enviada

\* The numbering lock is held: numbering, reservation, crossing and answer.
LEMMA EfectoEmitir ==
    ASSUME Inductivo, NEW r \in Solicitudes, Emitir(r) PROVE Efecto(r)
<1> USE DEF db, fisco, memoria, cotas
<1>1. TypeOK /\ Avance(r) /\ EnvioCruza
  BY DEF Inductivo, AvanceCoherente
<1>2. TypeOK'
  BY <1>1, EmitirTipo
<1>3. /\ sol \in [Solicitudes -> EstadosSolicitud]
      /\ intento \in [Solicitudes -> Intentos]
      /\ arca \in [Solicitudes -> Destinos]
  BY <1>1 DEF TypeOK
<1>4. sol[r].pend = "nada"
  BY <1>1 DEF Avance, Emitir, TomarCerrojo, Validar, Diagnosticar, ConsultarUltimo,
         Reservar, Preflight, MarcarArcaIniciada, Solicitar, RecibirRespuesta,
         SinResultado, En
<1>5. OperacionTerminalFija /\ UNCHANGED <<op, comprobantes, rece, ultimo>>
  BY DEF OperacionTerminalFija, Emitir, TomarCerrojo, Validar, Diagnosticar,
         ConsultarUltimo, Reservar, Preflight, MarcarArcaIniciada, Solicitar,
         RecibirRespuesta, SinResultado
<1>6. {"nada", "autorizado", "rechazado", "rechazo_global", "reconciliacion",
       "cerrada_pre_arca"} \subseteq Pendientes
  BY DEF Pendientes
<1>7. \A c \in {"fallido", "duplicado", "exito", "rechazo_global", "reconciliacion",
                "post_arca"}, n \in Nat :
         Resp(c, n) \in Respuestas /\ Resp(c, n).clase = c
  BY RespTipo DEF ClasesDurables, ClasesHttp, Resp
<1>8. sol[r].num \in Nat
  BY <1>3 DEF EstadosSolicitud
<1> DEFINE Bien == (\A i \in Solicitudes \ {r} : sol'[i] = sol[i]) /\ Avance(r)'
<1>9. ASSUME NEW n \in Nat, NEW c \in {"fallido", "duplicado"},
             Devolver(r, "nada", Resp(c, n))
      PROVE  Bien
  BY <1>1, <1>6, <1>7, <1>9, DevolverAvance
<1>10. ASSUME NEW n \in Nat, Devolver(r, "cerrada_pre_arca", Resp("fallido", n)),
              intento'[r].fase = "pre_arca"
       PROVE  Bien
  BY <1>1, <1>6, <1>7, <1>10, DevolverAvance
<1>11. ASSUME FallarPreArca(r) PROVE Bien
  <2>1. sol' = [sol EXCEPT ![r].pc = "recuperar"]
    BY <1>11 DEF FallarPreArca, SaltarA
  <2>2. "recuperar" \in Pasos \ {"publicar"} /\ "recuperar" \notin PasosSinReserva
    BY DEF Pasos, PasosSinReserva
  <2> QED BY <1>1, <1>4, <2>1, <2>2, PasoAvance
<1>12. /\ {"validar", "diagnosticar", "ultimo", "reservar"} \subseteq PasosSinReserva
       /\ {"preflight", "marcar", "solicitar", "esperar"} \cap PasosSinReserva = {}
       /\ Pasos \ {"publicar"} = PasosSinReserva \cup
            {"preflight", "marcar", "solicitar", "esperar", "recuperar", "fin"}
  BY DEF Pasos, PasosSinReserva
<1>13. ASSUME NEW pc \in PasosSinReserva, Ir(r, pc), intento[r].fase = "ninguna",
              intento' = intento
       PROVE  Bien
  BY <1>1, <1>4, <1>13, IrAvance
<1>14. ASSUME Bien, UNCHANGED <<arca>>, Transicion(r),
              \A i \in Solicitudes \ {r} : intento'[i] = intento[i]
       PROVE  Efecto(r)
  BY <1>5, <1>14 DEF Efecto, Ajeno, Envio
<1>15. CASE TomarCerrojo(r)
  <2>1. intento[r].fase = "ninguna"
    BY <1>1, <1>15 DEF TomarCerrojo, En, Avance, PasosSinReserva
  <2>2. Bien
    BY <1>12, <1>13, <1>15, <2>1 DEF TomarCerrojo
  <2> QED BY <1>5, <1>14, <1>15, <2>2 DEF TomarCerrojo, Transicion, SinCambio
<1>16. CASE Validar(r)
  <2>1. intento[r].fase = "ninguna"
    BY <1>1, <1>16 DEF Validar, En, Avance, PasosSinReserva
  <2>2. \A d \in Duplicados(r) : intento[d].num \in Nat
    BY <1>1 DEF Duplicados, TypeOK, Intentos
  <2>3. UNCHANGED <<intento, arca>>
    BY <1>16 DEF Validar
  <2>4. \/ \E n \in Nat, c \in {"fallido", "duplicado"} : Devolver(r, "nada", Resp(c, n))
        \/ Ir(r, "diagnosticar") \/ FallarPreArca(r)
    BY <1>16, <2>2 DEF Validar
  <2>5. Bien
    BY <1>9, <1>11, <1>12, <1>13, <2>1, <2>3, <2>4
  <2> QED BY <1>5, <1>14, <2>3, <2>5 DEF Transicion, SinCambio
<1>17. CASE Diagnosticar(r)
  <2>1. intento[r].fase = "ninguna"
    BY <1>1, <1>17 DEF Diagnosticar, En, Avance, PasosSinReserva
  <2>2. UNCHANGED <<intento, arca>>
    BY <1>17 DEF Diagnosticar
  <2>3. ASSUME NEW n, sol' = [sol EXCEPT ![r].pc = "ultimo", ![r].local = n] PROVE Bien
    <3>1. sol'[r].pc = "ultimo" /\ sol'[r].pend = "nada"
          /\ \A i \in Solicitudes \ {r} : sol'[i] = sol[i]
      BY <1>3, <1>4, <2>3 DEF EstadosSolicitud
    <3> QED BY <2>1, <2>2, <3>1 DEF Avance
  <2>4. \/ \E n : sol' = [sol EXCEPT ![r].pc = "ultimo", ![r].local = n]
        \/ Devolver(r, "nada", Resp("fallido", 0)) \/ FallarPreArca(r)
    BY <1>17 DEF Diagnosticar
  <2>5. Bien
    BY <1>9, <1>11, <2>3, <2>4
  <2> QED BY <1>5, <1>14, <2>2, <2>5 DEF Transicion, SinCambio
<1>18. CASE ConsultarUltimo(r)
  <2>1. intento[r].fase = "ninguna"
    BY <1>1, <1>18 DEF ConsultarUltimo, En, Avance, PasosSinReserva
  <2>2. UNCHANGED <<intento, arca>>
    BY <1>18 DEF ConsultarUltimo
  <2>3. ASSUME NEW n, sol' = [sol EXCEPT ![r].pc = "reservar", ![r].num = n] PROVE Bien
    <3>1. sol'[r].pc = "reservar" /\ sol'[r].pend = "nada"
          /\ \A i \in Solicitudes \ {r} : sol'[i] = sol[i]
      BY <1>3, <1>4, <2>3 DEF EstadosSolicitud
    <3> QED BY <2>1, <2>2, <3>1 DEF Avance
  <2>4. \/ \E n : sol' = [sol EXCEPT ![r].pc = "reservar", ![r].num = n]
        \/ Devolver(r, "nada", Resp("fallido", 0))
    BY <1>18 DEF ConsultarUltimo
  <2>5. Bien
    BY <1>9, <2>3, <2>4
  <2> QED BY <1>5, <1>14, <2>2, <2>5 DEF Transicion, SinCambio
<1>19. CASE Reservar(r)
  <2>1. intento[r].fase = "ninguna"
    BY <1>1, <1>19 DEF Reservar, En, Avance, PasosSinReserva
  <2>2. arca' = arca
    BY <1>19 DEF Reservar
  <2>3. CASE intento' = intento
    <3>1. \/ Devolver(r, "nada", Resp("fallido", 0)) \/ FallarPreArca(r)
      <4>1. ASSUME intento = [intento EXCEPT ![r] = IntentoNuevo(r)] PROVE FALSE
        BY <1>3, <2>1, <4>1 DEF IntentoNuevo
      <4> QED BY <1>19, <2>3, <4>1 DEF Reservar
    <3>2. Bien
      BY <1>9, <1>11, <3>1
    <3> QED BY <1>5, <1>14, <2>2, <2>3, <3>2 DEF Transicion, SinCambio
  <2>4. CASE intento' # intento
    <3>1. /\ intento' = [intento EXCEPT ![r] = IntentoNuevo(r)]
          /\ OperacionContinua(K(r)) /\ Conflictos(r) = {}
          /\ Ir(r, "preflight") \/ FallarPreArca(r)
          /\ sol[r].pc = "reservar"
      BY <1>19, <2>4 DEF Reservar, En
    <3>2. intento'[r] = IntentoNuevo(r)
          /\ \A i \in Solicitudes \ {r} : intento'[i] = intento[i]
      BY <1>3, <3>1
    <3>3. Reserva(r)
      BY <1>5, <2>1, <3>1, <3>2
      DEF Reserva, Conflictos, IntentoNuevo, OperacionContinua
    <3>4. ASSUME Ir(r, "preflight") PROVE Bien
      <4>1. sol' = [sol EXCEPT ![r].pc = "preflight"] /\ intento'[r].fase = "pre_arca"
        BY <3>2, <3>4 DEF Ir, IntentoNuevo
      <4> QED BY <1>1, <1>4, <1>12, <4>1, PasoAvance
    <3>5. Bien
      BY <1>11, <3>1, <3>4
    <3> QED BY <1>14, <2>2, <3>2, <3>3, <3>5 DEF Transicion
  <2> QED BY <2>3, <2>4
<1>20. CASE Preflight(r)
  <2>1. intento[r].fase = "pre_arca"
    BY <1>1, <1>20 DEF Preflight, En, Avance
  <2>2. arca' = arca
    BY <1>20 DEF Preflight
  <2>3. CASE intento' = intento /\ ~Devolver(r, "nada", Resp("fallido", 0))
    <3>1. ASSUME Ir(r, "marcar") PROVE Bien
      <4>1. sol' = [sol EXCEPT ![r].pc = "marcar"]
        BY <3>1 DEF Ir
      <4> QED BY <1>1, <1>4, <1>12, <2>1, <2>3, <4>1, PasoAvance
    <3>2. \/ Ir(r, "marcar") \/ FallarPreArca(r)
          \/ Devolver(r, "cerrada_pre_arca", Resp("fallido", sol[r].num))
      BY <1>20, <2>3 DEF Preflight
    <3>3. Bien
      BY <1>8, <1>10, <1>11, <2>1, <2>3, <3>1, <3>2
    <3> QED BY <1>5, <1>14, <2>2, <2>3, <3>3 DEF Transicion, SinCambio
  <2>4. CASE /\ intento' = CerrarGuarda(r, "fallido_verificado", "cerrada_pre_arca")
             /\ Devolver(r, "nada", Resp("fallido", 0))
    <3>1. Bien
      BY <1>9, <2>4
    <3>2. \A i \in Solicitudes \ {r} : intento'[i] = intento[i]
      BY <1>3, <2>4 DEF CerrarGuarda
    <3>3. CierreLocal(r)
      BY <1>3, <1>5, <2>1, <2>4 DEF CierreLocal, CerrarGuarda, Intentos
    <3> QED BY <1>14, <2>2, <3>1, <3>2, <3>3 DEF Transicion
  <2>5. CASE intento' = intento /\ Devolver(r, "nada", Resp("fallido", 0))
    <3>1. Bien
      BY <1>9, <2>5
    <3> QED BY <1>5, <1>14, <2>2, <2>5, <3>1 DEF Transicion, SinCambio
  <2> QED BY <1>20, <2>3, <2>4, <2>5 DEF Preflight
<1>21. CASE MarcarArcaIniciada(r)
  <2>1. intento[r].fase = "pre_arca"
    BY <1>1, <1>21 DEF MarcarArcaIniciada, En, Avance
  <2>2. arca' = arca
    BY <1>21 DEF MarcarArcaIniciada
  <2>3. arca[r] = "no_enviada"
    BY <1>1, <2>1 DEF EnvioCruza, Enviada, Cruzada
  <2>4. CASE intento' = intento
    <3>1. [intento EXCEPT ![r].fase = "arca_iniciada"] # intento
      BY <1>3, <2>1 DEF Intentos
    <3>2. \/ Devolver(r, "cerrada_pre_arca", Resp("fallido", 0)) \/ FallarPreArca(r)
      BY <1>21, <2>4, <3>1 DEF MarcarArcaIniciada
    <3>3. Bien
      BY <1>10, <1>11, <2>1, <2>4, <3>2
    <3> QED BY <1>5, <1>14, <2>2, <2>4, <3>3 DEF Transicion, SinCambio
  <2>5. CASE intento' # intento
    <3>1. /\ intento' = [intento EXCEPT ![r].fase = "arca_iniciada"]
          /\ PuedeIniciarArca(r) /\ (Ir(r, "solicitar") \/ FallarPreArca(r))
      BY <1>21, <2>5 DEF MarcarArcaIniciada
    <3>2. /\ intento'[r] = [intento[r] EXCEPT !.fase = "arca_iniciada"]
          /\ intento'[r].fase = "arca_iniciada"
          /\ \A i \in Solicitudes \ {r} : intento'[i] = intento[i]
      BY <1>3, <3>1 DEF Intentos
    <3>3. Cruce(r)
      BY <1>5, <2>1, <3>1, <3>2 DEF Cruce, PuedeIniciarArca
    <3>4. ASSUME Ir(r, "solicitar") PROVE Bien
      <4>1. sol' = [sol EXCEPT ![r].pc = "solicitar"]
        BY <3>4 DEF Ir
      <4> QED BY <1>1, <1>4, <1>12, <2>2, <2>3, <3>2, <4>1, PasoAvance
    <3>5. Bien
      BY <1>11, <3>1, <3>4
    <3> QED BY <1>14, <2>2, <3>2, <3>3, <3>5 DEF Transicion
  <2> QED BY <2>4, <2>5
<1>22. CASE Solicitar(r)
  <2>1. intento[r].fase = "arca_iniciada"
    BY <1>1, <1>22 DEF Solicitar, En, Avance
  <2>2. /\ sol' = [sol EXCEPT ![r].pc = "esperar"]
        /\ arca' = [arca EXCEPT ![r] = "en_vuelo"] /\ intento' = intento
    BY <1>22 DEF Solicitar, Ir
  <2>3. Bien
    BY <1>1, <1>4, <1>12, <2>1, <2>2, PasoAvance
  <2> QED BY <1>5, <2>1, <2>2, <2>3 DEF Efecto, Ajeno, Transicion, SinCambio, Envio
<1>23. CASE RecibirRespuesta(r)
  <2>1. intento[r].fase = "arca_iniciada"
    BY <1>1, <1>23 DEF RecibirRespuesta, En, Avance
  <2>2. UNCHANGED <<intento, arca>>
    BY <1>23 DEF RecibirRespuesta
  <2>3. \/ arca[r] = "A" /\ Devolver(r, "autorizado", Resp("exito", sol[r].num))
        \/ arca[r] = "R" /\ Devolver(r, "rechazado", Resp("fallido", sol[r].num))
        \/ /\ arca[r] = "10005"
           /\ Devolver(r, "rechazo_global", Resp("rechazo_global", sol[r].num))
    BY <1>23 DEF RecibirRespuesta
  <2>4. Bien
    BY <1>1, <1>6, <1>7, <1>8, <2>1, <2>2, <2>3, DevolverAvance
  <2> QED BY <1>5, <1>14, <2>2, <2>4 DEF Transicion, SinCambio
<1>24. CASE SinResultado(r)
  <2>1. intento[r].fase = "arca_iniciada"
    BY <1>1, <1>24 DEF SinResultado, En, Avance
  <2>2. UNCHANGED <<intento, arca>>
    BY <1>24 DEF SinResultado
  <2>3. \/ Devolver(r, "reconciliacion", Resp("reconciliacion", sol[r].num))
        \/ sol' = [sol EXCEPT ![r].pc = "fin", ![r].resp = Resp("post_arca", 0)]
        \/ Terminar(r, Resp("post_arca", 0))
    BY <1>24 DEF SinResultado, Inmovilizar
  <2>4. ASSUME sol' = [sol EXCEPT ![r].pc = "fin", ![r].resp = Resp("post_arca", 0)]
        PROVE  Bien
    <3>1. sol'[r].pc = "fin" /\ sol'[r].pend = "nada"
          /\ \A i \in Solicitudes \ {r} : sol'[i] = sol[i]
      BY <1>3, <1>4, <2>4 DEF EstadosSolicitud
    <3> QED BY <3>1 DEF Avance, PasosSinReserva
  <2>5. Bien
    BY <1>1, <1>6, <1>7, <1>8, <2>1, <2>2, <2>3, <2>4, DevolverAvance, TerminarAvance
  <2> QED BY <1>5, <1>14, <2>2, <2>5 DEF Transicion, SinCambio
<1> QED BY <1>15, <1>16, <1>17, <1>18, <1>19, <1>20, <1>21, <1>22, <1>23, <1>24 DEF Emitir

\* Publication and recovery: the attempt is closed, or awaits reconciliation.
LEMMA EfectoCerrar ==
    ASSUME Inductivo, NEW r \in Solicitudes, Cerrar(r) PROVE Efecto(r)
<1> USE DEF db, fisco, memoria, cotas
<1>1. TypeOK /\ Avance(r) /\ CierreSinArca
  BY DEF Inductivo, AvanceCoherente
<1>2. TypeOK'
  BY <1>1, CerrarTipo
<1>3. /\ sol \in [Solicitudes -> EstadosSolicitud]
      /\ intento \in [Solicitudes -> Intentos]
      /\ op \in [Claves -> Operaciones]
      /\ K(r) \in Claves
  BY <1>1, ClaveTipo DEF TypeOK
<1>4. UNCHANGED <<rece, ultimo, arca>>
  BY DEF Cerrar, Publicar, PublicarInesperada, Recuperar
<1> DEFINE Bien == (\A i \in Solicitudes \ {r} : sol'[i] = sol[i]) /\ Avance(r)'
           OtrosIgual == \A i \in Solicitudes \ {r} : intento'[i] = intento[i]
<1>5. ASSUME NEW resp, Terminar(r, resp) PROVE Bien
  BY <1>1, <1>5, TerminarAvance
<1>6. ASSUME Deshacer(r) PROVE Bien
  <2>1. CASE Iniciada(r)
    BY <1>5, <1>6, <2>1 DEF Deshacer
  <2>2. CASE ~Iniciada(r)
    <3>1. sol' = [sol EXCEPT ![r].pc = "recuperar", ![r].pend = "nada"]
      BY <1>6, <2>2 DEF Deshacer
    <3>2. sol'[r].pc = "recuperar" /\ sol'[r].pend = "nada"
          /\ \A i \in Solicitudes \ {r} : sol'[i] = sol[i]
      BY <1>3, <3>1 DEF EstadosSolicitud
    <3> QED BY <3>2 DEF Avance, PasosSinReserva
  <2> QED BY <2>1, <2>2
<1>7. ASSUME Bien, Transicion(r), OperacionTerminalFija, OtrosIgual PROVE Efecto(r)
  BY <1>4, <1>7 DEF Efecto, Ajeno, Envio
<1>8. ASSUME op' = op PROVE OperacionTerminalFija
  BY <1>8 DEF OperacionTerminalFija
<1>9. ASSUME op[K(r)].estado \notin EstadosTerminales,
             \A c \in Claves \ {K(r)} : op'[c] = op[c]
      PROVE  OperacionTerminalFija
  BY <1>1, <1>2, <1>3, <1>9, OpCambiada DEF TypeOK
<1>10. {"en_proceso", "requiere_reconciliacion", "interrumpida_pre_arca"}
          \cap EstadosTerminales = {}
  BY DEF EstadosTerminales
<1>11. CASE Publicar(r)
  <2>1. Bien
    <3>1. ASSUME PerderPublicacion(r) PROVE Bien
      BY <1>5, <1>6, <3>1 DEF PerderPublicacion
    <3> QED BY <1>5, <1>6, <1>11, <3>1 DEF Publicar
  <2>2. CASE UNCHANGED <<op, intento, comprobantes>>
    BY <1>7, <1>8, <2>1, <2>2 DEF Transicion, SinCambio
  <2>3. CASE Publicable(r) /\ Publicado(r)
    <3>1. OperacionTerminalFija
      <4>1. op[K(r)].estado \in {"en_proceso", "requiere_reconciliacion"}
        BY <2>3 DEF Publicable
      <4>2. \A c \in Claves \ {K(r)} : op'[c] = op[c]
        BY <1>3, <2>3 DEF Publicado
      <4> QED BY <1>9, <1>10, <4>1, <4>2
    <3>2. intento' = IntentoPublicado(r)
          /\ comprobantes' = IF sol[r].pend = "autorizado" THEN comprobantes \cup {r}
                                                           ELSE comprobantes
      BY <2>3 DEF Publicado
    <3>3. op'[K(r)].estado = EstadoDesde(sol[r].resp.clase)
      BY <1>3, <2>3 DEF Publicado, Operaciones
    <3>4. OtrosIgual
      BY <1>3, <3>2 DEF IntentoPublicado, CerrarGuarda
    <3>5. sol[r].pend \in Pendientes
      BY <1>3 DEF EstadosSolicitud
    <3>6. CASE sol[r].pend = "nada"
      <4>1. SinCambio(r)
        BY <3>2, <3>6 DEF SinCambio, IntentoPublicado
      <4> QED BY <1>7, <2>1, <3>1, <3>4, <4>1 DEF Transicion
    <3>7. CASE sol[r].pend = "autorizado"
      <4>1. /\ intento[r].fase = "arca_iniciada" /\ arca[r] = "A"
            /\ sol[r].resp.clase = "exito"
        BY <1>1, <3>7 DEF Avance
      <4>2. op'[K(r)].estado = "finalizado"
        BY <3>3, <4>1 DEF EstadoDesde
      <4>3. intento' = CerrarGuarda(r, "autorizado", "cerrada_terminal")
        BY <3>2, <3>7 DEF IntentoPublicado
      <4>4. Autorizacion(r)
        BY <1>3, <3>2, <3>7, <4>1, <4>2, <4>3
        DEF Autorizacion, CerrarGuarda, EstadosTerminales
      <4> QED BY <1>7, <2>1, <3>1, <3>4, <4>4 DEF Transicion
    <3>8. CASE sol[r].pend \in {"rechazado", "rechazo_global"}
      <4>1. /\ intento[r].fase = "arca_iniciada" /\ arca[r] \in {"R", "10005"}
            /\ sol[r].resp.clase \in {"fallido", "rechazo_global"}
        BY <1>1, <3>8 DEF Avance
      <4>2. op'[K(r)].estado \in {"fallido", "rechazado_arca"}
        BY <3>3, <4>1 DEF EstadoDesde
      <4>3. intento' = CerrarGuarda(r, "rechazado_arca", "cerrada_terminal")
        BY <3>2, <3>8 DEF IntentoPublicado
      <4>4. Rechazo(r)
        BY <1>3, <3>2, <3>8, <4>1, <4>2, <4>3
        DEF Rechazo, CerrarGuarda, EstadosTerminales
      <4> QED BY <1>7, <2>1, <3>1, <3>4, <4>4 DEF Transicion
    <3>9. CASE sol[r].pend = "reconciliacion"
      <4>1. intento[r].fase = "arca_iniciada"
        BY <1>1, <3>9 DEF Avance
      <4>2. intento' = CerrarGuarda(r, "requiere_reconciliacion", "requiere_reconciliacion")
        BY <3>2, <3>9 DEF IntentoPublicado
      <4>3. "requiere_reconciliacion" \in EstadosIntento \ {"inexistente"}
        BY DEF EstadosIntento
      <4>4. Incertidumbre(r)
        BY <1>3, <3>2, <3>9, <4>1, <4>2, <4>3 DEF Incertidumbre, CerrarGuarda
      <4> QED BY <1>7, <2>1, <3>1, <3>4, <4>4 DEF Transicion
    <3>10. CASE sol[r].pend = "cerrada_pre_arca"
      <4>1. intento[r].fase = "pre_arca"
        BY <1>1, <3>10 DEF Avance
      <4>2. intento' = CerrarGuarda(r, "fallido_verificado", "cerrada_pre_arca")
        BY <3>2, <3>10 DEF IntentoPublicado
      <4>3. CierreLocal(r)
        BY <1>3, <3>2, <3>10, <4>1, <4>2 DEF CierreLocal, CerrarGuarda
      <4> QED BY <1>7, <2>1, <3>1, <3>4, <4>3 DEF Transicion
    <3> QED BY <3>5, <3>6, <3>7, <3>8, <3>9, <3>10 DEF Pendientes
  <2> QED BY <1>11, <2>2, <2>3 DEF Publicar
<1>12. CASE PublicarInesperada(r)
  <2>1. Bien
    BY <1>5, <1>12 DEF PublicarInesperada
  <2>2. OperacionTerminalFija
    <3>1. op' = op \/ op[K(r)].estado \in {"en_proceso", "requiere_reconciliacion"}
      BY <1>12 DEF PublicarInesperada
    <3>2. \A c \in Claves \ {K(r)} : op'[c] = op[c]
      BY <1>3, <1>12 DEF PublicarInesperada
    <3> QED BY <1>8, <1>9, <1>10, <3>1, <3>2
  <2>3. UNCHANGED <<intento, comprobantes>>
    BY <1>12 DEF PublicarInesperada
  <2> QED BY <1>7, <2>1, <2>2, <2>3 DEF Transicion, SinCambio
<1>13. CASE Recuperar(r)
  <2>1. comprobantes' = comprobantes
    BY <1>13 DEF Recuperar
  <2>2. Bien
    BY <1>5, <1>13
    DEF Recuperar, InicioAmbiguo, CierreProbado, SinReserva, NoRecuperable
  <2>3. CASE InicioAmbiguo(r)
    <3>1. OperacionTerminalFija
      BY <1>3, <2>3 DEF InicioAmbiguo, OperacionTerminalFija, Operaciones, EstadosTerminales
    <3>2. OtrosIgual
      BY <1>3, <2>3 DEF InicioAmbiguo
    <3>3. Incertidumbre(r)
      <4>1. intento[r].fase \in {"arca_iniciada", "requiere_reconciliacion"}
        BY <2>3 DEF InicioAmbiguo
      <4> DEFINE e == IF intento[r].estado = "en_proceso" THEN "requiere_reconciliacion"
                                                         ELSE intento[r].estado
      <4>2. e \in EstadosIntento \ {"inexistente"}
        BY <1>3, <2>3 DEF InicioAmbiguo, GuardaRecuperable, Existe, Intentos, EstadosIntento
      <4>3. intento'[r] = [intento[r] EXCEPT !.estado = e, !.fase = "requiere_reconciliacion"]
        BY <1>3, <2>3 DEF InicioAmbiguo, Intentos
      <4> HIDE DEF e
      <4> QED BY <2>1, <4>1, <4>2, <4>3 DEF Incertidumbre
    <3> QED BY <1>7, <2>2, <3>1, <3>2, <3>3 DEF Transicion
  <2>4. CASE CierreProbado(r)
    <3>1. OperacionTerminalFija
      <4>1. op[K(r)].estado \in
               {"en_proceso", "requiere_reconciliacion", "interrumpida_pre_arca"}
        BY <2>4 DEF CierreProbado, Cerrable, DestinoRecuperado
      <4>2. \A c \in Claves \ {K(r)} : op'[c] = op[c]
        BY <1>3, <2>4 DEF CierreProbado
      <4> QED BY <1>9, <1>10, <4>1, <4>2
    <3>2. OtrosIgual
      BY <1>3, <2>4 DEF CierreProbado, CerrarGuarda
    <3>3. CierreLocal(r)
      BY <1>3, <2>1, <2>4 DEF CierreProbado, Cerrable, CierreLocal, CerrarGuarda
    <3> QED BY <1>7, <2>2, <3>1, <3>2, <3>3 DEF Transicion
  <2>5. CASE SinReserva(r)
    <3>1. OperacionTerminalFija
      <4>1. op[K(r)].estado \notin EstadosTerminales
        BY <2>5 DEF SinReserva, EstadosTerminales
      <4>2. \A c \in Claves \ {K(r)} : op'[c] = op[c]
        BY <1>3, <2>5 DEF SinReserva
      <4> QED BY <1>9, <4>1, <4>2
    <3>2. intento' = intento
      BY <2>5 DEF SinReserva
    <3> QED BY <1>7, <2>1, <2>2, <3>1, <3>2 DEF Transicion, SinCambio
  <2>6. CASE UNCHANGED <<op, intento>>
    BY <1>7, <1>8, <2>1, <2>2, <2>6 DEF Transicion, SinCambio
  <2> QED BY <1>13, <2>3, <2>4, <2>5, <2>6 DEF Recuperar, NoRecuperable
<1> QED BY <1>11, <1>12, <1>13 DEF Cerrar

LEMMA EfectoPaso ==
    ASSUME Inductivo, NEW r \in Solicitudes, Paso(r) PROVE Efecto(r)
BY EfectoResolver, EfectoEmitir, EfectoCerrar DEF Paso

----------------------------------------------------------------------------
(* Those effects preserve the invariant.                                    *)

LEMMA EfectoConserva ==
    ASSUME Inductivo, TypeOK', NEW r \in Solicitudes, Efecto(r)
    PROVE  Inductivo'
<1>1. /\ TypeOK /\ AvanceCoherente /\ GuardaUnica /\ RevisionCongelada
      /\ EnvioCruza /\ CruceUnico /\ CierreConRespuesta /\ CierreSinArca
      /\ ComprobanteAutorizado /\ TipoDelIntento /\ NumeracionFiel
  BY DEF Inductivo
<1>2. /\ \A i \in Solicitudes \ {r} : sol'[i] = sol[i] /\ intento'[i] = intento[i]
      /\ rece' = rece /\ ultimo' = ultimo
      /\ OperacionTerminalFija /\ Transicion(r) /\ Envio(r) /\ Avance(r)'
  BY DEF Efecto, Ajeno
<1>3. /\ intento \in [Solicitudes -> Intentos] /\ intento' \in [Solicitudes -> Intentos]
      /\ arca \in [Solicitudes -> Destinos]
      /\ comprobantes \subseteq Solicitudes
  BY <1>1 DEF TypeOK
<1>4. \A i \in Solicitudes \ {r} : arca'[i] = arca[i] /\ (i \in comprobantes' <=> i \in comprobantes)
  BY <1>2, <1>3
  DEF Envio, Transicion, SinCambio, Reserva, Cruce, CierreLocal, Autorizacion, Rechazo,
      Incertidumbre
<1> DEFINE f == intento[r].fase
           g == intento'[r].fase
\* The seven transitions, phase by phase
<1>5. /\ \/ g = f
         \/ f = "ninguna" /\ g = "pre_arca" /\ \A i \in Solicitudes : ~Activa(i)
         \/ f = "pre_arca" /\ g = "arca_iniciada" /\ op[K(r)].estado = "en_proceso"
         \/ f = "pre_arca" /\ g = "cerrada_pre_arca"
         \/ f = "arca_iniciada" /\ g = "cerrada_terminal"
         \/ f = "arca_iniciada" /\ g = "requiere_reconciliacion"
      /\ f # "ninguna" => intento'[r].rev = intento[r].rev
                         /\ intento'[r].tipo = intento[r].tipo
                         /\ intento'[r].num = intento[r].num
  <2>1. intento[r] \in Intentos
    BY <1>3
  <2>2. CASE SinCambio(r)
    BY <2>2 DEF SinCambio
  <2>3. CASE Reserva(r)
    BY <2>3 DEF Reserva
  <2>4. CASE Cruce(r)
    BY <2>1, <2>4 DEF Cruce, Intentos
  <2>5. CASE CierreLocal(r)
    BY <2>1, <2>5 DEF CierreLocal, Intentos
  <2>6. CASE Autorizacion(r)
    BY <2>1, <2>6 DEF Autorizacion, Intentos
  <2>7. CASE Rechazo(r)
    BY <2>1, <2>7 DEF Rechazo, Intentos
  <2>8. CASE Incertidumbre(r)
    BY <2>1, <2>8 DEF Incertidumbre, Intentos
  <2> QED BY <1>2, <2>2, <2>3, <2>4, <2>5, <2>6, <2>7, <2>8 DEF Transicion
<1>6. arca'[r] = arca[r] \/ (arca'[r] = "en_vuelo" /\ f = "arca_iniciada" /\ g = f)
  BY <1>2, <1>3 DEF Envio
<1>7. AvanceCoherente'
  <2>1. ASSUME NEW i \in Solicitudes \ {r} PROVE Avance(i)'
    <3>1. Avance(i)
      BY <1>1 DEF AvanceCoherente
    <3> QED BY <1>2, <1>4, <3>1 DEF Avance, Enviada
  <2> QED BY <1>2, <2>1 DEF AvanceCoherente
<1>8. GuardaUnica'
  BY <1>1, <1>2, <1>5 DEF GuardaUnica, Activa, FasesActivas
<1>9. RevisionCongelada'
  <2>1. f = "ninguna" /\ g = "pre_arca" => intento'[r].rev = rece.rev
    BY <1>2, <1>3
    DEF Transicion, SinCambio, Reserva, Cruce, CierreLocal, Autorizacion, Rechazo,
        Incertidumbre, Intentos
  <2> QED BY <1>1, <1>2, <1>5, <2>1 DEF RevisionCongelada, Activa, FasesActivas
<1>10. EnvioCruza'
  BY <1>1, <1>2, <1>4, <1>5, <1>6 DEF EnvioCruza, Enviada, Cruzada
<1>11. CruceUnico'
  \* A guard crosses while its operation is en_proceso: no other of the key did
  <2>1. ASSUME NEW j \in Solicitudes \ {r}, Cruzada(j), K(j) = K(r),
               f = "pre_arca", op[K(r)].estado = "en_proceso"
        PROVE  FALSE
    <3>1. ~Activa(j)
      BY <1>1, <2>1 DEF GuardaUnica, Activa, FasesActivas
    <3>2. intento[j].fase = "cerrada_terminal"
      BY <2>1, <3>1 DEF Cruzada, Activa, FasesActivas
    <3> QED BY <1>1, <2>1, <3>2 DEF CierreConRespuesta, EstadosTerminales
  <2>2. Cruzada(r)' => Cruzada(r) \/ (f = "pre_arca" /\ op[K(r)].estado = "en_proceso")
    BY <1>5 DEF Cruzada
  <2>3. \A j \in Solicitudes \ {r} : Cruzada(j)' <=> Cruzada(j)
    BY <1>2 DEF Cruzada
  <2> QED BY <1>1, <2>1, <2>2, <2>3 DEF CruceUnico
<1>12. CierreConRespuesta'
  <2>1. ASSUME NEW i \in Solicitudes \ {r}, intento'[i].fase = "cerrada_terminal"
        PROVE  /\ op'[K(i)].estado \in EstadosTerminales
               /\ \/ /\ intento'[i].estado = "autorizado"
                     /\ i \in comprobantes' /\ arca'[i] = "A"
                  \/ intento'[i].estado = "rechazado_arca" /\ arca'[i] \in {"R", "10005"}
    BY <1>1, <1>2, <1>4, <2>1, ClaveTipo DEF CierreConRespuesta, OperacionTerminalFija
  <2>2. ASSUME g = "cerrada_terminal"
        PROVE  /\ op'[K(r)].estado \in EstadosTerminales
               /\ \/ /\ intento'[r].estado = "autorizado"
                     /\ r \in comprobantes' /\ arca'[r] = "A"
                  \/ intento'[r].estado = "rechazado_arca" /\ arca'[r] \in {"R", "10005"}
    <3>1. arca'[r] = arca[r]
      BY <1>6, <2>2
    <3>2. CASE SinCambio(r)
      <4>1. intento'[r] = intento[r] /\ comprobantes' = comprobantes
        BY <3>2 DEF SinCambio
      <4> QED BY <1>1, <1>2, <2>2, <3>1, <4>1, ClaveTipo
              DEF CierreConRespuesta, OperacionTerminalFija
    <3>3. CASE Autorizacion(r)
      BY <1>3, <3>1, <3>3 DEF Autorizacion, Intentos
    <3>4. CASE Rechazo(r)
      BY <1>3, <3>1, <3>4 DEF Rechazo, Intentos
    <3>5. CASE Reserva(r) \/ Cruce(r) \/ CierreLocal(r) \/ Incertidumbre(r)
      BY <1>3, <2>2, <3>5 DEF Reserva, Cruce, CierreLocal, Incertidumbre, Intentos
    <3> QED BY <1>2, <3>2, <3>3, <3>4, <3>5 DEF Transicion
  <2> QED BY <2>1, <2>2 DEF CierreConRespuesta
<1>13. CierreSinArca'
  <2>1. g = "cerrada_pre_arca" => intento'[r].estado = "fallido_verificado"
    BY <1>1, <1>2, <1>3
    DEF CierreSinArca, Transicion, SinCambio, Reserva, Cruce, CierreLocal, Autorizacion,
        Rechazo, Incertidumbre, Intentos
  <2> QED BY <1>1, <1>2, <2>1 DEF CierreSinArca
<1>14. ComprobanteAutorizado'
  <2>1. ASSUME r \in comprobantes' PROVE arca'[r] = "A" /\ g = "cerrada_terminal"
    <3>1. CASE Autorizacion(r)
      BY <1>3, <1>6, <3>1 DEF Autorizacion, Intentos
    <3>2. CASE ~Autorizacion(r)
      <4>1. comprobantes' = comprobantes
        BY <1>2, <3>2
        DEF Transicion, SinCambio, Reserva, Cruce, CierreLocal, Rechazo, Incertidumbre
      <4>2. arca[r] = "A" /\ f = "cerrada_terminal"
        BY <1>1, <2>1, <4>1 DEF ComprobanteAutorizado
      <4> QED BY <1>5, <1>6, <4>2
    <3> QED BY <3>1, <3>2
  <2>2. ASSUME NEW i \in Solicitudes \ {r}, i \in comprobantes'
        PROVE  arca'[i] = "A" /\ intento'[i].fase = "cerrada_terminal"
    BY <1>1, <1>2, <1>4, <2>2 DEF ComprobanteAutorizado
  <2>3. comprobantes' \subseteq Solicitudes
    BY DEF TypeOK
  <2> QED BY <2>1, <2>2, <2>3 DEF ComprobanteAutorizado
<1>15. TipoDelIntento'
  <2>1. f = "ninguna" /\ g # "ninguna" => intento'[r].tipo = T(r)
    BY <1>2, <1>3
    DEF Transicion, SinCambio, Reserva, Cruce, CierreLocal, Autorizacion, Rechazo,
        Incertidumbre, Intentos
  <2> QED BY <1>1, <1>2, <1>5, <2>1 DEF TipoDelIntento
<1>16. NumeracionFiel'
  <2>1. \A i \in Solicitudes : arca'[i] = "A" =>
           arca[i] = "A" /\ intento'[i].num = intento[i].num
    <3>1. arca[r] = "A" => f # "ninguna"
      BY <1>1 DEF EnvioCruza, Enviada, Cruzada
    <3> QED BY <1>2, <1>4, <1>5, <1>6, <3>1
  <2> QED BY <1>1, <1>2, <2>1 DEF NumeracionFiel
<1> QED BY <1>7, <1>8, <1>9, <1>10, <1>11, <1>12, <1>13, <1>14, <1>15, <1>16 DEF Inductivo

\* The environment: what it changes, it changes for guards that allow it.
LEMMA EntornoConserva ==
    ASSUME Inductivo, Entorno PROVE Inductivo'
<1> USE DEF db, fisco, memoria, cotas
<1>1. /\ TypeOK /\ AvanceCoherente /\ GuardaUnica /\ RevisionCongelada
      /\ EnvioCruza /\ CruceUnico /\ CierreConRespuesta /\ CierreSinArca
      /\ ComprobanteAutorizado /\ TipoDelIntento /\ NumeracionFiel
  BY DEF Inductivo
<1>2. TypeOK'
  BY <1>1, EntornoTipo
<1>3. /\ sol \in [Solicitudes -> EstadosSolicitud]
      /\ intento \in [Solicitudes -> Intentos] /\ arca \in [Solicitudes -> Destinos]
      /\ ultimo \in [Tipos -> Nat] /\ op \in [Claves -> Operaciones]
  BY <1>1 DEF TypeOK
<1>4. CASE \E r \in Solicitudes : ProcesarArca(r)
  <2> PICK r \in Solicitudes : ProcesarArca(r)
    BY <1>4
  <2>1. UNCHANGED <<op, intento, comprobantes, rece, sol>>
    BY DEF ProcesarArca
  <2>2. /\ arca[r] = "en_vuelo" /\ arca'[r] \in {"A", "R", "10005"}
        /\ \A i \in Solicitudes \ {r} : arca'[i] = arca[i]
    BY <1>3 DEF ProcesarArca
  <2>3. AvanceCoherente'
    <3>1. ASSUME NEW i \in Solicitudes PROVE Avance(i)'
      <4>1. Avance(i)
        BY <1>1 DEF AvanceCoherente
      <4>2. CASE i # r
        BY <2>1, <2>2, <4>1, <4>2 DEF Avance, Enviada
      <4>3. CASE i = r
        BY <2>1, <2>2, <4>1, <4>3 DEF Avance, Enviada
      <4> QED BY <4>2, <4>3
    <3> QED BY <3>1 DEF AvanceCoherente
  <2>4. /\ GuardaUnica' /\ RevisionCongelada' /\ CruceUnico' /\ CierreSinArca'
        /\ TipoDelIntento'
    BY <1>1, <2>1 DEF GuardaUnica, RevisionCongelada, CruceUnico, CierreSinArca,
       TipoDelIntento, Activa, Cruzada
  <2>5. EnvioCruza'
    BY <1>1, <2>1, <2>2 DEF EnvioCruza, Enviada, Cruzada
  <2>6. CierreConRespuesta'
    BY <1>1, <2>1, <2>2 DEF CierreConRespuesta
  <2>7. ComprobanteAutorizado'
    BY <1>1, <1>2, <2>1, <2>2 DEF ComprobanteAutorizado, TypeOK
  <2>8. NumeracionFiel'
    <3>1. CASE arca' = [arca EXCEPT ![r] = "A"] /\ intento[r].num = ultimo[T(r)] + 1
               /\ ultimo' = [ultimo EXCEPT ![T(r)] = @ + 1]
      <4>1. /\ T(r) \in Tipos /\ intento[r].num \in Nat
            /\ \A i \in Solicitudes : T(i) \in Tipos /\ intento[i].num \in Nat
        BY <1>3, ClaveTipo DEF Intentos
      <4>2. ultimo'[T(r)] = ultimo[T(r)] + 1
            /\ \A t \in Tipos \ {T(r)} : ultimo'[t] = ultimo[t]
        BY <1>3, <3>1, <4>1
      <4>3. \A i \in Solicitudes : arca'[i] = "A" => i = r \/ arca[i] = "A"
        BY <2>2
      <4>4. \A i \in Solicitudes : arca[i] = "A" =>
               intento[i].num <= ultimo[T(i)]
               /\ (T(i) = T(r) => intento[i].num # intento[r].num)
        BY <1>1, <1>3, <3>1, <4>1 DEF NumeracionFiel
      <4>5. \A i \in Solicitudes : arca'[i] = "A" => intento[i].num <= ultimo'[T(i)]
        BY <1>3, <3>1, <4>1, <4>2, <4>3, <4>4
      <4>6. ASSUME NEW i \in Solicitudes, NEW j \in Solicitudes,
                   arca'[i] = "A", arca'[j] = "A", T(j) = T(i),
                   intento[j].num = intento[i].num
            PROVE  i = j
        BY <1>1, <4>3, <4>4, <4>6 DEF NumeracionFiel
      <4> QED BY <2>1, <4>5, <4>6 DEF NumeracionFiel
    <3>2. CASE arca'[r] # "A" /\ ultimo' = ultimo
      BY <1>1, <2>1, <2>2, <3>2 DEF NumeracionFiel
    <3>3. arca' = [arca EXCEPT ![r] = "R"] \/ arca' = [arca EXCEPT ![r] = "10005"] =>
             arca'[r] # "A"
      BY <1>3
    <3> QED BY <3>1, <3>2, <3>3 DEF ProcesarArca
  <2> QED BY <1>2, <2>3, <2>4, <2>5, <2>6, <2>7, <2>8 DEF Inductivo
<1>5. CASE \E t \in Tipos : EmisorExterno(t)
  <2> PICK t \in Tipos : EmisorExterno(t)
    BY <1>5
  <2>1. UNCHANGED <<op, intento, comprobantes, rece, sol, arca>>
    BY DEF EmisorExterno
  <2>2. NumeracionFiel'
    <3>1. ASSUME NEW i \in Solicitudes PROVE ultimo[T(i)] <= ultimo'[T(i)]
      BY <1>3, ClaveTipo DEF EmisorExterno
    <3>2. \A i \in Solicitudes :
             intento[i].num \in Nat /\ ultimo[T(i)] \in Nat /\ ultimo'[T(i)] \in Nat
      BY <1>2, <1>3, ClaveTipo DEF Intentos, TypeOK
    <3> QED BY <1>1, <2>1, <3>1, <3>2 DEF NumeracionFiel
  <2>3. /\ AvanceCoherente' /\ GuardaUnica' /\ RevisionCongelada' /\ CruceUnico'
        /\ CierreSinArca' /\ TipoDelIntento' /\ EnvioCruza' /\ CierreConRespuesta'
        /\ ComprobanteAutorizado'
    BY <1>1, <2>1
    DEF AvanceCoherente, Avance, GuardaUnica, RevisionCongelada, CruceUnico, CierreSinArca,
        TipoDelIntento, EnvioCruza, CierreConRespuesta, ComprobanteAutorizado, Activa,
        Cruzada, Enviada
  <2> QED BY <1>2, <2>2, <2>3 DEF Inductivo
<1>6. CASE \E k \in Claves : Envejecer(k)
  <2> PICK k \in Claves : Envejecer(k)
    BY <1>6
  <2>1. UNCHANGED <<intento, comprobantes, rece, sol, arca, ultimo>>
    BY DEF Envejecer
  <2>2. \A c \in Claves : op'[c].estado = op[c].estado
    BY <1>3 DEF Envejecer, Operaciones
  <2>3. CierreConRespuesta'
    BY <1>1, <2>1, <2>2, ClaveTipo DEF CierreConRespuesta
  <2>4. /\ AvanceCoherente' /\ GuardaUnica' /\ RevisionCongelada' /\ CruceUnico'
        /\ CierreSinArca' /\ TipoDelIntento' /\ EnvioCruza' /\ ComprobanteAutorizado'
        /\ NumeracionFiel'
    BY <1>1, <2>1
    DEF AvanceCoherente, Avance, GuardaUnica, RevisionCongelada, CruceUnico, CierreSinArca,
        TipoDelIntento, EnvioCruza, NumeracionFiel, ComprobanteAutorizado, Activa,
        Cruzada, Enviada
  <2> QED BY <1>2, <2>3, <2>4 DEF Inductivo
<1>7. CASE CambiarPunto \/ VencerEvidencia
  <2>1. UNCHANGED <<op, intento, comprobantes, sol, arca, ultimo>>
    BY <1>7 DEF CambiarPunto, VencerEvidencia
  <2>2. RevisionCongelada'
    <3>1. CASE CambiarPunto
      BY <2>1, <3>1 DEF CambiarPunto, RevisionCongelada, Activa
    <3>2. CASE VencerEvidencia
      <4>1. rece'.rev = rece.rev
        BY <1>1, <3>2 DEF VencerEvidencia, TypeOK
      <4> QED BY <1>1, <2>1, <4>1 DEF RevisionCongelada, Activa
    <3> QED BY <1>7, <3>1, <3>2
  <2>3. /\ AvanceCoherente' /\ GuardaUnica' /\ CruceUnico'
        /\ CierreSinArca' /\ TipoDelIntento' /\ EnvioCruza' /\ CierreConRespuesta'
        /\ ComprobanteAutorizado' /\ NumeracionFiel'
    BY <1>1, <2>1
    DEF AvanceCoherente, Avance, GuardaUnica, CruceUnico, CierreSinArca, TipoDelIntento,
        EnvioCruza, CierreConRespuesta, NumeracionFiel, ComprobanteAutorizado, Activa,
        Cruzada, Enviada
  <2> QED BY <1>2, <2>2, <2>3 DEF Inductivo
<1>8. CASE Reiniciar
  <2>1. UNCHANGED <<op, intento, comprobantes, rece, arca, ultimo>>
    BY <1>8 DEF Reiniciar
  <2>2. ASSUME NEW i \in Solicitudes PROVE Avance(i)'
    <3>1. Avance(i)
      BY <1>1 DEF AvanceCoherente
    <3>2. CASE sol'[i] = sol[i]
      BY <2>1, <3>1, <3>2 DEF Avance, Enviada
    <3>3. CASE sol'[i] # sol[i]
      <4>1. sol'[i] = [sol[i] EXCEPT !.pc = "fin", !.pend = "nada",
                                     !.resp = Resp("cortada", 0)]
        BY <1>8, <3>3 DEF Reiniciar
      <4>2. sol'[i].pc = "fin" /\ sol'[i].pend = "nada"
        BY <1>3, <4>1 DEF EstadosSolicitud
      <4> QED BY <4>2 DEF Avance, PasosSinReserva
    <3> QED BY <3>2, <3>3
  <2>3. /\ GuardaUnica' /\ RevisionCongelada' /\ CruceUnico'
        /\ CierreSinArca' /\ TipoDelIntento' /\ EnvioCruza' /\ CierreConRespuesta'
        /\ ComprobanteAutorizado' /\ NumeracionFiel'
    BY <1>1, <2>1
    DEF GuardaUnica, RevisionCongelada, CruceUnico, CierreSinArca, TipoDelIntento,
        EnvioCruza, CierreConRespuesta, NumeracionFiel, ComprobanteAutorizado, Activa,
        Cruzada, Enviada
  <2> QED BY <1>2, <2>2, <2>3 DEF Inductivo, AvanceCoherente
<1> QED BY <1>4, <1>5, <1>6, <1>7, <1>8 DEF Entorno

LEMMA InitInductivo == Init => Inductivo
<1> SUFFICES ASSUME Init PROVE Inductivo
  OBVIOUS
<1>1. \A r \in Solicitudes :
         /\ intento[r].fase = "ninguna" /\ arca[r] = "no_enviada"
         /\ sol[r].pc = "inicio" /\ sol[r].pend = "nada"
  BY DEF Init, SinIntento
<1>2. comprobantes = {}
  BY DEF Init
<1> QED BY <1>1, <1>2, InitTipo
    DEF Inductivo, AvanceCoherente, Avance, PasosSinReserva, GuardaUnica, RevisionCongelada,
        EnvioCruza, CruceUnico, CierreConRespuesta, CierreSinArca, ComprobanteAutorizado,
        TipoDelIntento, NumeracionFiel, Activa, FasesActivas, Cruzada, Enviada

LEMMA InductivoPaso == Inductivo /\ [Next]_vars => Inductivo'
<1> SUFFICES ASSUME Inductivo, [Next]_vars PROVE Inductivo'
  OBVIOUS
<1>1. CASE Entorno
  BY <1>1, EntornoConserva
<1>2. CASE \E r \in Solicitudes : Paso(r)
  <2>1. TypeOK'
    BY TipoInductivo DEF Inductivo
  <2> QED BY <1>2, <2>1, EfectoPaso, EfectoConserva
<1>3. CASE UNCHANGED vars
  BY <1>3
  DEF vars, Inductivo, TypeOK, AvanceCoherente, Avance, GuardaUnica, RevisionCongelada,
      EnvioCruza, CruceUnico, CierreConRespuesta, CierreSinArca, ComprobanteAutorizado,
      TipoDelIntento, NumeracionFiel, Activa, Cruzada, Enviada
<1> QED BY <1>1, <1>2, <1>3 DEF Next

\* The inductive invariant holds: guards, requests, ARCA and operations agree
\* in every state of the emission.
THEOREM InductivoSiempre == Spec => []Inductivo
BY InitInductivo, InductivoPaso, PTL DEF Spec

----------------------------------------------------------------------------
(* What it gives.                                                           *)

\* "Misma clave y mismo payload nunca llaman dos veces a FECAESolicitar": of
\* all the requests of a key, at most one reaches fe_cae_solicitar.
THEOREM EnvioUnico == Spec => []UnaSolicitudPorOperacion
<1>1. Inductivo => UnaSolicitudPorOperacion
  BY DEF Inductivo, EnvioCruza, CruceUnico, UnaSolicitudPorOperacion
<1> QED BY <1>1, InductivoSiempre, PTL

\* A CAE granted by ARCA is in a committed comprobante, or behind a guard that
\* keeps the point immobile, however publication, recovery and restarts go.
THEOREM CaeConservado == Spec => []CaeNuncaPerdido
<1>1. Inductivo => CaeNuncaPerdido
  BY DEF Inductivo, EnvioCruza, Enviada, Cruzada, CierreConRespuesta, CaeNuncaPerdido
<1> QED BY <1>1, InductivoSiempre, PTL

\* uq_guarda_rece_activa and aplicar_cambios_punto keep the point to a single
\* FECAESolicitar in flight, under the context it was checked against.
THEOREM VueloUnico == Spec => []VueloInmovilizaPunto
<1>1. ASSUME Inductivo PROVE VueloInmovilizaPunto
  <2>1. \A i \in Solicitudes : arca[i] = "en_vuelo" => Activa(i)
    BY <1>1 DEF Inductivo, EnvioCruza, Enviada, Cruzada, CierreConRespuesta, Activa,
       FasesActivas
  <2> QED BY <1>1, <2>1 DEF Inductivo, GuardaUnica, RevisionCongelada, VueloInmovilizaPunto
<1> QED BY <1>1, InductivoSiempre, PTL

\* Every committed comprobante was authorised by ARCA with its number, and no
\* other of its tipo has that number.
THEOREM HistoriaFiel == Spec => []HistoriaLocalFiel
<1>1. ASSUME Inductivo PROVE HistoriaLocalFiel
  <2>1. \A i \in comprobantes : i \in Solicitudes /\ arca[i] = "A" /\ intento[i].tipo = T(i)
    BY <1>1 DEF Inductivo, TypeOK, ComprobanteAutorizado, TipoDelIntento
  <2> QED BY <1>1, <2>1 DEF Inductivo, NumeracionFiel, HistoriaLocalFiel
<1> QED BY <1>1, InductivoSiempre, PTL

\* No step rewrites a terminal operation or a closed attempt, or drops a comprobante.
LEMMA TerminalPaso ==
    ASSUME Inductivo, Next
    PROVE  /\ OperacionTerminalFija
           /\ \A i \in Solicitudes :
                 intento[i].fase \in FasesCerradas => intento'[i] = intento[i]
           /\ comprobantes \subseteq comprobantes'
<1> USE DEF db, fisco, memoria, cotas
<1>1. CASE Entorno
  <2>1. intento' = intento /\ comprobantes' = comprobantes
    BY <1>1 DEF Entorno, ProcesarArca, EmisorExterno, Envejecer, CambiarPunto,
       VencerEvidencia, Reiniciar
  <2>2. op \in [Claves -> Operaciones]
    BY DEF Inductivo, TypeOK
  <2>3. CASE \E k \in Claves : Envejecer(k)
    <3>1. \A c \in Claves : op'[c].estado = op[c].estado /\ op'[c].resp = op[c].resp
      BY <2>2, <2>3 DEF Envejecer, Operaciones
    <3> QED BY <2>1, <3>1 DEF OperacionTerminalFija
  <2>4. CASE ~\E k \in Claves : Envejecer(k)
    <3>1. op' = op
      BY <1>1, <2>4 DEF Entorno, ProcesarArca, EmisorExterno, CambiarPunto,
         VencerEvidencia, Reiniciar
    <3> QED BY <2>1, <3>1 DEF OperacionTerminalFija
  <2> QED BY <2>3, <2>4
<1>2. CASE \E r \in Solicitudes : Paso(r)
  <2> PICK r \in Solicitudes : Paso(r)
    BY <1>2
  <2>1. Ajeno(r) /\ OperacionTerminalFija /\ Transicion(r)
    BY EfectoPaso DEF Efecto
  <2>2. intento[r] \in Intentos /\ CierreSinArca
    BY DEF Inductivo, TypeOK
  <2>3. comprobantes \subseteq comprobantes'
    BY <2>1 DEF Transicion, SinCambio, Reserva, Cruce, CierreLocal, Autorizacion,
       Rechazo, Incertidumbre
  <2>4. ASSUME intento[r].fase \in FasesCerradas PROVE intento'[r] = intento[r]
    <3>1. SinCambio(r) \/ CierreLocal(r)
      BY <2>1, <2>4 DEF Transicion, Reserva, Cruce, Autorizacion, Rechazo,
         Incertidumbre, FasesCerradas
    <3>2. CASE CierreLocal(r)
      <4>1. intento[r].fase = "cerrada_pre_arca"
        BY <2>4, <3>2 DEF CierreLocal, FasesCerradas
      <4>2. intento[r].estado = "fallido_verificado"
        BY <2>2, <4>1 DEF CierreSinArca
      <4> QED BY <2>2, <3>2, <4>1, <4>2, ZenonT(30) DEF CierreLocal, Intentos
    <3> QED BY <3>1, <3>2 DEF SinCambio
  <2> QED BY <2>1, <2>3, <2>4 DEF Ajeno
<1> QED BY <1>1, <1>2 DEF Next

\* Terminal rows are immutable: no late publication, recovery or confirmation
\* rewrites a terminal operation, reopens a closed guard or drops a comprobante.
THEOREM TerminalInmutable == Spec => TerminalEstable
<1>1. Inductivo /\ [Next]_vars =>
         [/\ \A k \in Claves : op[k].estado \in EstadosTerminales =>
                op'[k].estado = op[k].estado /\ op'[k].resp = op[k].resp
          /\ \A i \in Solicitudes :
                intento[i].fase \in FasesCerradas => intento'[i] = intento[i]
          /\ comprobantes \subseteq comprobantes']_vars
  BY TerminalPaso DEF OperacionTerminalFija
<1> QED BY <1>1, InductivoSiempre, PTL DEF Spec, TerminalEstable

----------------------------------------------------------------------------
(* What is seen of a request: its key, its payload and its response.        *)

\* A step of r takes its key, or keeps the payload of the key
OpLocal(r) ==
    /\ \A k \in Claves \ {K(r)} : op'[k] = op[k]
    /\ op[K(r)].estado # "inexistente" =>
          op'[K(r)].estado # "inexistente" /\ op'[K(r)].payload = op[K(r)].payload

----------------------------------------------------------------------------
(* Building blocks: where the operation and the request are left.           *)

LEMMA OpEstado ==
    ASSUME TypeOK, NEW r \in Solicitudes, NEW e, e # "inexistente",
           op' = [op EXCEPT ![K(r)].estado = e]
    PROVE  OpLocal(r)
BY ClaveTipo DEF OpLocal, TypeOK, Operaciones

LEMMA OpRespuesta ==
    ASSUME TypeOK, NEW r \in Solicitudes, NEW e, NEW x, e # "inexistente",
           op' = [op EXCEPT ![K(r)].estado = e, ![K(r)].resp = x]
    PROVE  /\ OpLocal(r)
           /\ op'[K(r)].estado = e /\ op'[K(r)].resp = x
           /\ op'[K(r)].payload = op[K(r)].payload
<1> DEFINE nueva == [op[K(r)] EXCEPT !.estado = e, !.resp = x]
<1>1. K(r) \in Claves /\ op \in [Claves -> Operaciones]
  BY ClaveTipo DEF TypeOK
<1>2. op[K(r)] \in Operaciones
  BY <1>1
<1>3. nueva.estado = e /\ nueva.resp = x /\ nueva.payload = op[K(r)].payload
  BY <1>2 DEF Operaciones
<1>4. op' = [op EXCEPT ![K(r)] = nueva]
  OBVIOUS
<1> HIDE DEF nueva
<1>5. op'[K(r)] = nueva /\ \A k \in Claves \ {K(r)} : op'[k] = op[k]
  BY <1>1, <1>4
<1>6. /\ op'[K(r)].estado = e /\ op'[K(r)].resp = x
      /\ op'[K(r)].payload = op[K(r)].payload
  BY <1>3, <1>5
<1> QED BY <1>5, <1>6 DEF OpLocal

LEMMA OpIgual ==
    ASSUME NEW r \in Solicitudes, op' = op
    PROVE  OpLocal(r)
BY DEF OpLocal

\* A key that is taken stays taken, with its payload.
LEMMA SuyaEstable ==
    ASSUME NEW r \in Solicitudes, NEW s \in Solicitudes, OpLocal(r), Suya(s)
    PROVE  Suya(s)'
BY ClaveTipo DEF OpLocal, Suya, K

LEMMA TerminarFija ==
    ASSUME TypeOK, NEW r \in Solicitudes, NEW x, Terminar(r, x)
    PROVE  sol'[r].pc = "fin" /\ sol'[r].resp = x
<1> DEFINE nuevo == [sol[r] EXCEPT !.pc = "fin", !.pend = "nada", !.resp = x]
<1>1. sol[r] \in EstadosSolicitud
  BY DEF TypeOK
<1>2. nuevo.pc = "fin" /\ nuevo.resp = x
  BY <1>1 DEF EstadosSolicitud
<1>3. sol' = [sol EXCEPT ![r] = nuevo]
  BY DEF Terminar
<1> HIDE DEF nuevo
<1> QED BY <1>2, <1>3 DEF TypeOK

LEMMA DevolverFija ==
    ASSUME TypeOK, NEW r \in Solicitudes, NEW p, NEW x, Devolver(r, p, x)
    PROVE  sol'[r].pc = "publicar" /\ sol'[r].pend = p /\ sol'[r].resp = x
<1> DEFINE nuevo == [sol[r] EXCEPT !.pc = "publicar", !.pend = p, !.resp = x]
<1>1. sol[r] \in EstadosSolicitud
  BY DEF TypeOK
<1>2. nuevo.pc = "publicar" /\ nuevo.pend = p /\ nuevo.resp = x
  BY <1>1 DEF EstadosSolicitud
<1>3. sol' = [sol EXCEPT ![r] = nuevo]
  BY DEF Devolver
<1> HIDE DEF nuevo
<1> QED BY <1>2, <1>3 DEF TypeOK

\* Steps that answer nothing and have reserved nothing yet, or gave it up.
PasosNeutros ==
    Pasos \ {"preflight", "marcar", "solicitar", "esperar", "candidata", "publicar", "fin"}

LEMMA LlegarRespuesta ==
    ASSUME NEW r \in Solicitudes, sol'[r].pc \in PasosNeutros,
           sol'[r].pc \in PasosConOperacion => Suya(r)'
    PROVE  Respuesta(r)'
BY DEF PasosNeutros, Respuesta

LEMMA IrRespuesta ==
    ASSUME TypeOK, NEW r \in Solicitudes, NEW pc \in PasosNeutros, Ir(r, pc),
           pc \in PasosConOperacion => Suya(r)'
    PROVE  Respuesta(r)'
<1>1. sol'[r].pc = pc
  BY DEF TypeOK, Ir, EstadosSolicitud
<1> QED BY <1>1, LlegarRespuesta

\* A conflict or an error binds nobody.
LEMMA TerminarSimple ==
    ASSUME TypeOK, NEW r \in Solicitudes, NEW x, x.clase \notin ClasesFirmes,
           Terminar(r, x)
    PROVE  Respuesta(r)'
<1>1. sol'[r].pc = "fin" /\ sol'[r].resp = x
  BY TerminarFija
<1> QED BY <1>1 DEF Respuesta, PasosConOperacion, ClasesFirmes

LEMMA DevolverRespuesta ==
    ASSUME TypeOK, NEW r \in Solicitudes, NEW p, NEW x, Devolver(r, p, x),
           x.clase \in ClasesDurables,
           x.clase = "exito" => p = "autorizado" /\ x.num = intento'[r].num,
           Suya(r)'
    PROVE  Respuesta(r)'
<1>1. sol'[r].pc = "publicar" /\ sol'[r].pend = p /\ sol'[r].resp = x
  BY DevolverFija
<1> QED BY <1>1 DEF Respuesta

\* The graph a firm replay was checked against is the key's own.
LEMMA ReplayFiel ==
    ASSUME InductivoCompleto, NEW r \in Solicitudes, NEW x, x = RespuestaReplay(K(r)),
           x.clase \in ClasesFirmes
    PROVE  /\ op[K(r)].resp = x /\ op[K(r)].estado = EstadoDesde(x.clase)
           /\ x.clase = "exito" =>
                 \E i \in comprobantes : K(i) = K(r) /\ intento[i].num = x.num
<1>1. ReplayValido(K(r), x) /\ x = op[K(r)].resp
  BY DEF RespuestaReplay, Resp, ClasesFirmes
<1>2. ASSUME x.clase = "exito"
      PROVE  \E i \in comprobantes : K(i) = K(r) /\ intento[i].num = x.num
  <2>1. GrafoTerminal(K(r), x)
    BY <1>1, <1>2 DEF ReplayValido, ReplaySinReserva
  <2>2. PICK i \in IntentosDe(K(r)) : ReplayConIntento(i, x)
    BY <2>1 DEF GrafoTerminal
  <2>3. i \in Solicitudes /\ Existe(i) /\ intento[i].op = K(r)
    BY DEF IntentosDe
  <2>4. K(i) = K(r)
    BY <2>3 DEF InductivoCompleto, IntentoPropio
  <2>5. i \in comprobantes /\ intento[i].num = x.num
    BY <1>2, <2>2 DEF ReplayConIntento
  <2> QED BY <2>4, <2>5
<1> QED BY <1>1, <1>2 DEF ReplayValido

LEMMA TerminarReplay ==
    ASSUME InductivoCompleto, NEW r \in Solicitudes, Suya(r),
           UNCHANGED <<op, intento, comprobantes>>,
           Terminar(r, RespuestaReplay(K(r)))
    PROVE  Respuesta(r)'
<1> DEFINE x == RespuestaReplay(K(r))
<1>1. sol'[r].pc = "fin" /\ sol'[r].resp = x
  BY TerminarFija DEF InductivoCompleto, Inductivo
<1>2. CASE x.clase \notin ClasesFirmes
  BY <1>1, <1>2 DEF Respuesta, PasosConOperacion, ClasesFirmes
<1>3. CASE x.clase \in ClasesFirmes
  <2>1. /\ op[K(r)].resp = x /\ op[K(r)].estado = EstadoDesde(x.clase)
        /\ x.clase = "exito" =>
              \E i \in comprobantes : K(i) = K(r) /\ intento[i].num = x.num
    BY <1>3, ReplayFiel
  <2> HIDE DEF x
  <2>2. Firme(r)'
    BY <1>1, <2>1 DEF Firme, Suya, K
  <2>3. x.clase = "exito" => Respaldada(r)'
    BY <1>1, <2>1 DEF Respaldada, K
  <2> QED BY <1>1, <2>2, <2>3 DEF Respuesta, PasosConOperacion
<1> QED BY <1>2, <1>3

LEMMA SeguirRespuesta ==
    ASSUME InductivoCompleto, NEW r \in Solicitudes, NEW f, Suya(r),
           UNCHANGED <<op, intento, comprobantes>>, Seguir(r, f)
    PROVE  Respuesta(r)'
<1>1. CASE Destino(r) = "fin"
  BY <1>1, TerminarReplay DEF Seguir
<1>2. CASE Destino(r) # "fin"
  <2>1. Destino(r) \in {"reclamar", "incompleta", "confirmar"}
    BY <1>2 DEF Destino
  <2>2. Destino(r) \in PasosNeutros
    BY <2>1 DEF PasosNeutros, Pasos
  <2>3. Suya(r)'
    BY DEF Suya, K
  <2> QED BY <1>2, <2>2, <2>3, IrRespuesta DEF Seguir, InductivoCompleto, Inductivo
<1> QED BY <1>1, <1>2

----------------------------------------------------------------------------
(* Every step of a request keeps its own answer founded.                    *)

\* Resolution of the key.
LEMMA RespuestaResolver ==
    ASSUME InductivoCompleto, NEW r \in Solicitudes, Resolver(r)
    PROVE  OpLocal(r) /\ Respuesta(r)'
<1> USE DEF db, fisco, memoria, cotas
<1>1. TypeOK /\ Respuesta(r)
  BY DEF InductivoCompleto, Inductivo, RespuestasFieles
<1>2. /\ K(r) \in Claves /\ op \in [Claves -> Operaciones]
      /\ sol \in [Solicitudes -> EstadosSolicitud]
  BY <1>1, ClaveTipo DEF TypeOK
<1>3. UNCHANGED <<intento, comprobantes>>
  BY DEF Resolver, LeerOperacion, CrearOperacion, NoCrearOperacion, RecuperarCreacion,
         Reclamar, Confirmar, ResolverIncompleta, PublicarCandidata
<1>4. \A c \in ClasesHttp : \A n : Resp(c, n).clase \notin ClasesFirmes
  BY DEF Resp, ClasesHttp, ClasesFirmes
<1>5. {"conflicto", "elegibilidad", "reintentable", "bloqueado", "error", "en_proceso",
       "no_recuperable"} \subseteq ClasesHttp
  BY DEF ClasesHttp
<1>6. ASSUME NEW c \in ClasesHttp, NEW n, Terminar(r, Resp(c, n)) PROVE Respuesta(r)'
  BY <1>1, <1>4, <1>6, TerminarSimple
<1>7. {"crear", "recuperar_creacion", "emitir"} \subseteq PasosNeutros
      /\ {"crear", "recuperar_creacion"} \cap PasosConOperacion = {}
  BY DEF PasosNeutros, PasosConOperacion, Pasos
<1>8. MismaOperacion(r) => Suya(r)
  BY DEF MismaOperacion, OtroPayload, Suya
<1>9. ASSUME op' = op PROVE OpLocal(r)
  BY <1>9, OpIgual
<1>10. ASSUME op' = op, NEW f, Seguir(r, f), Suya(r) PROVE Respuesta(r)'
  BY <1>3, <1>10, SeguirRespuesta
<1>11. CASE LeerOperacion(r)
  <2>1. op' = op
    BY <1>11 DEF LeerOperacion
  <2>2. \/ Ir(r, "crear")
        \/ \E c \in {"conflicto", "reintentable"} : Terminar(r, Resp(c, 0))
        \/ MismaOperacion(r) /\ \E f : Seguir(r, f)
    BY <1>11 DEF LeerOperacion, FallaSinCapturar
  <2>3. Respuesta(r)'
    BY <1>1, <1>5, <1>6, <1>7, <1>8, <1>10, <2>1, <2>2, IrRespuesta
  <2> QED BY <1>9, <2>1, <2>3
<1>12. CASE CrearOperacion(r)
  <2>1. op[K(r)].estado = "inexistente"
    BY <1>12 DEF CrearOperacion
  <2>2. op' = op \/ op' = [op EXCEPT ![K(r)] = OperacionNueva(r)]
    BY <1>12 DEF CrearOperacion
  <2>3. OpLocal(r)
    BY <1>2, <2>1, <2>2 DEF OpLocal
  <2>4. CASE Ir(r, "emitir") /\ op' = [op EXCEPT ![K(r)] = OperacionNueva(r)]
    <3>1. op'[K(r)] = OperacionNueva(r)
      BY <1>2, <2>4
    <3>2. Suya(r)'
      BY <3>1 DEF Suya, OperacionNueva, K
    <3> QED BY <1>1, <1>7, <2>3, <2>4, <3>2, IrRespuesta
  <2>5. CASE Ir(r, "recuperar_creacion")
    BY <1>1, <1>7, <2>3, <2>5, IrRespuesta
  <2> QED BY <1>12, <2>4, <2>5 DEF CrearOperacion
<1>13. CASE NoCrearOperacion(r)
  <2>1. op' = op
    BY <1>13 DEF NoCrearOperacion
  <2>2. \/ \E c \in {"elegibilidad", "conflicto", "reintentable"} : Terminar(r, Resp(c, 0))
        \/ MismaOperacion(r) /\ \E f : Seguir(r, f)
    BY <1>13 DEF NoCrearOperacion, FallaSinCapturar
  <2>3. Respuesta(r)'
    BY <1>5, <1>6, <1>8, <1>10, <2>1, <2>2
  <2> QED BY <1>9, <2>1, <2>3
<1>14. CASE RecuperarCreacion(r)
  <2>1. \E c \in {"reintentable", "bloqueado"} : Terminar(r, Resp(c, 0))
    BY <1>14 DEF RecuperarCreacion
  <2>2. op' = op \/ op' = [op EXCEPT ![K(r)].estado = "interrumpida_pre_arca"]
    BY <1>14 DEF RecuperarCreacion
  <2> QED BY <1>1, <1>5, <1>6, <1>9, <2>1, <2>2, OpEstado
<1>15. CASE Reclamar(r)
  <2>1. Suya(r)
    BY <1>1, <1>15 DEF Reclamar, En, Respuesta, PasosConOperacion, Pasos
  <2>2. op' = op \/ op' = [op EXCEPT ![K(r)].estado = "en_proceso"]
    BY <1>15 DEF Reclamar, Reclamada
  <2>3. OpLocal(r)
    BY <1>1, <1>9, <2>2, OpEstado
  <2>4. Suya(r)'
    BY <2>1, <2>3, SuyaEstable
  <2>5. \/ \E c \in {"elegibilidad", "bloqueado", "reintentable"} : Terminar(r, Resp(c, 0))
        \/ Ir(r, "emitir")
        \/ op' = op /\ \E f : Seguir(r, f)
    BY <1>15 DEF Reclamar, FallaSinCapturar
  <2> QED BY <1>1, <1>5, <1>6, <1>7, <1>10, <2>1, <2>3, <2>4, <2>5, IrRespuesta
<1>16. CASE Confirmar(r)
  <2>1. Suya(r)
    BY <1>1, <1>16 DEF Confirmar, En, Respuesta, PasosConOperacion, Pasos
  <2>2. op' = op \/ op' = [op EXCEPT ![K(r)].estado = "en_proceso",
                                    ![K(r)].resp = SinRespuesta]
    BY <1>16 DEF Confirmar
  <2>3. OpLocal(r)
    BY <1>1, <1>9, <2>2, OpRespuesta
  <2>4. Suya(r)'
    BY <2>1, <2>3, SuyaEstable
  <2>5. \/ \E c \in {"elegibilidad", "reintentable", "en_proceso"} : Terminar(r, Resp(c, 0))
        \/ sol' = [sol EXCEPT ![r].pc = "emitir", ![r].confirmada = TRUE]
        \/ op' = op /\ Terminar(r, RespuestaReplay(K(r)))
    BY <1>16 DEF Confirmar, FallaSinCapturar
  <2>6. CASE sol' = [sol EXCEPT ![r].pc = "emitir", ![r].confirmada = TRUE]
    <3>1. sol'[r].pc = "emitir"
      BY <1>2, <2>6 DEF EstadosSolicitud
    <3> QED BY <1>7, <2>3, <2>4, <3>1, LlegarRespuesta
  <2> QED BY <1>3, <1>5, <1>6, <2>1, <2>3, <2>5, <2>6, TerminarReplay
<1>17. CASE ResolverIncompleta(r)
  <2>1. op' = op
    BY <1>17 DEF ResolverIncompleta
  <2>2. Suya(r)
    BY <1>1, <1>17 DEF ResolverIncompleta, En, Respuesta, PasosConOperacion, Pasos
  <2>3. Suya(r)'
    BY <1>9, <2>1, <2>2, SuyaEstable
  <2>4. \/ \E c \in {"elegibilidad", "en_proceso", "no_recuperable", "reintentable"} :
              Terminar(r, Resp(c, 0))
        \/ Ir(r, "emitir")
        \/ \E i \in Solicitudes :
              /\ Primero(K(r), i)
              /\ sol' = [sol EXCEPT ![r].pc = "candidata", ![r].resp = Reconstruida(i)]
    BY <1>17 DEF ResolverIncompleta, FallaSinCapturar
  <2>5. ASSUME NEW i \in Solicitudes, Primero(K(r), i),
               sol' = [sol EXCEPT ![r].pc = "candidata", ![r].resp = Reconstruida(i)]
        PROVE  Respuesta(r)'
    <3>1. sol'[r].pc = "candidata" /\ sol'[r].resp = Reconstruida(i)
      BY <1>2, <2>5 DEF EstadosSolicitud
    <3>2. Reconstruida(i).clase \in {"exito", "rechazo_global", "reconciliacion"}
      BY DEF Reconstruida, Resp
    <3>3. Reconstruida(i).clase = "exito" =>
             i \in comprobantes /\ Reconstruida(i).num = intento[i].num
      BY DEF Reconstruida, Resp
    <3>4. K(i) = K(r)
      BY <2>5 DEF Primero, IntentosDe, InductivoCompleto, IntentoPropio
    <3>5. Reconstruida(i).clase = "exito" => Respaldada(r)'
      BY <1>3, <3>1, <3>3, <3>4 DEF Respaldada, K
    <3> QED BY <2>3, <3>1, <3>2, <3>5 DEF Respuesta, PasosConOperacion
  <2>6. Respuesta(r)'
    BY <1>1, <1>5, <1>6, <1>7, <2>3, <2>4, <2>5, IrRespuesta
  <2> QED BY <1>9, <2>1, <2>6
<1>18. CASE PublicarCandidata(r)
  <2>1. sol[r].pc = "candidata"
    BY <1>18 DEF PublicarCandidata, En
  <2>2. Suya(r) /\ (sol[r].resp.clase = "exito" => Respaldada(r))
    BY <1>1, <2>1 DEF Respuesta, PasosConOperacion, Pasos
  <2> DEFINE publicada == [op EXCEPT ![K(r)].estado = EstadoDesde(sol[r].resp.clase),
                                     ![K(r)].resp = sol[r].resp]
  <2>3. CASE (op' = op \/ op' = publicada) /\ Terminar(r, Resp("reintentable", 0))
    <3>1. EstadoDesde(sol[r].resp.clase) # "inexistente"
      BY DEF EstadoDesde
    <3>2. ASSUME op' = publicada PROVE OpLocal(r)
      <4> DEFINE e == EstadoDesde(sol[r].resp.clase)
                 x == sol[r].resp
      <4>1. e # "inexistente" /\ op' = [op EXCEPT ![K(r)].estado = e, ![K(r)].resp = x]
        BY <3>1, <3>2
      <4> HIDE DEF e, x
      <4> QED BY <1>1, <4>1, OpRespuesta, ZenonT(30)
    <3> QED BY <1>5, <1>6, <1>9, <2>3, <3>2
  <2>4. CASE /\ op' = [op EXCEPT ![K(r)].estado = EstadoDesde(sol[r].resp.clase),
                                ![K(r)].resp = sol[r].resp]
             /\ Terminar(r, sol[r].resp)
    <3> DEFINE x == sol[r].resp
    <3>1. EstadoDesde(x.clase) # "inexistente"
      BY DEF EstadoDesde
    <3>2. sol'[r].pc = "fin" /\ sol'[r].resp = x
      BY <1>1, <2>4, TerminarFija
    <3>3. OpLocal(r) /\ op'[K(r)].estado = EstadoDesde(x.clase) /\ op'[K(r)].resp = x
      <4> DEFINE e == EstadoDesde(x.clase)
      <4>1. e # "inexistente" /\ op' = [op EXCEPT ![K(r)].estado = e, ![K(r)].resp = x]
        BY <2>4, <3>1
      <4> HIDE DEF e, x
      <4>2. OpLocal(r) /\ op'[K(r)].estado = e /\ op'[K(r)].resp = x
        BY <1>1, <4>1, OpRespuesta, ZenonT(30)
      <4> QED BY <4>2 DEF e
    <3>4. Suya(r)'
      BY <2>2, <3>3, SuyaEstable
    <3> HIDE DEF x
    <3>5. Firme(r)'
      BY <3>2, <3>3, <3>4 DEF Firme, K
    <3>6. x.clase = "exito" => Respaldada(r)'
      BY <1>3, <2>2, <3>2 DEF Respaldada, x, K
    <3> QED BY <3>2, <3>3, <3>5, <3>6 DEF Respuesta, PasosConOperacion
  <2> QED BY <1>18, <2>3, <2>4 DEF PublicarCandidata, FallaSinCapturar
<1> QED BY <1>11, <1>12, <1>13, <1>14, <1>15, <1>16, <1>17, <1>18 DEF Resolver

\* Reservation, ARCA call and its answer: the operation is not written.
LEMMA RespuestaEmitir ==
    ASSUME InductivoCompleto, NEW r \in Solicitudes, Emitir(r)
    PROVE  OpLocal(r) /\ Respuesta(r)'
<1> USE DEF db, fisco, memoria, cotas
<1>1. TypeOK /\ Respuesta(r)
  BY DEF InductivoCompleto, Inductivo, RespuestasFieles
<1>2. /\ sol \in [Solicitudes -> EstadosSolicitud]
      /\ intento \in [Solicitudes -> Intentos]
  BY <1>1 DEF TypeOK
<1>3. op' = op
  BY DEF Emitir, TomarCerrojo, Validar, Diagnosticar, ConsultarUltimo, Reservar, Preflight,
         MarcarArcaIniciada, Solicitar, RecibirRespuesta, SinResultado
<1>4. OpLocal(r)
  BY <1>3, OpIgual
<1>5. Suya(r)
  BY <1>1 DEF Emitir, TomarCerrojo, Validar, Diagnosticar, ConsultarUltimo, Reservar,
         Preflight, MarcarArcaIniciada, Solicitar, RecibirRespuesta, SinResultado, En,
         Respuesta, PasosConOperacion, Pasos
<1>6. Suya(r)'
  BY <1>4, <1>5, SuyaEstable
<1>7. ASSUME NEW p, NEW c \in ClasesDurables \ {"exito"}, NEW n, Devolver(r, p, Resp(c, n))
      PROVE  Respuesta(r)'
  BY <1>1, <1>6, <1>7, DevolverRespuesta DEF Resp
<1>8. {"fallido", "duplicado", "rechazo_global", "reconciliacion"}
         \subseteq ClasesDurables \ {"exito"}
  BY DEF ClasesDurables
<1>9. {"validar", "diagnosticar", "ultimo", "reservar", "recuperar"} \subseteq PasosNeutros
  BY DEF PasosNeutros, Pasos
<1>10. ASSUME FallarPreArca(r) PROVE Respuesta(r)'
  <2>1. sol'[r].pc = "recuperar"
    BY <1>2, <1>10 DEF FallarPreArca, SaltarA, EstadosSolicitud
  <2> QED BY <1>6, <1>9, <2>1, LlegarRespuesta
<1>11. ASSUME NEW pc \in {"preflight", "marcar", "solicitar", "esperar"}, Ir(r, pc),
              sol[r].num = intento'[r].num
       PROVE  Respuesta(r)'
  <2>1. sol'[r].pc = pc /\ sol'[r].num = sol[r].num
    BY <1>2, <1>11 DEF Ir, EstadosSolicitud
  <2> QED BY <1>6, <1>11, <2>1 DEF Respuesta, PasosConOperacion
<1>12. CASE TomarCerrojo(r)
  BY <1>1, <1>4, <1>6, <1>9, <1>12, IrRespuesta DEF TomarCerrojo
<1>13. CASE Validar(r)
  <2>1. \/ \E n : Devolver(r, "nada", Resp("fallido", n))
        \/ \E n : Devolver(r, "nada", Resp("duplicado", n))
        \/ Ir(r, "diagnosticar")
        \/ FallarPreArca(r)
    BY <1>13 DEF Validar
  <2> QED BY <1>1, <1>4, <1>6, <1>7, <1>8, <1>9, <1>10, <2>1, IrRespuesta
<1>14. CASE Diagnosticar(r)
  <2>1. \/ \E n : sol' = [sol EXCEPT ![r].pc = "ultimo", ![r].local = n]
        \/ Devolver(r, "nada", Resp("fallido", 0))
        \/ FallarPreArca(r)
    BY <1>14 DEF Diagnosticar
  <2>2. ASSUME NEW n, sol' = [sol EXCEPT ![r].pc = "ultimo", ![r].local = n]
        PROVE  Respuesta(r)'
    <3>1. sol'[r].pc = "ultimo"
      BY <1>2, <2>2 DEF EstadosSolicitud
    <3> QED BY <1>6, <1>9, <3>1, LlegarRespuesta
  <2> QED BY <1>4, <1>7, <1>8, <1>10, <2>1, <2>2
<1>15. CASE ConsultarUltimo(r)
  <2>1. \/ \E n : sol' = [sol EXCEPT ![r].pc = "reservar", ![r].num = n]
        \/ Devolver(r, "nada", Resp("fallido", 0))
    BY <1>15 DEF ConsultarUltimo
  <2>2. ASSUME NEW n, sol' = [sol EXCEPT ![r].pc = "reservar", ![r].num = n]
        PROVE  Respuesta(r)'
    <3>1. sol'[r].pc = "reservar"
      BY <1>2, <2>2 DEF EstadosSolicitud
    <3> QED BY <1>6, <1>9, <3>1, LlegarRespuesta
  <2> QED BY <1>4, <1>7, <1>8, <2>1, <2>2
<1>16. CASE Reservar(r)
  <2>1. \/ Ir(r, "preflight") /\ intento' = [intento EXCEPT ![r] = IntentoNuevo(r)]
        \/ Devolver(r, "nada", Resp("fallido", 0))
        \/ FallarPreArca(r)
    BY <1>16 DEF Reservar
  <2>2. ASSUME Ir(r, "preflight"), intento' = [intento EXCEPT ![r] = IntentoNuevo(r)]
        PROVE  Respuesta(r)'
    <3>1. intento'[r] = IntentoNuevo(r)
      BY <1>2, <2>2
    <3>2. sol[r].num = intento'[r].num
      BY <3>1 DEF IntentoNuevo
    <3> QED BY <1>11, <2>2, <3>2
  <2> QED BY <1>4, <1>7, <1>8, <1>10, <2>1, <2>2
<1>17. CASE Preflight(r)
  <2>1. sol[r].num = intento[r].num
    BY <1>1, <1>17 DEF Preflight, En, Respuesta
  <2>2. \/ Ir(r, "marcar") /\ intento' = intento
        \/ Devolver(r, "cerrada_pre_arca", Resp("fallido", sol[r].num))
        \/ Devolver(r, "nada", Resp("fallido", 0))
        \/ FallarPreArca(r)
    BY <1>17 DEF Preflight
  <2> QED BY <1>4, <1>7, <1>8, <1>10, <1>11, <2>1, <2>2
<1>18. CASE MarcarArcaIniciada(r)
  <2>1. sol[r].num = intento[r].num
    BY <1>1, <1>18 DEF MarcarArcaIniciada, En, Respuesta
  <2>2. \/ Ir(r, "solicitar") /\ intento' = [intento EXCEPT ![r].fase = "arca_iniciada"]
        \/ Devolver(r, "cerrada_pre_arca", Resp("fallido", 0))
        \/ FallarPreArca(r)
    BY <1>18 DEF MarcarArcaIniciada
  <2>3. intento' = [intento EXCEPT ![r].fase = "arca_iniciada"] =>
           intento'[r].num = intento[r].num
    BY <1>2 DEF Intentos
  <2> QED BY <1>4, <1>7, <1>8, <1>10, <1>11, <2>1, <2>2, <2>3
<1>19. CASE Solicitar(r)
  <2>1. sol[r].num = intento'[r].num
    BY <1>1, <1>19 DEF Solicitar, En, Respuesta
  <2> QED BY <1>4, <1>11, <1>19, <2>1 DEF Solicitar
<1>20. CASE RecibirRespuesta(r)
  <2>1. sol[r].num = intento'[r].num
    BY <1>1, <1>20 DEF RecibirRespuesta, En, Respuesta
  <2>2. \/ Devolver(r, "autorizado", Resp("exito", sol[r].num))
        \/ Devolver(r, "rechazado", Resp("fallido", sol[r].num))
        \/ Devolver(r, "rechazo_global", Resp("rechazo_global", sol[r].num))
    BY <1>20 DEF RecibirRespuesta
  <2>3. ASSUME Devolver(r, "autorizado", Resp("exito", sol[r].num))
        PROVE  Respuesta(r)'
    BY <1>1, <1>6, <2>1, <2>3, DevolverRespuesta DEF Resp, ClasesDurables
  <2> QED BY <1>4, <1>7, <1>8, <2>2, <2>3
<1>21. CASE SinResultado(r)
  <2>1. \/ Devolver(r, "reconciliacion", Resp("reconciliacion", sol[r].num))
        \/ sol' = [sol EXCEPT ![r].pc = "fin", ![r].resp = Resp("post_arca", 0)]
        \/ Terminar(r, Resp("post_arca", 0))
    BY <1>21 DEF SinResultado, Inmovilizar
  <2>2. Resp("post_arca", 0).clase \notin ClasesFirmes
    BY DEF Resp, ClasesFirmes
  <2>3. CASE sol' = [sol EXCEPT ![r].pc = "fin", ![r].resp = Resp("post_arca", 0)]
    <3>1. sol'[r].pc = "fin" /\ sol'[r].resp = Resp("post_arca", 0)
      BY <1>2, <2>3 DEF EstadosSolicitud
    <3> QED BY <1>4, <2>2, <3>1 DEF Respuesta, PasosConOperacion, ClasesFirmes
  <2> QED BY <1>1, <1>4, <1>7, <1>8, <2>1, <2>2, <2>3, TerminarSimple
<1> QED BY <1>12, <1>13, <1>14, <1>15, <1>16, <1>17, <1>18, <1>19, <1>20, <1>21 DEF Emitir

\* A published response is the one the client gets, unless the commit is lost.
LEMMA RespuestaPublicada ==
    ASSUME InductivoCompleto, NEW r \in Solicitudes, sol[r].pc = "publicar", Publicado(r)
    PROVE  /\ OpLocal(r) /\ Suya(r)'
           /\ Terminar(r, sol[r].resp) => Respuesta(r)'
<1> DEFINE x == sol[r].resp
           e == EstadoDesde(x.clase)
<1>1. TypeOK /\ Respuesta(r)
  BY DEF InductivoCompleto, Inductivo, RespuestasFieles
<1>2. Suya(r) /\ (x.clase = "exito" => sol[r].pend = "autorizado"
                                        /\ x.num = intento[r].num)
  BY <1>1 DEF Respuesta, PasosConOperacion, Pasos
<1>3. e # "inexistente" /\ op' = [op EXCEPT ![K(r)].estado = e, ![K(r)].resp = x]
  BY DEF Publicado, EstadoDesde
<1>4. sol[r].pend = "autorizado" =>
         r \in comprobantes' /\ intento'[r].num = intento[r].num
  BY <1>1 DEF Publicado, IntentoPublicado, CerrarGuarda, TypeOK, Intentos
<1> HIDE DEF e, x
<1>5. OpLocal(r) /\ op'[K(r)].estado = e /\ op'[K(r)].resp = x
  BY <1>1, <1>3, OpRespuesta, ZenonT(30)
<1>6. Suya(r)'
  BY <1>2, <1>5, SuyaEstable
<1>7. ASSUME Terminar(r, x) PROVE Respuesta(r)'
  <2>1. sol'[r].pc = "fin" /\ sol'[r].resp = x
    BY <1>1, <1>7, TerminarFija
  <2>2. Firme(r)'
    BY <1>5, <1>6, <2>1 DEF Firme, K, e
  <2>3. x.clase = "exito" => Respaldada(r)'
    BY <1>2, <1>4, <2>1 DEF Respaldada, K
  <2> QED BY <2>1, <2>2, <2>3 DEF Respuesta, PasosConOperacion
<1> QED BY <1>5, <1>6, <1>7 DEF x

\* Publication and recovery.
LEMMA RespuestaCerrar ==
    ASSUME InductivoCompleto, NEW r \in Solicitudes, Cerrar(r)
    PROVE  OpLocal(r) /\ Respuesta(r)'
<1> USE DEF db, fisco, memoria, cotas
<1>1. TypeOK /\ Respuesta(r)
  BY DEF InductivoCompleto, Inductivo, RespuestasFieles
<1>2. sol \in [Solicitudes -> EstadosSolicitud]
  BY <1>1 DEF TypeOK
<1>3. Suya(r)
  BY <1>1 DEF Cerrar, Publicar, PublicarInesperada, Recuperar, En, Respuesta,
         PasosConOperacion, Pasos
<1>4. ASSUME op' = op PROVE OpLocal(r) /\ Suya(r)'
  BY <1>3, <1>4, OpIgual, SuyaEstable
<1>5. ASSUME NEW c \in ClasesHttp \cup {"reconciliacion"}, NEW n, Terminar(r, Resp(c, n))
      PROVE  Respuesta(r)'
  <2>1. Resp(c, n).clase \notin ClasesFirmes
    BY <1>5 DEF Resp, ClasesHttp, ClasesFirmes
  <2> QED BY <1>1, <1>5, <2>1, TerminarSimple
<1>6. {"no_recuperable", "post_arca", "error", "reintentable", "bloqueado",
       "reconciliacion"} \subseteq ClasesHttp \cup {"reconciliacion"}
  BY DEF ClasesHttp
<1>7. ASSUME Deshacer(r), Suya(r)' PROVE Respuesta(r)'
  <2>1. CASE Iniciada(r)
    BY <1>5, <1>6, <1>7, <2>1 DEF Deshacer
  <2>2. CASE ~Iniciada(r)
    <3>1. sol' = [sol EXCEPT ![r].pc = "recuperar", ![r].pend = "nada"]
      BY <1>7, <2>2 DEF Deshacer
    <3>2. sol'[r].pc = "recuperar"
      BY <1>2, <3>1 DEF EstadosSolicitud
    <3> QED BY <1>7, <3>2, LlegarRespuesta DEF PasosNeutros, Pasos
  <2> QED BY <2>1, <2>2
<1>8. CASE Publicar(r)
  <2>1. sol[r].pc = "publicar"
    BY <1>8 DEF Publicar, En
  <2>2. CASE Publicado(r)
    <3>1. OpLocal(r) /\ Suya(r)' /\ (Terminar(r, sol[r].resp) => Respuesta(r)')
      BY <2>1, <2>2, RespuestaPublicada
    <3>2. \/ Terminar(r, sol[r].resp) \/ Deshacer(r)
          \/ UNCHANGED <<op, intento, comprobantes>> /\ PerderPublicacion(r)
      BY <1>8, <2>2 DEF Publicar
    <3>3. ASSUME UNCHANGED <<op, intento, comprobantes>>, PerderPublicacion(r)
          PROVE  Respuesta(r)'
      BY <1>3, <1>5, <1>6, <1>7, <3>1, <3>3, TerminarReplay DEF PerderPublicacion
    <3> QED BY <1>7, <3>1, <3>2, <3>3
  <2>3. CASE UNCHANGED <<op, intento, comprobantes>> /\ ~Publicado(r)
    <3>1. PerderPublicacion(r) \/ Deshacer(r)
      BY <1>8, <2>3 DEF Publicar
    <3>2. OpLocal(r) /\ Suya(r)'
      BY <1>4, <2>3
    <3>3. ASSUME PerderPublicacion(r) PROVE Respuesta(r)'
      BY <1>3, <1>5, <1>6, <1>7, <2>3, <3>2, <3>3, TerminarReplay DEF PerderPublicacion
    <3> QED BY <1>7, <3>1, <3>2, <3>3
  <2> QED BY <1>8, <2>2, <2>3 DEF Publicar
<1>9. CASE PublicarInesperada(r)
  <2>1. \E c \in {"reconciliacion", "error"}, n \in {0, sol[r].num} :
           Terminar(r, Resp(c, n))
    BY <1>9 DEF PublicarInesperada
  <2>2. op' = op \/ op' = [op EXCEPT ![K(r)].estado = "requiere_reconciliacion",
                                    ![K(r)].resp = Resp("reconciliacion", sol[r].num)]
    BY <1>9 DEF PublicarInesperada
  <2>3. OpLocal(r)
    BY <1>1, <1>4, <2>2, OpRespuesta
  <2> QED BY <1>5, <1>6, <2>1, <2>3
<1>10. CASE Recuperar(r)
  <2> USE DEF InicioAmbiguo, CierreProbado, SinReserva, NoRecuperable
  <2>1. \E c \in {"post_arca", "reintentable", "bloqueado"} : Terminar(r, Resp(c, 0))
    BY <1>10 DEF Recuperar
  <2>2. \/ op' = op
        \/ \E e : e # "inexistente" /\ op' = [op EXCEPT ![K(r)].estado = e]
    <3>1. op[K(r)].estado # "inexistente"
      BY <1>3 DEF Suya
    <3> QED BY <1>10, <3>1 DEF Recuperar, DestinoRecuperado
  <2>3. OpLocal(r)
    BY <1>1, <1>4, <2>2, OpEstado
  <2> QED BY <1>5, <1>6, <2>1, <2>3
<1> QED BY <1>8, <1>9, <1>10 DEF Cerrar

LEMMA RespuestaPaso ==
    ASSUME InductivoCompleto, NEW r \in Solicitudes, Paso(r)
    PROVE  OpLocal(r) /\ Respuesta(r)'
BY RespuestaResolver, RespuestaEmitir, RespuestaCerrar DEF Paso

----------------------------------------------------------------------------
(* The others keep theirs.                                                  *)

\* Attempts, numbers and comprobantes that a step of r leaves in place.
LEMMA EfectoFilas ==
    ASSUME InductivoCompleto, NEW r \in Solicitudes, Efecto(r), OpLocal(r)
    PROVE  /\ comprobantes \subseteq comprobantes'
           /\ \A i \in Solicitudes : Existe(i) => intento'[i].num = intento[i].num
           /\ IntentoPropio'
<1>1. /\ TypeOK /\ IntentoPropio /\ Respuesta(r)
      /\ intento \in [Solicitudes -> Intentos]
  BY DEF InductivoCompleto, Inductivo, RespuestasFieles, TypeOK
<1>2. Transicion(r) /\ \A i \in Solicitudes \ {r} : intento'[i] = intento[i]
  BY DEF Efecto, Ajeno
<1> USE DEF SinCambio, Reserva, Cruce, CierreLocal, Autorizacion, Rechazo, Incertidumbre
<1>3. comprobantes \subseteq comprobantes'
  BY <1>2 DEF Transicion
<1>4. /\ Existe(r) => intento'[r].num = intento[r].num
      /\ Existe(r)' <=> intento'[r].fase # "ninguna"
      /\ Existe(r)' => intento'[r].op = K(r)
      /\ Existe(r)' => Suya(r)
  <2>1. CASE SinCambio(r)
    BY <1>1, <2>1 DEF IntentoPropio, Existe
  <2>2. CASE Reserva(r)
    <3>1. Suya(r)
      BY <1>1, <2>2 DEF Respuesta, PasosConOperacion, Pasos
    <3> QED BY <1>1, <2>2, <3>1 DEF IntentoPropio, Existe
  <2>3. CASE Cruce(r) \/ CierreLocal(r) \/ Autorizacion(r) \/ Rechazo(r) \/ Incertidumbre(r)
    <3>1. intento[r].fase # "ninguna"
      BY <2>3
    <3>2. Existe(r) /\ intento[r].op = K(r) /\ Suya(r)
      BY <1>1, <3>1 DEF IntentoPropio
    <3>3. \E e \in EstadosIntento \ {"inexistente"}, f \in FasesGuarda \ {"ninguna"} :
             intento'[r] = [intento[r] EXCEPT !.estado = e, !.fase = f]
      <4>1. intento[r] = [intento[r] EXCEPT !.estado = intento[r].estado]
            /\ intento[r].estado \in EstadosIntento \ {"inexistente"}
        BY <1>1, <3>2 DEF Intentos, Existe
      <4>2. {"fallido_verificado", "autorizado", "rechazado_arca"}
               \subseteq EstadosIntento \ {"inexistente"}
            /\ {"arca_iniciada", "cerrada_pre_arca", "cerrada_terminal",
                 "requiere_reconciliacion"} \subseteq FasesGuarda \ {"ninguna"}
        BY DEF EstadosIntento, FasesGuarda
      <4>3. CASE Cruce(r)
        <5>1. intento'[r] = [intento[r] EXCEPT !.estado = intento[r].estado,
                                               !.fase = "arca_iniciada"]
          BY <1>1, <4>3 DEF Intentos
        <5> QED BY <4>1, <4>2, <5>1
      <4>4. CASE CierreLocal(r)
        BY <4>2, <4>4
      <4>5. CASE Autorizacion(r)
        BY <4>2, <4>5
      <4>6. CASE Rechazo(r)
        BY <4>2, <4>6
      <4>7. CASE Incertidumbre(r)
        BY <4>2, <4>7
      <4> QED BY <2>3, <4>3, <4>4, <4>5, <4>6, <4>7
    <3>4. /\ intento'[r].num = intento[r].num /\ intento'[r].op = intento[r].op
          /\ intento'[r].estado # "inexistente" /\ intento'[r].fase # "ninguna"
      BY <1>1, <3>3 DEF Intentos
    <3> QED BY <3>2, <3>4 DEF Existe
  <2> QED BY <1>2, <2>1, <2>2, <2>3 DEF Transicion
<1>5. ASSUME NEW i \in Solicitudes
      PROVE  /\ Existe(i)' <=> intento'[i].fase # "ninguna"
             /\ Existe(i)' => intento'[i].op = K(i) /\ Suya(i)'
  <2>1. Existe(i)' <=> intento'[i].fase # "ninguna"
    BY <1>1, <1>2, <1>4 DEF IntentoPropio, Existe
  <2>2. ASSUME Existe(i)' PROVE intento'[i].op = K(i) /\ Suya(i)
    BY <1>1, <1>2, <1>4, <2>2 DEF IntentoPropio, Existe
  <2> QED BY <2>1, <2>2, SuyaEstable
<1>6. IntentoPropio'
  BY <1>5 DEF IntentoPropio, Existe, K
<1>7. \A i \in Solicitudes : Existe(i) => intento'[i].num = intento[i].num
  BY <1>2, <1>4
<1> QED BY <1>3, <1>6, <1>7

\* Who did not move keeps what its answer rests on.
LEMMA RespuestaAjena ==
    ASSUME InductivoCompleto, NEW r \in Solicitudes, Efecto(r), OpLocal(r),
           NEW s \in Solicitudes \ {r}
    PROVE  Respuesta(s)'
<1>1. /\ Respuesta(s) /\ IntentoPropio /\ ComprobanteAutorizado
      /\ comprobantes \subseteq Solicitudes
  BY DEF InductivoCompleto, Inductivo, RespuestasFieles, TypeOK
<1>2. sol'[s] = sol[s] /\ intento'[s] = intento[s] /\ OperacionTerminalFija
  BY DEF Efecto, Ajeno
<1>3. /\ comprobantes \subseteq comprobantes'
      /\ \A i \in Solicitudes : Existe(i) => intento'[i].num = intento[i].num
  BY EfectoFilas
<1>4. \A i \in comprobantes : intento'[i].num = intento[i].num
  BY <1>1, <1>3 DEF ComprobanteAutorizado, IntentoPropio
<1>5. Respaldada(s) => Respaldada(s)'
  BY <1>2, <1>3, <1>4 DEF Respaldada, K
<1>6. Suya(s) => Suya(s)'
  BY SuyaEstable
<1>7. ASSUME Firme(s), sol[s].resp.clase \in ClasesFirmes PROVE Firme(s)'
  <2>1. op[K(s)].estado \in EstadosTerminales
    BY <1>7 DEF Firme, ClasesFirmes, EstadoDesde, EstadosTerminales
  <2>2. op'[K(s)].estado = op[K(s)].estado /\ op'[K(s)].resp = op[K(s)].resp
    BY <1>2, <2>1, ClaveTipo DEF OperacionTerminalFija
  <2> QED BY <1>2, <1>6, <1>7, <2>2 DEF Firme, K
<1> QED BY <1>1, <1>2, <1>5, <1>6, <1>7 DEF Respuesta

----------------------------------------------------------------------------
(* The environment writes no payload, no attempt and no answer.             *)

LEMMA RespuestaEntorno ==
    ASSUME InductivoCompleto, Entorno
    PROVE  IntentoPropio' /\ RespuestasFieles'
<1> USE DEF db, fisco, memoria, cotas
<1>1. /\ IntentoPropio /\ RespuestasFieles
      /\ op \in [Claves -> Operaciones] /\ sol \in [Solicitudes -> EstadosSolicitud]
  BY DEF InductivoCompleto, Inductivo, TypeOK
<1>2. intento' = intento /\ comprobantes' = comprobantes
  BY DEF Entorno, ProcesarArca, EmisorExterno, Envejecer, CambiarPunto, VencerEvidencia,
         Reiniciar
<1>3. \A k \in Claves : /\ op'[k].estado = op[k].estado /\ op'[k].resp = op[k].resp
                        /\ op'[k].payload = op[k].payload
  <2>1. CASE \E k \in Claves : Envejecer(k)
    BY <1>1, <2>1 DEF Envejecer, Operaciones
  <2>2. CASE op' = op
    BY <2>2
  <2> QED BY <2>1, <2>2 DEF Entorno, ProcesarArca, EmisorExterno, CambiarPunto,
             VencerEvidencia, Reiniciar
<1>4. \A s \in Solicitudes : /\ Suya(s)' <=> Suya(s)
                             /\ op'[K(s)].estado = op[K(s)].estado
                             /\ op'[K(s)].resp = op[K(s)].resp
  BY <1>3, ClaveTipo DEF Suya, K
<1>5. IntentoPropio'
  BY <1>1, <1>2, <1>4 DEF IntentoPropio, Existe, K
<1>6. ASSUME NEW s \in Solicitudes PROVE Respuesta(s)'
  <2>1. \/ sol'[s] = sol[s]
        \/ sol'[s].pc = "fin" /\ sol'[s].resp = Resp("cortada", 0)
    <3>1. CASE Reiniciar
      <4>1. \/ sol'[s] = sol[s]
            \/ sol'[s] = [sol[s] EXCEPT !.pc = "fin", !.pend = "nada",
                                        !.resp = Resp("cortada", 0)]
        BY <3>1 DEF Reiniciar
      <4>2. sol[s] \in EstadosSolicitud
        BY <1>1
      <4> QED BY <4>1, <4>2 DEF EstadosSolicitud
    <3>2. CASE sol' = sol
      BY <3>2
    <3> QED BY <3>1, <3>2 DEF Entorno, ProcesarArca, EmisorExterno, Envejecer,
               CambiarPunto, VencerEvidencia
  <2>2. CASE sol'[s] = sol[s]
    <3>1. Firme(s) => Firme(s)'
      BY <1>4, <2>2 DEF Firme, K
    <3>2. Respaldada(s) => Respaldada(s)'
      BY <1>2, <2>2 DEF Respaldada, K
    <3> QED BY <1>1, <1>2, <1>4, <2>2, <3>1, <3>2 DEF Respuesta, RespuestasFieles
  <2>3. CASE sol'[s].pc = "fin" /\ sol'[s].resp = Resp("cortada", 0)
    BY <2>3 DEF Respuesta, PasosConOperacion, ClasesFirmes, Resp
  <2> QED BY <2>1, <2>2, <2>3
<1> QED BY <1>5, <1>6 DEF RespuestasFieles

----------------------------------------------------------------------------
(* The invariant.                                                           *)

LEMMA InitCompleto == Init => InductivoCompleto
<1> SUFFICES ASSUME Init PROVE InductivoCompleto
  OBVIOUS
<1>1. Inductivo
  BY InitInductivo
<1>2. \A r \in Solicitudes : ~Existe(r) /\ intento[r].fase = "ninguna"
  BY DEF Init, SinIntento, Existe
<1>3. \A r \in Solicitudes : sol[r].pc = "inicio"
  BY DEF Init
<1> QED BY <1>1, <1>2, <1>3 DEF InductivoCompleto, IntentoPropio, RespuestasFieles,
           Respuesta, PasosConOperacion

LEMMA CompletoPaso == InductivoCompleto /\ [Next]_vars => InductivoCompleto'
<1> SUFFICES ASSUME InductivoCompleto, [Next]_vars PROVE InductivoCompleto'
  OBVIOUS
<1>1. Inductivo'
  BY InductivoPaso DEF InductivoCompleto
<1>2. CASE Entorno
  BY <1>1, <1>2, RespuestaEntorno DEF InductivoCompleto
<1>3. CASE \E r \in Solicitudes : Paso(r)
  <2> PICK r \in Solicitudes : Paso(r)
    BY <1>3
  <2>1. Efecto(r) /\ OpLocal(r) /\ Respuesta(r)'
    BY EfectoPaso, RespuestaPaso DEF InductivoCompleto
  <2>2. IntentoPropio'
    BY <2>1, EfectoFilas
  <2>3. RespuestasFieles'
    BY <2>1, RespuestaAjena DEF RespuestasFieles
  <2> QED BY <1>1, <2>2, <2>3 DEF InductivoCompleto
<1>4. CASE UNCHANGED vars
  BY <1>1, <1>4 DEF vars, InductivoCompleto, IntentoPropio, RespuestasFieles, Respuesta,
     Firme, Respaldada, Suya, Existe, K
<1> QED BY <1>2, <1>3, <1>4 DEF Next

\* Requests, attempts, stored responses and answers always agree, whatever the
\* races to create, claim, confirm, publish and recover a key.
THEOREM CompletoSiempre == Spec => []InductivoCompleto
BY InitCompleto, CompletoPaso, PTL DEF Spec

----------------------------------------------------------------------------
(* What it gives.                                                           *)

\* "Misma clave con payload distinto responde conflicto": only requests of the
\* payload that took the key reserve a number or hear of its success.
THEOREM PayloadUnico == Spec => []UnPayloadPorClave
<1>1. InductivoCompleto => UnPayloadPorClave
  BY DEF InductivoCompleto, IntentoPropio, RespuestasFieles, Respuesta, Firme, Suya,
     ClasesFirmes, UnPayloadPorClave
<1> QED BY <1>1, CompletoSiempre, PTL

\* A success that was answered is stored for good, and a comprobante with that
\* number and the CAE of ARCA stands behind it.
THEOREM ExitoGuardado == Spec => []ExitoDurable
<1>1. ASSUME InductivoCompleto PROVE ExitoDurable
  <2> SUFFICES ASSUME NEW r \in Solicitudes, sol[r].pc = "fin", sol[r].resp.clase = "exito"
               PROVE  /\ op[K(r)].estado = "finalizado" /\ op[K(r)].resp = sol[r].resp
                      /\ \E i \in comprobantes :
                            K(i) = K(r) /\ arca[i] = "A"
                            /\ intento[i].num = sol[r].resp.num
    BY DEF ExitoDurable
  <2>1. Firme(r) /\ Respaldada(r)
    BY <1>1 DEF InductivoCompleto, RespuestasFieles, Respuesta, ClasesFirmes
  <2>2. \A i \in comprobantes : arca[i] = "A"
    BY <1>1 DEF InductivoCompleto, Inductivo, ComprobanteAutorizado
  <2> QED BY <2>1, <2>2 DEF Firme, Respaldada, EstadoDesde
<1> QED BY <1>1, CompletoSiempre, PTL

\* No two requests of a key are told different outcomes.
THEOREM RespuestasIguales == Spec => []RespuestasConcordes
<1>1. InductivoCompleto => RespuestasConcordes
  BY DEF InductivoCompleto, RespuestasFieles, Respuesta, Firme, ClasesFirmes,
     RespuestasConcordes
<1> QED BY <1>1, CompletoSiempre, PTL


----------------------------------------------------------------------------
(* Reopened keys.                                                           *)

\* The steps that reopen a key for another emission.
Reabierta(r) ==
    \/ RecuperarCreacion(r) /\ IntentosDe(K(r)) = {}
    \/ Recuperar(r) /\ CierreProbado(r) /\ Ajenos(r) = {}
    \/ Recuperar(r) /\ SinReserva(r)

LEMMA ReaperturaOrigen ==
    ASSUME InductivoCompleto, NEW r \in Solicitudes, Paso(r),
           op[K(r)].estado # "interrumpida_pre_arca",
           op'[K(r)].estado = "interrumpida_pre_arca"
    PROVE  Reabierta(r)
<1> USE DEF db, fisco, memoria, cotas
<1>1. /\ TypeOK
      /\ op \in [Claves -> Operaciones] /\ K(r) \in Claves
  BY ClaveTipo DEF InductivoCompleto, Inductivo, TypeOK
<1>2. ASSUME op' = op PROVE FALSE
  BY <1>2
<1>3. ASSUME NEW e, e # "interrumpida_pre_arca", op' = [op EXCEPT ![K(r)].estado = e]
      PROVE  FALSE
  BY <1>1, <1>3 DEF Operaciones
<1>4. ASSUME NEW e, NEW x, e \notin {"interrumpida_pre_arca", "inexistente"},
             op' = [op EXCEPT ![K(r)].estado = e, ![K(r)].resp = x]
      PROVE  FALSE
  BY <1>1, <1>4, OpRespuesta
<1>5. \A c : EstadoDesde(c) \notin {"interrumpida_pre_arca", "inexistente"}
  BY DEF EstadoDesde
<1>6. CASE PublicarCandidata(r)
  <2>1. op' = [op EXCEPT ![K(r)].estado = EstadoDesde(sol[r].resp.clase),
                         ![K(r)].resp = sol[r].resp]
    BY <1>2, <1>6 DEF PublicarCandidata
  <2> QED BY <1>4, <1>5, <2>1
<1>7. CASE Publicar(r)
  <2>1. op' = [op EXCEPT ![K(r)].estado = EstadoDesde(sol[r].resp.clase),
                         ![K(r)].resp = sol[r].resp]
    BY <1>2, <1>7 DEF Publicar, Publicado
  <2> QED BY <1>4, <1>5, <2>1
<1>8. CASE CrearOperacion(r)
  <2>1. op' = [op EXCEPT ![K(r)] = OperacionNueva(r)]
    BY <1>2, <1>8 DEF CrearOperacion
  <2>2. op'[K(r)].estado = "en_proceso"
    BY <1>1, <2>1 DEF OperacionNueva
  <2> QED BY <2>2
<1>9. CASE RecuperarCreacion(r)
  BY <1>2, <1>9 DEF RecuperarCreacion, Reabierta
<1>10. CASE Reclamar(r)
  BY <1>2, <1>3, <1>10 DEF Reclamar, Reclamada
<1>11. CASE Confirmar(r)
  <2>1. op' = [op EXCEPT ![K(r)].estado = "en_proceso", ![K(r)].resp = SinRespuesta]
    BY <1>2, <1>11 DEF Confirmar
  <2>2. op'[K(r)].estado = "en_proceso"
    BY <1>1, <2>1, OpRespuesta
  <2> QED BY <2>2
<1>12. CASE PublicarInesperada(r)
  <2>1. op' = [op EXCEPT ![K(r)].estado = "requiere_reconciliacion",
                         ![K(r)].resp = Resp("reconciliacion", sol[r].num)]
    BY <1>2, <1>12 DEF PublicarInesperada
  <2>2. op'[K(r)].estado = "requiere_reconciliacion"
    BY <1>1, <2>1, OpRespuesta
  <2> QED BY <2>2
<1>13. CASE Recuperar(r)
  <2>1. CASE InicioAmbiguo(r)
    <3>1. op'[K(r)].estado \in {op[K(r)].estado, "requiere_reconciliacion"}
      BY <1>1, <2>1 DEF InicioAmbiguo, Operaciones
    <3> QED BY <3>1
  <2>2. CASE CierreProbado(r)
    <3>1. DestinoRecuperado(r) = "interrumpida_pre_arca"
      BY <1>3, <2>2 DEF CierreProbado
    <3> QED BY <1>13, <2>2, <3>1 DEF DestinoRecuperado, Reabierta
  <2>3. CASE SinReserva(r)
    BY <1>13, <2>3 DEF Reabierta
  <2> QED BY <1>2, <1>13, <2>1, <2>2, <2>3 DEF Recuperar, NoRecuperable
<1>14. CASE \/ LeerOperacion(r) \/ NoCrearOperacion(r) \/ ResolverIncompleta(r) \/ Emitir(r)
  <2>1. op' = op
    BY <1>14 DEF LeerOperacion, NoCrearOperacion, ResolverIncompleta, Emitir, TomarCerrojo,
           Validar, Diagnosticar, ConsultarUltimo, Reservar, Preflight, MarcarArcaIniciada,
           Solicitar, RecibirRespuesta, SinResultado
  <2> QED BY <1>2, <2>1
<1> QED BY <1>6, <1>7, <1>8, <1>9, <1>10, <1>11, <1>12, <1>13, <1>14
        DEF Paso, Resolver, Cerrar

\* Then no attempt of the key crossed into ARCA, and none stays active.
LEMMA ReabiertaSegura ==
    ASSUME InductivoCompleto, NEW r \in Solicitudes, Reabierta(r),
           NEW i \in Solicitudes, K(i) = K(r)
    PROVE  arca[i] = "no_enviada" /\ (Existe(i) => intento'[i].fase \notin FasesActivas)
<1>1. /\ IntentoPropio /\ EnvioCruza /\ intento \in [Solicitudes -> Intentos]
      /\ arca \in [Solicitudes -> Destinos]
  BY DEF InductivoCompleto, Inductivo, TypeOK
<1>2. Existe(i) => i \in IntentosDe(K(r))
  BY <1>1 DEF IntentoPropio, IntentosDe
<1>3. ~Existe(i) => arca[i] = "no_enviada"
  BY <1>1 DEF IntentoPropio, EnvioCruza, Cruzada, Enviada
<1>4. CASE IntentosDe(K(r)) = {}
  BY <1>2, <1>3, <1>4
<1>5. CASE CierreProbado(r) /\ Ajenos(r) = {}
  <2>1. Existe(i) => i = r
    BY <1>2, <1>5 DEF Ajenos
  <2>2. intento[r].fase \in {"pre_arca", "cerrada_pre_arca"}
        /\ intento'[r].fase = "cerrada_pre_arca"
    BY <1>1, <1>5 DEF CierreProbado, Cerrable, CerrarGuarda, Intentos
  <2>3. arca[r] = "no_enviada"
    BY <1>1, <2>2 DEF EnvioCruza, Cruzada, Enviada
  <2> QED BY <1>3, <2>1, <2>2, <2>3 DEF FasesActivas
<1> QED BY <1>4, <1>5 DEF Reabierta, SinReserva

\* A key is only reopened (RecuperarCreacion, CierreProbado, SinReserva) when no
\* request of it reached ARCA and all its guards are closed.
THEOREM ReaperturaProbada == Spec => ReaperturaSegura
<1> DEFINE Segura(k) ==
        /\ op[k].estado # "interrumpida_pre_arca"
        /\ op'[k].estado = "interrumpida_pre_arca"
        => \A i \in Solicitudes : K(i) = k =>
               arca[i] = "no_enviada"
               /\ (Existe(i) => intento'[i].fase \notin FasesActivas)
<1>1. ASSUME InductivoCompleto, Next, NEW k \in Claves PROVE Segura(k)
  <2> SUFFICES ASSUME op[k].estado # "interrumpida_pre_arca",
                      op'[k].estado = "interrumpida_pre_arca"
               PROVE  \E r \in Solicitudes : K(r) = k /\ Reabierta(r)
    BY <1>1, ReabiertaSegura
  <2>1. CASE Entorno
    <3>1. op \in [Claves -> Operaciones]
      BY <1>1 DEF InductivoCompleto, Inductivo, TypeOK
    <3>2. op' = op \/ \E c \in Claves : op' = [op EXCEPT ![c].vieja = TRUE]
      BY <2>1 DEF Entorno, ProcesarArca, EmisorExterno, Envejecer, CambiarPunto,
         VencerEvidencia, Reiniciar, db
    <3>3. ASSUME NEW c \in Claves, op' = [op EXCEPT ![c].vieja = TRUE]
          PROVE  op'[k].estado = op[k].estado
      BY <3>1, <3>3 DEF Operaciones
    <3> QED BY <3>2, <3>3
  <2>2. CASE \E s \in Solicitudes : Paso(s)
    <3> PICK s \in Solicitudes : Paso(s)
      BY <2>2
    <3>1. K(s) = k
      BY <1>1, RespuestaPaso DEF OpLocal
    <3> QED BY <1>1, <3>1, ReaperturaOrigen
  <2> QED BY <1>1, <2>1, <2>2 DEF Next
<1>2. InductivoCompleto /\ [Next]_vars => [\A k \in Claves : Segura(k)]_vars
  BY <1>1
<1> QED BY <1>2, CompletoSiempre, PTL DEF Spec, ReaperturaSegura

----------------------------------------------------------------------------
(* The refinement: what a step shows of its key.                            *)

\* One request of the key reached ARCA, so its fate is the fate of the key.
LEMMA DestinoUnico ==
    ASSUME Inductivo, NEW r \in Solicitudes, Cruzada(r), NEW D, "no_enviada" \notin D
    PROVE  Decidida(K(r), D) <=> arca[r] \in D
<1>1. \A i \in Solicitudes : K(i) = K(r) /\ Cruzada(i) => i = r
  BY DEF Inductivo, CruceUnico
<1>2. \A i \in Solicitudes : arca[i] \in D => Cruzada(i)
  BY DEF Inductivo, EnvioCruza, Enviada
<1> QED BY <1>1, <1>2 DEF Decidida

\* Requests of other keys do not show.
LEMMA EnvioPaso ==
    ASSUME NEW r \in Solicitudes, NEW d,
           \A i \in Solicitudes \ {r} : arca'[i] = arca[i],
           EnvioDe'[K(r)] = d
    PROVE  EnvioDe' = [EnvioDe EXCEPT ![K(r)] = d]
<1>1. \A k \in Claves \ {K(r)} : \A D : Decidida(k, D)' <=> Decidida(k, D)
  BY DEF Decidida, K
<1>2. \A k \in Claves \ {K(r)} : EnvioDe'[k] = EnvioDe[k]
  BY <1>1 DEF EnvioDe
<1> QED BY <1>2 DEF EnvioDe

LEMMA EnvioIgual ==
    ASSUME arca' = arca PROVE EnvioDe' = EnvioDe
BY DEF EnvioDe, Decidida, K

\* Who answered is never asked again.
LEMMA FinFinal ==
    ASSUME NEW r \in Solicitudes, Paso(r) PROVE sol[r].pc # "fin"
BY DEF Paso, Resolver, LeerOperacion, CrearOperacion, NoCrearOperacion, RecuperarCreacion,
       Reclamar, Confirmar, ResolverIncompleta, PublicarCandidata, Emitir, TomarCerrojo,
       Validar, Diagnosticar, ConsultarUltimo, Reservar, Preflight, MarcarArcaIniciada,
       Solicitar, RecibirRespuesta, SinResultado, Cerrar, Publicar, PublicarInesperada,
       Recuperar, En

\* Sending: marcar_arca_iniciada left the guard crossed and nothing sent.
LEMMA SolicitarEnvia ==
    ASSUME InductivoCompleto, NEW r \in Solicitudes, Solicitar(r)
    PROVE  Unica!Enviar(K(r))
<1> USE DEF db, fisco, memoria, cotas
<1>1. /\ Inductivo /\ sol[r].pc = "solicitar" /\ K(r) \in Claves
      /\ arca \in [Solicitudes -> Destinos] /\ sol \in [Solicitudes -> EstadosSolicitud]
  BY ClaveTipo DEF InductivoCompleto, Inductivo, TypeOK, Solicitar, En
<1>2. intento[r].fase = "arca_iniciada" /\ arca[r] = "no_enviada"
  BY <1>1 DEF Inductivo, AvanceCoherente, Avance, Enviada
<1>3. Cruzada(r)
  BY <1>2 DEF Cruzada
<1>4. EnvioDe[K(r)] = "libre"
  <2>1. \A D : "no_enviada" \notin D => ~Decidida(K(r), D)
    BY <1>1, <1>2, <1>3, DestinoUnico
  <2> QED BY <1>1, <2>1 DEF EnvioDe
<1>5. /\ arca'[r] = "en_vuelo" /\ \A i \in Solicitudes \ {r} : arca'[i] = arca[i]
      /\ op' = op
      /\ sol'[r].pc = "esperar" /\ \A i \in Solicitudes \ {r} : sol'[i] = sol[i]
  BY <1>1 DEF Solicitar, Ir, EstadosSolicitud
<1>6. \A i \in Solicitudes : K(i) = K(r) /\ i # r => arca[i] = "no_enviada"
  BY <1>1, <1>3 DEF Inductivo, CruceUnico, EnvioCruza, Enviada
<1>7. EnvioDe'[K(r)] = "enviada"
  <2>1. ~Decidida(K(r), {"A"})' /\ ~Decidida(K(r), {"R", "10005"})'
    BY <1>5, <1>6 DEF Decidida, K
  <2>2. Decidida(K(r), {"en_vuelo"})'
    BY <1>5 DEF Decidida, K
  <2> QED BY <1>1, <2>1, <2>2 DEF EnvioDe, K
<1>8. EnvioDe' = [EnvioDe EXCEPT ![K(r)] = "enviada"]
  BY <1>5, <1>7, EnvioPaso
<1>9. RegistroDe' = RegistroDe /\ InformadaDe' = InformadaDe
  BY <1>1, <1>5 DEF RegistroDe, InformadaDe, K
<1> QED BY <1>4, <1>8, <1>9 DEF Unica!Enviar

\* ARCA decides what is in flight, once.
LEMMA ProcesarDecide ==
    ASSUME InductivoCompleto, NEW r \in Solicitudes, ProcesarArca(r)
    PROVE  Unica!Decidir(K(r))
<1> USE DEF db, fisco, memoria, cotas
<1>1. /\ Inductivo /\ arca[r] = "en_vuelo" /\ K(r) \in Claves
      /\ arca \in [Solicitudes -> Destinos]
  BY ClaveTipo DEF InductivoCompleto, Inductivo, TypeOK, ProcesarArca
<1>2. Cruzada(r)
  BY <1>1 DEF Inductivo, EnvioCruza, Enviada
<1>3. EnvioDe[K(r)] = "enviada"
  <2>1. ~Decidida(K(r), {"A"}) /\ ~Decidida(K(r), {"R", "10005"})
        /\ Decidida(K(r), {"en_vuelo"})
    BY <1>1, <1>2, DestinoUnico
  <2> QED BY <1>1, <2>1 DEF EnvioDe
<1>4. /\ arca'[r] \in {"A", "R", "10005"}
      /\ \A i \in Solicitudes \ {r} : arca'[i] = arca[i]
      /\ op' = op /\ sol' = sol
  BY <1>1 DEF ProcesarArca
<1>5. \A i \in Solicitudes : K(i) = K(r) /\ i # r => arca[i] = "no_enviada"
  BY <1>1, <1>2 DEF Inductivo, CruceUnico, EnvioCruza, Enviada
<1>6. EnvioDe'[K(r)] = "autorizada" \/ EnvioDe'[K(r)] = "rechazada"
  <2>1. CASE arca'[r] = "A"
    <3>1. Decidida(K(r), {"A"})'
      BY <2>1 DEF Decidida, K
    <3> QED BY <1>1, <3>1 DEF EnvioDe, K
  <2>2. CASE arca'[r] \in {"R", "10005"}
    <3>1. ~Decidida(K(r), {"A"})'
      BY <1>4, <1>5, <2>2 DEF Decidida, K
    <3>2. Decidida(K(r), {"R", "10005"})'
      BY <2>2 DEF Decidida, K
    <3> QED BY <1>1, <3>1, <3>2 DEF EnvioDe, K
  <2> QED BY <1>4, <2>1, <2>2
<1>7. \/ EnvioDe' = [EnvioDe EXCEPT ![K(r)] = "autorizada"]
      \/ EnvioDe' = [EnvioDe EXCEPT ![K(r)] = "rechazada"]
  BY <1>4, <1>6, EnvioPaso
<1>8. RegistroDe' = RegistroDe /\ InformadaDe' = InformadaDe
  BY <1>4 DEF RegistroDe, InformadaDe, K
<1> QED BY <1>3, <1>7, <1>8 DEF Unica!Decidir

\* The commit that finishes a key has the authorisation of ARCA behind it.
LEMMA FinalizaAutorizado ==
    ASSUME InductivoCompleto, NEW r \in Solicitudes, Paso(r),
           op[K(r)].estado # "finalizado", op'[K(r)].estado = "finalizado"
    PROVE  Decidida(K(r), {"A"})
<1> USE DEF db, fisco, memoria, cotas
<1>1. /\ TypeOK /\ Respuesta(r) /\ Avance(r)
      /\ op \in [Claves -> Operaciones] /\ K(r) \in Claves
      /\ \A i \in comprobantes : i \in Solicitudes /\ arca[i] = "A"
  BY ClaveTipo DEF InductivoCompleto, Inductivo, RespuestasFieles, TypeOK, AvanceCoherente,
     ComprobanteAutorizado
<1>2. ASSUME op' = op PROVE FALSE
  BY <1>2
<1>3. ASSUME NEW e, e # "finalizado", op' = [op EXCEPT ![K(r)].estado = e] PROVE FALSE
  BY <1>1, <1>3 DEF Operaciones
<1>4. ASSUME NEW e, NEW x, e \notin {"finalizado", "inexistente"},
             op' = [op EXCEPT ![K(r)].estado = e, ![K(r)].resp = x]
      PROVE  FALSE
  BY <1>1, <1>4, OpRespuesta
<1>5. \A c : c # "exito" => EstadoDesde(c) \notin {"finalizado", "inexistente"}
  BY DEF EstadoDesde
<1>6. CASE PublicarCandidata(r)
  <2>1. op' = [op EXCEPT ![K(r)].estado = EstadoDesde(sol[r].resp.clase),
                         ![K(r)].resp = sol[r].resp]
    BY <1>2, <1>6 DEF PublicarCandidata
  <2>2. sol[r].resp.clase = "exito"
    BY <1>4, <1>5, <2>1
  <2>3. Respaldada(r)
    BY <1>1, <1>6, <2>2 DEF PublicarCandidata, En, Respuesta
  <2> QED BY <1>1, <2>3 DEF Respaldada, Decidida
<1>7. CASE Publicar(r)
  <2>1. op' = [op EXCEPT ![K(r)].estado = EstadoDesde(sol[r].resp.clase),
                         ![K(r)].resp = sol[r].resp]
    BY <1>2, <1>7 DEF Publicar, Publicado
  <2>2. sol[r].resp.clase = "exito"
    BY <1>4, <1>5, <2>1
  <2>3. arca[r] = "A"
    BY <1>1, <1>7, <2>2 DEF Publicar, En, Respuesta, Avance
  <2> QED BY <2>3 DEF Decidida
<1>8. CASE CrearOperacion(r)
  <2>1. op' = [op EXCEPT ![K(r)] = OperacionNueva(r)]
    BY <1>2, <1>8 DEF CrearOperacion
  <2>2. op'[K(r)].estado = "en_proceso"
    BY <1>1, <2>1 DEF OperacionNueva
  <2> QED BY <2>2
<1>9. CASE RecuperarCreacion(r)
  BY <1>2, <1>3, <1>9 DEF RecuperarCreacion
<1>10. CASE Reclamar(r)
  BY <1>2, <1>3, <1>10 DEF Reclamar, Reclamada
<1>11. CASE Confirmar(r)
  BY <1>2, <1>4, <1>11 DEF Confirmar
<1>12. CASE PublicarInesperada(r)
  <2>1. op' = [op EXCEPT ![K(r)].estado = "requiere_reconciliacion",
                         ![K(r)].resp = Resp("reconciliacion", sol[r].num)]
    BY <1>2, <1>12 DEF PublicarInesperada
  <2>2. op'[K(r)].estado = "requiere_reconciliacion"
    BY <1>1, <2>1, OpRespuesta
  <2> QED BY <2>2
<1>13. CASE Recuperar(r)
  <2>1. \/ op' = op
        \/ \E e : e # "finalizado" /\ op' = [op EXCEPT ![K(r)].estado = e]
    BY <1>13 DEF Recuperar, InicioAmbiguo, CierreProbado, SinReserva, NoRecuperable,
                 DestinoRecuperado
  <2> QED BY <1>2, <1>3, <2>1
<1>14. CASE \/ LeerOperacion(r) \/ NoCrearOperacion(r) \/ ResolverIncompleta(r) \/ Emitir(r)
  <2>1. op' = op
    BY <1>14 DEF LeerOperacion, NoCrearOperacion, ResolverIncompleta, Emitir, TomarCerrojo,
           Validar, Diagnosticar, ConsultarUltimo, Reservar, Preflight, MarcarArcaIniciada,
           Solicitar, RecibirRespuesta, SinResultado
  <2> QED BY <1>2, <2>1
<1> QED BY <1>6, <1>7, <1>8, <1>9, <1>10, <1>11, <1>12, <1>13, <1>14
        DEF Paso, Resolver, Cerrar

\* Any other step of a request: the key is finished, a client hears of it, or
\* nothing shows.
LEMMA PasoRegistra ==
    ASSUME InductivoCompleto, InductivoCompleto', NEW r \in Solicitudes, Paso(r), arca' = arca
    PROVE  \/ Unica!Registrar(K(r)) \/ Unica!Informar(K(r))
           \/ UNCHANGED Unica!varsUnica
<1> DEFINE k == K(r)
<1>1. k \in Claves
  BY ClaveTipo
<1>2. /\ OperacionTerminalFija /\ OpLocal(r)
      /\ \A i \in Solicitudes \ {r} : sol'[i] = sol[i]
  BY EfectoPaso, RespuestaPaso DEF InductivoCompleto, Efecto, Ajeno
<1>3. sol[r].pc # "fin"
  BY FinFinal
<1>4. EnvioDe' = EnvioDe
  BY EnvioIgual
<1>5. RegistroDe' = RegistroDe \/ (k \notin RegistroDe /\ RegistroDe' = RegistroDe \cup {k})
  <2>1. \A c \in Claves \ {k} : op'[c] = op[c]
    BY <1>2 DEF OpLocal
  <2>2. op[k].estado = "finalizado" => op'[k].estado = "finalizado"
    BY <1>1, <1>2 DEF OperacionTerminalFija, EstadosTerminales
  <2> QED BY <1>1, <2>1, <2>2 DEF RegistroDe
<1>6. /\ InformadaDe' = InformadaDe \/ InformadaDe' = InformadaDe \cup {k}
      /\ InformadaDe' # InformadaDe => sol'[r].pc = "fin" /\ sol'[r].resp.clase = "exito"
  <2>1. InformadaDe \subseteq InformadaDe'
    BY <1>2, <1>3 DEF InformadaDe, K
  <2>2. CASE sol'[r].pc = "fin" /\ sol'[r].resp.clase = "exito"
    <3>1. InformadaDe' = InformadaDe \cup {k}
      BY <1>1, <1>2, <1>3, <2>2 DEF InformadaDe, K
    <3> QED BY <2>2, <3>1
  <2>3. CASE ~(sol'[r].pc = "fin" /\ sol'[r].resp.clase = "exito")
    <3>1. InformadaDe' = InformadaDe
      BY <1>2, <1>3, <2>3 DEF InformadaDe, K
    <3> QED BY <3>1
  <2> QED BY <2>2, <2>3
<1>7. CASE RegistroDe' = RegistroDe
  <2>1. CASE InformadaDe' = InformadaDe
    BY <1>4, <1>7, <2>1 DEF Unica!varsUnica
  <2>2. CASE InformadaDe' # InformadaDe
    <3>1. sol'[r].pc = "fin" /\ sol'[r].resp.clase = "exito"
      BY <1>6, <2>2
    <3>2. Respuesta(r)'
      BY DEF InductivoCompleto, RespuestasFieles
    <3>3. op'[k].estado = "finalizado"
      BY <3>1, <3>2 DEF Respuesta, Firme, ClasesFirmes, EstadoDesde, K
    <3>4. k \in RegistroDe
      BY <1>1, <1>7, <3>3 DEF RegistroDe
    <3> QED BY <1>4, <1>6, <1>7, <2>2, <3>4 DEF Unica!Informar
  <2> QED BY <2>1, <2>2
<1>8. CASE k \notin RegistroDe /\ RegistroDe' = RegistroDe \cup {k}
  <2>1. op[k].estado # "finalizado" /\ op'[k].estado = "finalizado"
    BY <1>1, <1>8 DEF RegistroDe
  <2>2. EnvioDe[k] = "autorizada"
    BY <1>1, <2>1, FinalizaAutorizado DEF EnvioDe
  <2> QED BY <1>4, <1>6, <1>8, <2>2 DEF Unica!Registrar
<1> QED BY <1>5, <1>7, <1>8

LEMMA EntornoRefina ==
    ASSUME InductivoCompleto, Entorno
    PROVE  (\E k \in Claves : Unica!Decidir(k)) \/ UNCHANGED Unica!varsUnica
<1> USE DEF db, fisco, memoria, cotas
<1>1. CASE \E r \in Solicitudes : ProcesarArca(r)
  BY <1>1, ProcesarDecide, ClaveTipo
<1>2. CASE ~\E r \in Solicitudes : ProcesarArca(r)
  <2>1. arca' = arca
    BY <1>2 DEF Entorno, EmisorExterno, Envejecer, CambiarPunto, VencerEvidencia, Reiniciar
  <2>2. \A k \in Claves : op'[k].estado = op[k].estado
    <3>1. op \in [Claves -> Operaciones]
      BY DEF InductivoCompleto, Inductivo, TypeOK
    <3>2. op' = op \/ \E k \in Claves : op' = [op EXCEPT ![k].vieja = TRUE]
      BY <1>2 DEF Entorno, EmisorExterno, Envejecer, CambiarPunto, VencerEvidencia, Reiniciar
    <3> QED BY <3>1, <3>2 DEF Operaciones
  <2>3. \A r \in Solicitudes :
           sol'[r].pc = "fin" /\ sol'[r].resp.clase = "exito"
              <=> sol[r].pc = "fin" /\ sol[r].resp.clase = "exito"
    <3>1. CASE Reiniciar
      <4> SUFFICES ASSUME NEW r \in Solicitudes
                   PROVE  sol'[r].pc = "fin" /\ sol'[r].resp.clase = "exito"
                             <=> sol[r].pc = "fin" /\ sol[r].resp.clase = "exito"
        OBVIOUS
      <4>1. sol[r] \in EstadosSolicitud
        BY DEF InductivoCompleto, Inductivo, TypeOK
      <4>2. CASE sol[r].pc \in {"inicio", "fin"}
        BY <3>1, <4>2 DEF Reiniciar
      <4>3. CASE sol[r].pc \notin {"inicio", "fin"}
        <5>1. sol'[r] = [sol[r] EXCEPT !.pc = "fin", !.pend = "nada",
                                       !.resp = Resp("cortada", 0)]
          BY <3>1, <4>3 DEF Reiniciar
        <5>2. sol'[r].resp = Resp("cortada", 0)
          BY <4>1, <5>1 DEF EstadosSolicitud
        <5>3. sol'[r].resp.clase # "exito"
          BY <5>2 DEF Resp
        <5> QED BY <4>3, <5>3
      <4> QED BY <4>2, <4>3
    <3>2. CASE sol' = sol
      BY <3>2
    <3> QED BY <1>2, <3>1, <3>2 DEF Entorno, EmisorExterno, Envejecer, CambiarPunto,
               VencerEvidencia
  <2>4. EnvioDe' = EnvioDe
    BY <2>1, EnvioIgual
  <2>5. RegistroDe' = RegistroDe
    BY <2>2 DEF RegistroDe
  <2>6. InformadaDe' = InformadaDe
    BY <2>3 DEF InformadaDe, K
  <2> QED BY <2>4, <2>5, <2>6 DEF Unica!varsUnica
<1> QED BY <1>1, <1>2

LEMMA InitRefina == Init => Unica!InitUnica
<1> SUFFICES ASSUME Init PROVE Unica!InitUnica
  OBVIOUS
<1>1. \A r \in Solicitudes : arca[r] = "no_enviada" /\ sol[r].pc = "inicio"
  BY DEF Init
<1>2. \A k \in Claves : op[k].estado = "inexistente"
  BY DEF Init, SinOperacion
<1>3. EnvioDe = [k \in Claves |-> "libre"]
  BY <1>1 DEF EnvioDe, Decidida
<1>4. RegistroDe = {} /\ InformadaDe = {}
  BY <1>1, <1>2 DEF RegistroDe, InformadaDe
<1> QED BY <1>3, <1>4 DEF Unica!InitUnica

LEMMA PasoRefina ==
    ASSUME InductivoCompleto, InductivoCompleto', [Next]_vars
    PROVE  [Unica!NextUnica]_Unica!varsUnica
<1>1. CASE Entorno
  BY <1>1, EntornoRefina DEF Unica!NextUnica
<1>2. CASE \E r \in Solicitudes : Paso(r)
  <2> PICK r \in Solicitudes : Paso(r)
    BY <1>2
  <2>1. CASE Solicitar(r)
    BY <2>1, SolicitarEnvia, ClaveTipo DEF Unica!NextUnica
  <2>2. CASE arca' = arca
    BY <2>2, PasoRegistra, ClaveTipo DEF Unica!NextUnica
  <2>3. Solicitar(r) \/ arca' = arca
    BY DEF Paso, Resolver, LeerOperacion, CrearOperacion, NoCrearOperacion, RecuperarCreacion,
       Reclamar, Confirmar, ResolverIncompleta, PublicarCandidata, Emitir, TomarCerrojo,
       Validar, Diagnosticar, ConsultarUltimo, Reservar, Preflight, MarcarArcaIniciada,
       RecibirRespuesta, SinResultado, Cerrar, Publicar, PublicarInesperada, Recuperar, fisco
  <2> QED BY <2>1, <2>2, <2>3
<1>3. CASE UNCHANGED vars
  BY <1>3 DEF vars, Unica!varsUnica, EnvioDe, RegistroDe, InformadaDe, Decidida, K
<1> QED BY <1>1, <1>2, <1>3 DEF Next

\* The promise to the client holds for any number of requests of a key: one
\* FECAESolicitar at most, one decision of ARCA, a finished key only when it
\* authorised, and success told only of a finished key.
THEOREM EmisionUnicaImplementada == Spec => RefinaEmisionUnica
<1>1. InductivoCompleto /\ InductivoCompleto' /\ [Next]_vars
         => [Unica!NextUnica]_Unica!varsUnica
  BY PasoRefina
<1> QED BY <1>1, InitRefina, CompletoSiempre, PTL
        DEF Spec, RefinaEmisionUnica, Unica!SpecUnica

=============================================================================
