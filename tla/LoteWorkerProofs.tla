--------------------------- MODULE LoteWorkerProofs ---------------------------
(****************************************************************************)
(* Proofs about LoteWorker, for any requests, keys, modes, groups, size of  *)
(* the sublote, outages and restarts: the rows keep their shape, what ARCA  *)
(* authorised stays known, and a published final answer is never replaced.  *)
(****************************************************************************)
EXTENDS LoteWorkerInv, TLAPS

----------------------------------------------------------------------------
(* Shapes of steps.                                                         *)

\* The part of the invariant that says nothing of the actors
TablasSanas ==
    /\ lote \in FilasLote
    /\ grupo \in [Grupos -> EstadosGrupo]
    /\ op \in [Claves -> FilasOperacion]
    /\ guardas \in Seq(FilasGuarda)
    /\ GuardasSanas
    /\ ColaConDueno
    /\ AbiertaSinRespuesta

\* A lote with an owner keeps one
DuenoSigue == lote.dueno \in Claves => lote'.dueno \in Claves

\* What another actor may do to a guard: never undo what it was told
Suave(x, y) ==
    /\ x.arca \in {"no_enviada", "procesada"} => y.arca = x.arca /\ y.aut = x.aut
    /\ x.fase \in FasesCruzadas => y.fase \in FasesCruzadas

\* Guards other than i only change in that way, and none disappears
GuardasSiguen(i) ==
    /\ Len(guardas) <= Len(guardas')
    /\ \A j \in DOMAIN guardas \ {i} : Suave(guardas[j], guardas'[j])

\* An actor that moved remembers the guard it had, the one it reserved or none
GuardaSigue(a, m) ==
    m.guarda > 0 => m.guarda = mem[a].guarda \/ m.guarda > Len(guardas)

LEMMA TablasDelInvariante == InductivoLote => TablasSanas
BY DEF InductivoLote, FilasEnForma, TablasSanas

LEMMA InvarianteDeTablas ==
    TablasSanas /\ mem \in [Actores -> Memorias] /\ MemoriasSanas /\ GuardaPropia
        => InductivoLote
BY DEF InductivoLote, FilasEnForma, TablasSanas

\* The memory of an actor that does not move stays right
LEMMA MemoriaAjena ==
    ASSUME NEW a \in Actores, NEW m \in Memorias, MemoriaDe(a, m, guardas, lote),
           guardas \in Seq(FilasGuarda), DuenoSigue, NEW i, GuardasSiguen(i),
           m.guarda > 0 => m.guarda # i
    PROVE  MemoriaDe(a, m, guardas', lote')
<1>1. m.guarda \in Int /\ Len(guardas) \in Nat /\ DOMAIN guardas = 1..Len(guardas)
  BY DEF Memorias
<1>2. m.guarda \in -1..Len(guardas) /\ Len(guardas) <= Len(guardas')
  BY DEF MemoriaDe, GuardasSiguen
<1>3. ASSUME m.guarda > 0
      PROVE  Suave(guardas[m.guarda], guardas'[m.guarda])
  BY <1>1, <1>2, <1>3 DEF GuardasSiguen
<1>4. m.guarda \in -1..Len(guardas')
  BY <1>1, <1>2
<1>5. m.guarda > 0 =>
        /\ guardas[m.guarda].arca = "no_enviada" => guardas'[m.guarda].arca = "no_enviada"
        /\ guardas[m.guarda].arca = "procesada" =>
              /\ guardas'[m.guarda].arca = "procesada"
              /\ guardas'[m.guarda].aut = guardas[m.guarda].aut
        /\ guardas[m.guarda].fase \in FasesCruzadas => guardas'[m.guarda].fase \in FasesCruzadas
  BY <1>3 DEF Suave
<1> QED BY <1>4, <1>5 DEF MemoriaDe, DuenoSigue, PorEnviar

\* One actor moves: the invariant rests on the tables and on its own memory
LEMMA Avanza ==
    ASSUME InductivoLote, NEW a \in Actores, NEW x \in Memorias,
           mem' = [mem EXCEPT ![a] = x],
           TablasSanas', DuenoSigue, GuardasSiguen(mem[a].guarda),
           MemoriaDe(a, x, guardas', lote'), GuardaSigue(a, x)
    PROVE  InductivoLote'
<1>1. mem \in [Actores -> Memorias] /\ guardas \in Seq(FilasGuarda)
  BY DEF InductivoLote, FilasEnForma
<1>2. \A b \in Actores : b # a => mem'[b] = mem[b]
  BY <1>1
<1>3. mem'[a] = x
  BY <1>1
<1>4. mem' \in [Actores -> Memorias]
  BY <1>1
<1>5. ASSUME NEW b \in Actores, b # a
      PROVE  MemoriaDe(b, mem[b], guardas', lote')
  <2>1. mem[b] \in Memorias /\ MemoriaDe(b, mem[b], guardas, lote)
    BY <1>1 DEF InductivoLote, MemoriasSanas
  <2>2. mem[b].guarda > 0 => mem[b].guarda # mem[a].guarda
    BY <1>5 DEF InductivoLote, GuardaPropia
  <2> QED BY <1>1, <2>1, <2>2, MemoriaAjena
<1>6. MemoriasSanas'
  BY <1>2, <1>3, <1>5 DEF MemoriasSanas
<1>7. \A b \in Actores : mem[b].guarda \in Int /\ mem[b].guarda <= Len(guardas)
  BY <1>1 DEF InductivoLote, MemoriasSanas, MemoriaDe, Memorias
<1>8. \A b \in Actores : x.guarda > 0 /\ x.guarda = mem[b].guarda => b = a
  BY <1>1, <1>7 DEF InductivoLote, GuardaPropia, GuardaSigue, Memorias
<1>9. GuardaPropia'
  BY <1>2, <1>3, <1>8 DEF InductivoLote, GuardaPropia
<1> QED BY <1>4, <1>6, <1>9, InvarianteDeTablas DEF InductivoLote, TablasSanas, FilasEnForma, GuardasSanas, ColaConDueno, AbiertaSinRespuesta

----------------------------------------------------------------------------
(* Moves of one actor.                                                      *)

RespuestasHttp ==
    Respuestas \cup {"ninguna", "conflicto", "elegibilidad", "reintentable",
                     "en_progreso", "en_curso", "post_arca", "bloqueado",
                     "error_interno", "cortada"}

\* Every step has a name, cited one by one
LEMMA PasosConocidos ==
    /\ "inicio" \in Pasos /\ "resolver" \in Pasos /\ "recuperar_creacion" \in Pasos
    /\ "en_curso" \in Pasos /\ "preparar" \in Pasos /\ "encolar" \in Pasos
    /\ "tomar" \in Pasos /\ "releer" \in Pasos /\ "capacidad" \in Pasos
    /\ "verificar" \in Pasos /\ "reservar" \in Pasos /\ "marcar" \in Pasos
    /\ "solicitar" \in Pasos /\ "esperar" \in Pasos /\ "aplicar" \in Pasos
    /\ "terminar" \in Pasos /\ "publicar" \in Pasos /\ "guardar_error" \in Pasos
    /\ "recuperar" \in Pasos /\ "descartar" \in Pasos /\ "bloquear" \in Pasos
    /\ "fin" \in Pasos
BY DEF Pasos

LEMMA InicialEnForma ==
    /\ \A pc \in {"inicio", "fin"} :
          /\ Inicial(pc) \in Memorias
          /\ \A r \in RespuestasHttp : [Inicial(pc) EXCEPT !.resp = r] \in Memorias
    /\ Nadie \notin Claves
<1>1. LoteValidado \in FilasLote
  BY DEF LoteValidado, FilasLote, EstadosLote, Procesables
<1>2. ASSUME NEW pc \in {"inicio", "fin"}
      PROVE  /\ Inicial(pc) \in Memorias
             /\ \A r \in RespuestasHttp : [Inicial(pc) EXCEPT !.resp = r] \in Memorias
  <2>1. Inicial(pc) \in Memorias
    BY <1>1, <1>2 DEF Inicial, Memorias, Pasos
  <2>2. ASSUME NEW r \in RespuestasHttp
        PROVE  [Inicial(pc) EXCEPT !.resp = r] \in Memorias
    BY <2>1 DEF Memorias, RespuestasHttp
  <2> QED BY <2>1, <2>2
<1> QED BY <1>2, LoteAssumption

\* An actor that starts again, or has answered, remembers nothing
LEMMA MemoriaInicial ==
    ASSUME NEW a \in Actores, NEW gs \in Seq(FilasGuarda), NEW l, NEW r
    PROVE  /\ MemoriaDe(a, Inicial("inicio"), gs, l)
           /\ a # Worker => MemoriaDe(a, [Inicial("fin") EXCEPT !.resp = r], gs, l)
BY LoteAssumption DEF MemoriaDe, Inicial, SinClave, PorEnviar, LoteValidado

\* The answer is sent: only the tables matter
LEMMA Termina ==
    ASSUME InductivoLote, NEW a \in Actores, NEW r \in RespuestasHttp, Fin(a, r),
           TablasSanas', DuenoSigue, GuardasSiguen(mem[a].guarda)
    PROVE  InductivoLote'
<1> DEFINE x == IF a = Worker THEN Inicial("inicio")
                ELSE [Inicial("fin") EXCEPT !.resp = r]
<1>1. mem' = [mem EXCEPT ![a] = x]
  BY DEF Fin
<1>2. x \in Memorias
  BY InicialEnForma
<1>3. guardas' \in Seq(FilasGuarda)
  BY DEF TablasSanas
<1>4. MemoriaDe(a, x, guardas', lote')
  BY <1>3, MemoriaInicial
<1>5. x.guarda = 0
  BY DEF Inicial
<1>6. GuardaSigue(a, x)
  BY <1>5 DEF GuardaSigue
<1> HIDE DEF x
<1> QED BY <1>1, <1>2, <1>4, <1>6, Avanza

\* Steps that ask nothing of the guard in memory
Libres == {"recuperar_creacion", "en_curso", "preparar", "encolar", "tomar", "releer", "capacidad",
           "verificar", "reservar", "terminar", "publicar", "guardar_error", "recuperar"}

\* The actor goes on with the same memory and a key in hand
LEMMA Sigue ==
    ASSUME InductivoLote, NEW a \in Actores, NEW pc \in Libres, Ir(a, pc),
           mem[a].op \in Claves, mem[a].pc \notin {"inicio", "bloquear"},
           TablasSanas', DuenoSigue, GuardasSiguen(mem[a].guarda)
    PROVE  InductivoLote'
<1> DEFINE x == [mem[a] EXCEPT !.pc = pc]
<1>1. mem \in [Actores -> Memorias] /\ MemoriaDe(a, mem[a], guardas, lote)
  BY DEF InductivoLote, FilasEnForma, MemoriasSanas
<1>2. mem' = [mem EXCEPT ![a] = x]
  BY <1>1 DEF Ir
<1>3. mem[a] \in Memorias /\ pc \in Pasos
  BY <1>1 DEF Libres, Pasos
<1>4. x \in Memorias
  BY <1>3 DEF Memorias
<1>5. x.pc = pc /\ x.op = mem[a].op /\ x.guarda = mem[a].guarda /\ x.vista = mem[a].vista
  BY <1>3 DEF Memorias
<1> HIDE DEF x
<1>6. Len(guardas) <= Len(guardas') /\ x.guarda \in Int /\ Len(guardas) \in Nat
      /\ Len(guardas') \in Nat
  BY <1>4 DEF GuardasSiguen, Memorias, InductivoLote, FilasEnForma, TablasSanas
<1>7. MemoriaDe(a, x, guardas', lote')
  BY <1>1, <1>5, <1>6 DEF MemoriaDe, Libres, PorEnviar, DuenoSigue
<1>8. GuardaSigue(a, x)
  BY <1>5 DEF GuardaSigue
<1> QED BY <1>2, <1>4, <1>7, <1>8, Avanza

\* An outage, a lost CAS: the actor ends or goes to its recovery
LEMMA Cortado ==
    ASSUME InductivoLote, NEW a \in Actores, AnteCorte(a),
           mem[a].op \in Claves, mem[a].pc \notin {"inicio", "bloquear"},
           TablasSanas', DuenoSigue, GuardasSiguen(mem[a].guarda)
    PROVE  InductivoLote'
<1>1. CASE mem[a].iniciada
  BY <1>1, Termina DEF AnteCorte, RespuestasHttp
<1>2. CASE ~mem[a].iniciada
  BY <1>2, Sigue DEF AnteCorte, Libres
<1> QED BY <1>1, <1>2

----------------------------------------------------------------------------
(* Changes of the tables.                                                   *)

LEMMA GuardasQuietas == guardas' = guardas => \A i : GuardasSiguen(i)
<1> SUFFICES ASSUME guardas' = guardas, NEW i  PROVE GuardasSiguen(i)
  OBVIOUS
<1>1. \A x : Suave(x, x)
  BY DEF Suave
<1>2. Len(guardas) <= Len(guardas')
  OBVIOUS
<1> QED BY <1>1, <1>2 DEF GuardasSiguen

LEMMA TablasQuietas ==
    ASSUME InductivoLote, UNCHANGED tablas
    PROVE  TablasSanas' /\ DuenoSigue /\ \A i : GuardasSiguen(i)
BY GuardasQuietas, TablasDelInvariante DEF tablas, TablasSanas, DuenoSigue, GuardasSanas, ColaConDueno,
     AbiertaSinRespuesta

\* Everything but the guards may change
LEMMA TablasEscritas ==
    ASSUME InductivoLote, guardas' = guardas, lote' \in FilasLote,
           grupo' \in [Grupos -> EstadosGrupo], op' \in [Claves -> FilasOperacion],
           ColaConDueno', AbiertaSinRespuesta', DuenoSigue
    PROVE  TablasSanas' /\ \A i : GuardasSiguen(i)
BY GuardasQuietas DEF InductivoLote, FilasEnForma, TablasSanas, GuardasSanas

----------------------------------------------------------------------------
(* What the writes of the code leave in a row.                              *)

LEMMA EscribirForma ==
    ASSUME NEW l \in FilasLote, NEW v \in FilasLote, NEW e \in EstadosLote
    PROVE  /\ Escribir(l, v, e) \in FilasLote
           /\ Escribir(l, v, e).dueno = l.dueno
           /\ Escribir(l, v, e).estado \in {l.estado, e}
BY DEF Escribir, FilasLote

LEMMA DuenoForma ==
    ASSUME NEW l \in FilasLote, NEW v \in FilasLote, NEW k \in Claves,
           NEW m \in SUBSET Grupos, v.dueno \in Claves => l.dueno \in Claves
    PROVE  /\ EscribirDueno(l, v, k, m) \in FilasLote
           /\ EscribirDueno(l, v, k, m).estado = l.estado
           /\ EscribirDueno(l, v, k, m).dueno \in Claves
BY DEF EscribirDueno, FilasLote

LEMMA EstadoLoteForma ==
    ASSUME NEW gr
    PROVE  EstadoLote(gr) \in EstadosLote \ Activos
<1> DEFINE R == Con(gr, "requiere_reconciliacion")
           A == Con(gr, "autorizado")
           D == Con(gr, "descartado")
           V == Con(gr, "validado")
<1> HIDE DEF R, A, D, V
<1>1. EstadoLote(gr) =
        CASE R # {} -> "requiere_reconciliacion"
          [] A = Grupos -> "completado"
          [] A \cup D = Grupos -> "cerrado_con_descartes"
          [] A # {} -> "autorizado_parcial"
          [] V # {} -> "validado"
          [] OTHER -> "fallido"
  BY DEF EstadoLote, R, A, D, V
<1> QED BY <1>1 DEF EstadosLote, Activos, Procesables, Terminales, Cerrados

LEMMA RecalculadoForma ==
    ASSUME NEW e \in EstadosLote, NEW gr
    PROVE  /\ Recalculado(e, gr) \in EstadosLote
           /\ Recalculado(e, gr) \in Activos => Recalculado(e, gr) = e
BY EstadoLoteForma DEF Recalculado

\* From a copy that is right about the owner, the recount of a copy's state
LEMMA RecalculoEscrito ==
    ASSUME InductivoLote, NEW v \in FilasLote, NEW gr,
           lote' = Escribir(lote, v, Recalculado(v.estado, gr))
    PROVE  lote' \in FilasLote /\ ColaConDueno' /\ DuenoSigue
<1>1. lote \in FilasLote /\ v.estado \in EstadosLote /\ ColaConDueno
  BY DEF InductivoLote, FilasEnForma, FilasLote
<1>2. Recalculado(v.estado, gr) \in EstadosLote
      /\ (Recalculado(v.estado, gr) \in Activos => Recalculado(v.estado, gr) = v.estado)
  BY <1>1, RecalculadoForma
<1> DEFINE e == Recalculado(v.estado, gr)
<1> HIDE DEF e
<1>3. lote' = Escribir(lote, v, e) /\ e \in EstadosLote /\ (e \in Activos => e = v.estado)
  BY <1>2 DEF e
<1>4. lote' \in FilasLote /\ lote'.dueno = lote.dueno
  <2>1. Escribir(lote, v, e) \in FilasLote /\ Escribir(lote, v, e).dueno = lote.dueno
    BY <1>1, <1>3, EscribirForma
  <2> QED BY <2>1, <1>3
<1>5. lote'.estado = IF v.estado = e THEN lote.estado ELSE e
  BY <1>1, <1>3 DEF Escribir, FilasLote
<1>6. lote'.estado \in Activos => lote.estado \in Activos
  BY <1>3, <1>5
<1> QED BY <1>1, <1>4, <1>6 DEF ColaConDueno, DuenoSigue

\* The lote gets state e, which is not one of a queued or running lote
LEMMA LoteAsentado ==
    ASSUME InductivoLote, NEW l \in FilasLote, NEW e \in EstadosLote \ Activos,
           NEW b \in BOOLEAN, l.dueno = lote.dueno,
           lote' = [l EXCEPT !.estado = e, !.vieja = b]
    PROVE  lote' \in FilasLote /\ ColaConDueno' /\ DuenoSigue
<1>1. lote' \in FilasLote /\ lote'.dueno = l.dueno /\ lote'.estado = e
  BY DEF FilasLote
<1> QED BY <1>1 DEF ColaConDueno, DuenoSigue

\* The lote stays or becomes active with an owner
LEMMA LoteActivo ==
    ASSUME InductivoLote, lote' \in FilasLote, lote'.dueno \in Claves
    PROVE  ColaConDueno' /\ DuenoSigue
BY DEF ColaConDueno, DuenoSigue

LEMMA ResponderForma ==
    ASSUME InductivoLote, NEW k, NEW r \in Respuestas,
           NEW e \in EstadosOperacion \ {"inexistente", "interrumpida_pre_arca"},
           ResponderOperacion(k, e, r)
    PROVE  op' \in [Claves -> FilasOperacion] /\ AbiertaSinRespuesta'
<1>1. op \in [Claves -> FilasOperacion] /\ AbiertaSinRespuesta
  BY DEF InductivoLote, FilasEnForma
<1>2. /\ op' \in [Claves -> FilasOperacion]
      /\ \A x \in Claves : x # k => op'[x] = op[x]
      /\ k \in Claves => op'[k].estado = e
  BY <1>1 DEF ResponderOperacion, FilasOperacion
<1>3. ASSUME NEW x \in Claves, op'[x].estado \in {"inexistente", "interrumpida_pre_arca"}
      PROVE  op'[x].resp = "nula"
  <2>1. x # k
    BY <1>2, <1>3
  <2> QED BY <1>1, <1>2, <1>3, <2>1 DEF AbiertaSinRespuesta
<1> QED BY <1>2, <1>3 DEF AbiertaSinRespuesta

\* An operation that may be created or reclaimed again has SQL NULL as response
LEMMA AbrirForma ==
    ASSUME InductivoLote, NEW k \in Claves, NEW e \in EstadosOperacion,
           op[k].resp = "nula", op' = [op EXCEPT ![k].estado = e]
    PROVE  op' \in [Claves -> FilasOperacion] /\ AbiertaSinRespuesta'
<1>1. op \in [Claves -> FilasOperacion] /\ AbiertaSinRespuesta
  BY DEF InductivoLote, FilasEnForma
<1>2. /\ op' \in [Claves -> FilasOperacion]
      /\ \A x \in Claves : x # k => op'[x] = op[x]
      /\ op'[k].resp = "nula"
  BY <1>1 DEF FilasOperacion
<1> QED BY <1>1, <1>2 DEF AbiertaSinRespuesta

\* A queued lote: the operation gets the marker of the worker
LEMMA InmovilizarForma ==
    ASSUME InductivoLote, NEW S, Inmovilizar(S)
    PROVE  /\ lote' \in FilasLote /\ grupo' \in [Grupos -> EstadosGrupo]
           /\ ColaConDueno' /\ DuenoSigue
<1>1. lote \in FilasLote /\ grupo \in [Grupos -> EstadosGrupo]
  BY DEF InductivoLote, FilasEnForma
<1>2. "requiere_reconciliacion" \in EstadosLote \ Activos /\ FALSE \in BOOLEAN
  BY DEF EstadosLote, Terminales, Activos
<1>3. lote' \in FilasLote /\ ColaConDueno' /\ DuenoSigue
  BY <1>1, <1>2, LoteAsentado DEF Inmovilizar
<1>4. grupo' \in [Grupos -> EstadosGrupo]
  BY <1>1 DEF Inmovilizar, EstadosGrupo
<1> QED BY <1>3, <1>4

----------------------------------------------------------------------------
(* Guards.                                                                  *)

\* One guard changes and stays sound
LEMMA GuardaCambia ==
    ASSUME InductivoLote, NEW i \in DOMAIN guardas, NEW x \in FilasGuarda, GuardaSana(x),
           guardas' = [guardas EXCEPT ![i] = x]
    PROVE  guardas' \in Seq(FilasGuarda) /\ GuardasSanas' /\ GuardasSiguen(i)
           /\ guardas'[i] = x /\ Len(guardas') = Len(guardas)
<1>1. guardas \in Seq(FilasGuarda) /\ GuardasSanas
  BY DEF InductivoLote, FilasEnForma
<1>2. guardas' \in Seq(FilasGuarda) /\ Len(guardas') = Len(guardas)
      /\ DOMAIN guardas' = DOMAIN guardas
  BY <1>1
<1>3. guardas'[i] = x /\ \A j \in DOMAIN guardas \ {i} : guardas'[j] = guardas[j]
  BY <1>1
<1>4. GuardasSanas'
  BY <1>1, <1>2, <1>3 DEF GuardasSanas
<1>5. GuardasSiguen(i)
  BY <1>1, <1>2, <1>3 DEF GuardasSiguen, Suave
<1> QED BY <1>2, <1>3, <1>4, <1>5

LEMMA GuardaEnForma ==
    ASSUME InductivoLote, NEW i \in DOMAIN guardas
    PROVE  guardas[i] \in FilasGuarda /\ GuardaSana(guardas[i])
BY DEF InductivoLote, FilasEnForma, GuardasSanas

\* A closure keeps the CAEs: before ARCA there are none, after it they are those
\* of the answer
LEMMA CerradaForma ==
    ASSUME InductivoLote, NEW i \in DOMAIN guardas, NEW fase, NEW aut,
           \/ fase = "cerrada_pre_arca" /\ guardas[i].arca = "no_enviada"
           \/ fase = "cerrada_terminal" /\ guardas[i].arca = "procesada"
              /\ aut = guardas[i].aut
           \/ fase = "cerrada_terminal" /\ guardas[i].arca = "rechazo_global",
           guardas' = GuardaCerrada(i, fase, aut)
    PROVE  guardas' \in Seq(FilasGuarda) /\ GuardasSanas' /\ GuardasSiguen(i)
<1> DEFINE y == guardas[i]
           t == [g \in y.grupos |->
                    IF fase = "cerrada_pre_arca" THEN "fallido_verificado"
                    ELSE IF g \in aut THEN "autorizado" ELSE "rechazado_arca"]
           x == [y EXCEPT !.fase = fase, !.intento = t]
<1>1. y \in FilasGuarda /\ GuardaSana(y) /\ guardas \in Seq(FilasGuarda)
  BY GuardaEnForma DEF InductivoLote, FilasEnForma
<1>2. guardas' = [guardas EXCEPT ![i] = x]
  BY <1>1 DEF GuardaCerrada
<1>3. y.grupos \in SUBSET Grupos /\ fase \in {"cerrada_pre_arca", "cerrada_terminal"}
  BY <1>1 DEF FilasGuarda
<1>4. t \in [y.grupos -> EstadosIntentoLote]
      /\ (fase = "cerrada_terminal" => \A g \in aut \cap y.grupos : t[g] = "autorizado")
  BY <1>3 DEF EstadosIntentoLote
<1> HIDE DEF t, y
<1>5. x \in FilasGuarda
  BY <1>1, <1>3, <1>4 DEF FilasGuarda, FasesPrevias
<1>6. x.fase = fase /\ x.intento = t /\ x.arca = y.arca /\ x.aut = y.aut
      /\ x.grupos = y.grupos
  BY <1>1 DEF FilasGuarda
<1> HIDE DEF x
<1>7. y.aut \subseteq y.grupos /\ (y.arca # "procesada" => y.aut = {})
  BY <1>1 DEF GuardaSana
<1>8. \/ fase = "cerrada_pre_arca" /\ y.arca = "no_enviada"
      \/ fase = "cerrada_terminal" /\ y.arca = "procesada" /\ aut = y.aut
      \/ fase = "cerrada_terminal" /\ y.arca = "rechazo_global"
  BY DEF y
<1>9. CaeDe(x)
  BY <1>4, <1>6, <1>7, <1>8 DEF CaeDe
<1>10. GuardaSana(x)
  BY <1>4, <1>6, <1>7, <1>8, <1>9 DEF GuardaSana, FasesPrevias
<1> QED BY <1>2, <1>5, <1>10, GuardaCambia

\* Of one guard: a new phase that agrees with what ARCA was asked
LEMMA FaseForma ==
    ASSUME InductivoLote, NEW i \in DOMAIN guardas, NEW f \in FasesCruzadas,
           guardas' = [guardas EXCEPT ![i].fase = f]
    PROVE  /\ guardas' \in Seq(FilasGuarda) /\ GuardasSanas' /\ GuardasSiguen(i)
           /\ guardas'[i].fase = f /\ guardas'[i].arca = guardas[i].arca
           /\ Len(guardas') = Len(guardas)
<1> DEFINE y == guardas[i]
           x == [y EXCEPT !.fase = f]
<1>1. y \in FilasGuarda /\ GuardaSana(y) /\ guardas \in Seq(FilasGuarda)
  BY GuardaEnForma DEF InductivoLote, FilasEnForma
<1>2. guardas' = [guardas EXCEPT ![i] = x]
  BY <1>1
<1> HIDE DEF y
<1>3. x \in FilasGuarda /\ x.fase = f /\ x.arca = y.arca /\ x.aut = y.aut
      /\ x.intento = y.intento /\ x.grupos = y.grupos
  BY <1>1 DEF FilasGuarda, FasesCruzadas
<1> HIDE DEF x
<1>4. GuardaSana(x)
  BY <1>1, <1>3 DEF GuardaSana, CaeDe, FasesCruzadas, FasesPrevias, FasesActivas
<1> QED BY <1>2, <1>3, <1>4, GuardaCambia DEF y

\* Recovery of a guard: uncertain if it may be in ARCA, closed if it never went
LEMMA RecuperadaForma ==
    ASSUME InductivoLote, NEW k, NEW i, NEW z, NEW r,
           r = ResultadoGuarda(k, i, z), r # "no_recuperable",
           guardas' = GuardaRecuperada(i, r)
    PROVE  guardas' \in Seq(FilasGuarda) /\ GuardasSanas' /\ GuardasSiguen(i)
<1>1. i \in DOMAIN guardas
  BY DEF ResultadoGuarda, GuardasDe
<1> DEFINE y == guardas[i]
<1>2. y \in FilasGuarda /\ GuardaSana(y) /\ guardas \in Seq(FilasGuarda)
  BY <1>1, GuardaEnForma DEF InductivoLote, FilasEnForma
<1>3. CASE r = "ambigua"
  <2> DEFINE t == [g \in y.grupos |->
                     IF y.intento[g] = "en_proceso" THEN "requiere_reconciliacion"
                     ELSE y.intento[g]]
             x == [y EXCEPT !.fase = "requiere_reconciliacion", !.intento = t]
  <2>1. guardas' = [guardas EXCEPT ![i] = x]
    BY <1>1, <1>2, <1>3 DEF GuardaRecuperada
  <2>2. y.fase \in FasesCruzadas
    BY <1>3 DEF ResultadoGuarda, FasesCruzadas
  <2>3. y.grupos \in SUBSET Grupos /\ y.intento \in [y.grupos -> EstadosIntentoLote]
    BY <1>2 DEF FilasGuarda, GuardaSana
  <2>4. t \in [y.grupos -> EstadosIntentoLote]
    BY <2>3 DEF EstadosIntentoLote
  <2> HIDE DEF t, y
  <2>5. x \in FilasGuarda
    BY <1>2, <2>3, <2>4 DEF FilasGuarda, FasesCruzadas
  <2>6. x.fase = "requiere_reconciliacion" /\ x.intento = t /\ x.arca = y.arca
        /\ x.aut = y.aut /\ x.grupos = y.grupos
    BY <1>2 DEF FilasGuarda
  <2> HIDE DEF x
  <2>7. GuardaSana(x)
    BY <1>2, <2>2, <2>4, <2>6
       DEF GuardaSana, CaeDe, FasesCruzadas, FasesPrevias, FasesActivas
  <2> QED BY <1>1, <2>1, <2>5, <2>7, GuardaCambia
<1>4. CASE r # "ambigua"
  <2>1. y.fase \in FasesPrevias
    BY <1>4 DEF ResultadoGuarda, FasesPrevias
  <2>2. y.arca = "no_enviada"
    BY <1>2, <2>1 DEF GuardaSana
  <2>3. guardas' = GuardaCerrada(i, "cerrada_pre_arca", {})
    BY <1>4 DEF GuardaRecuperada
  <2> QED BY <1>1, <2>2, <2>3, CerradaForma
<1> QED BY <1>3, <1>4

\* An uncertain answer: guards of the key become or stay uncertain
LEMMA InciertasForma ==
    ASSUME InductivoLote, NEW k, NEW S, guardas' = GuardasInciertas(k, S)
    PROVE  guardas' \in Seq(FilasGuarda) /\ GuardasSanas' /\ \A i : GuardasSiguen(i)
<1> DEFINE t(j) == [g \in guardas[j].grupos |->
                      IF g \in S THEN "requiere_reconciliacion"
                      ELSE guardas[j].intento[g]]
           f(j) == IF guardas[j].fase = "arca_iniciada" THEN "requiere_reconciliacion"
                   ELSE guardas[j].fase
           x(j) == [guardas[j] EXCEPT !.fase = f(j), !.intento = t(j)]
           n(j) == IF j \notin GuardasDe(k) THEN guardas[j] ELSE x(j)
<1>1. guardas \in Seq(FilasGuarda) /\ DOMAIN guardas = 1..Len(guardas)
      /\ Len(guardas) \in Nat
  BY DEF InductivoLote, FilasEnForma
<1>2. ASSUME NEW j \in DOMAIN guardas
      PROVE  /\ n(j) \in FilasGuarda /\ GuardaSana(n(j)) /\ Suave(guardas[j], n(j))
             /\ j \in GuardasDe(k) =>
                  n(j) = [guardas[j] EXCEPT
                !.fase = IF @ = "arca_iniciada" THEN "requiere_reconciliacion" ELSE @,
                !.intento = [g \in guardas[j].grupos |->
                    IF g \in S THEN "requiere_reconciliacion" ELSE @[g]]]
  <2> DEFINE y == guardas[j]
  <2>1. y \in FilasGuarda /\ GuardaSana(y)
    BY GuardaEnForma
  <2>2. y.grupos \in SUBSET Grupos /\ y.intento \in [y.grupos -> EstadosIntentoLote]
    BY <2>1 DEF FilasGuarda, GuardaSana
  <2>3. t(j) \in [y.grupos -> EstadosIntentoLote]
        /\ \A g \in y.grupos : t(j)[g] \in {"requiere_reconciliacion", y.intento[g]}
    BY <2>2 DEF EstadosIntentoLote
  <2>4. f(j) \in {y.fase, "requiere_reconciliacion"} /\ (f(j) # y.fase => y.fase = "arca_iniciada")
    OBVIOUS
  <2>5. j \in GuardasDe(k) => n(j) = x(j)
    OBVIOUS
  <2>6. j \notin GuardasDe(k) => n(j) = y
    OBVIOUS
  <2>7. x(j) = [guardas[j] EXCEPT
                !.fase = IF @ = "arca_iniciada" THEN "requiere_reconciliacion" ELSE @,
                !.intento = [g \in guardas[j].grupos |->
                    IF g \in S THEN "requiere_reconciliacion" ELSE @[g]]]
    OBVIOUS
  <2> DEFINE u == t(j)
             w == f(j)
  <2>8. x(j) = [y EXCEPT !.fase = w, !.intento = u]
    OBVIOUS
  <2>9. u \in [y.grupos -> EstadosIntentoLote]
        /\ (\A g \in y.grupos : u[g] \in {"requiere_reconciliacion", y.intento[g]})
        /\ w \in {y.fase, "requiere_reconciliacion"}
        /\ (w # y.fase => y.fase = "arca_iniciada")
    BY <2>3, <2>4
  <2> DEFINE v == x(j)
  <2>10. v = [y EXCEPT !.fase = w, !.intento = u]
    BY <2>8
  <2> HIDE DEF u, w, y, v
  <2>11. v \in FilasGuarda
    <3> DEFINE Fases == FasesPrevias \cup FasesCruzadas \cup {"cerrada_terminal"}
               Intentos == UNION {[T -> EstadosIntentoLote] : T \in SUBSET Grupos}
    <3>1. w \in Fases
      BY <2>1, <2>9 DEF FilasGuarda, FasesCruzadas
    <3>2. u \in Intentos
      BY <2>1, <2>9 DEF FilasGuarda
    <3>3. FilasGuarda = [op : Claves, grupos : SUBSET Grupos, fase : Fases,
             intento : Intentos,
             arca : {"no_enviada", "en_vuelo", "procesada", "rechazo_global"},
             aut : SUBSET Grupos]
      BY DEF FilasGuarda
    <3> HIDE DEF Fases, Intentos
    <3> QED BY <2>1, <2>10, <3>1, <3>2, <3>3
  <2>12. v.fase = w /\ v.intento = u /\ v.arca = y.arca /\ v.aut = y.aut
         /\ v.grupos = y.grupos
    BY <2>1, <2>10 DEF FilasGuarda
  <2>13. GuardaSana(v)
    BY <2>1, <2>9, <2>12 DEF GuardaSana, CaeDe, FasesCruzadas, FasesPrevias, FasesActivas
  <2>14. Suave(y, v) /\ Suave(y, y)
    BY <2>9, <2>12 DEF Suave, FasesCruzadas
  <2> HIDE DEF x, n
  <2> QED BY <2>1, <2>5, <2>6, <2>7, <2>11, <2>13, <2>14 DEF y, v
<1>3. guardas' = [j \in DOMAIN guardas |-> n(j)]
  <2>1. GuardasInciertas(k, S) =
          [j \in DOMAIN guardas |->
            IF j \notin GuardasDe(k) THEN guardas[j]
            ELSE [guardas[j] EXCEPT
                !.fase = IF @ = "arca_iniciada" THEN "requiere_reconciliacion" ELSE @,
                !.intento = [g \in guardas[j].grupos |->
                    IF g \in S THEN "requiere_reconciliacion" ELSE @[g]]]]
    BY DEF GuardasInciertas
  <2> QED BY <2>1
<1> HIDE DEF n
<1>4. DOMAIN guardas' = 1..Len(guardas) /\ \A j \in DOMAIN guardas : guardas'[j] = n(j)
  BY <1>1, <1>3
<1>5. guardas' \in Seq(FilasGuarda) /\ Len(guardas') = Len(guardas)
      /\ DOMAIN guardas' = DOMAIN guardas
  <2> DEFINE m == Len(guardas)
  <2>1. m \in Nat /\ guardas' = [j \in 1..m |-> n(j)]
        /\ \A j \in 1..m : n(j) \in FilasGuarda
    BY <1>1, <1>2, <1>3
  <2> HIDE DEF m
  <2>2. guardas' \in Seq(FilasGuarda) /\ Len(guardas') = m
    BY <2>1
  <2> QED BY <2>2, <1>1, <1>4 DEF m
<1>6. GuardasSanas'
  BY <1>2, <1>4, <1>5 DEF GuardasSanas
<1>7. \A i : GuardasSiguen(i)
  <2>1. \A j \in DOMAIN guardas : Suave(guardas[j], guardas'[j])
    BY <1>2, <1>4
  <2>2. Len(guardas) <= Len(guardas')
    BY <1>1, <1>5
  <2> QED BY <2>1, <2>2 DEF GuardasSiguen
<1> QED BY <1>5, <1>6, <1>7

----------------------------------------------------------------------------
(* Steps of a request.                                                      *)

LEMMA Consta ==
    ASSUME InductivoLote, NEW a \in Actores
    PROVE  /\ mem \in [Actores -> Memorias] /\ mem[a] \in Memorias
           /\ MemoriaDe(a, mem[a], guardas, lote)
           /\ lote \in FilasLote /\ grupo \in [Grupos -> EstadosGrupo]
           /\ op \in [Claves -> FilasOperacion] /\ guardas \in Seq(FilasGuarda)
           /\ DOMAIN guardas = 1..Len(guardas) /\ Len(guardas) \in Nat
BY DEF InductivoLote, FilasEnForma, MemoriasSanas

LEMMA ClaveEnMano ==
    ASSUME InductivoLote, NEW a \in Actores, mem[a].pc \notin SinClave,
           a # Worker \/ mem[a].pc # "en_curso"
    PROVE  mem[a].op \in Claves /\ mem[a].pc \notin {"inicio", "bloquear"}
BY Consta DEF MemoriaDe, SinClave

\* Only the operation and the memory of the actor change
LEMMA OperacionEscrita ==
    ASSUME InductivoLote, UNCHANGED <<lote, grupo, guardas>>,
           op' \in [Claves -> FilasOperacion], AbiertaSinRespuesta'
    PROVE  TablasSanas' /\ DuenoSigue /\ \A i : GuardasSiguen(i)
<1>1. lote' \in FilasLote /\ grupo' \in [Grupos -> EstadosGrupo] /\ ColaConDueno'
      /\ DuenoSigue
  BY DEF InductivoLote, FilasEnForma, ColaConDueno, DuenoSigue
<1> QED BY <1>1, TablasEscritas

\* An error of the lote is stored as the response of its operation
LEMMA ErrorConserva ==
    ASSUME InductivoLote, NEW a \in Actores, NEW l \in FilasLote, ConError(a, l),
           mem[a].op \in Claves, mem[a].pc \notin {"inicio", "bloquear"},
           l.estado \in Activos => l.dueno \in Claves,
           lote.dueno \in Claves => l.dueno \in Claves,
           UNCHANGED <<grupo, guardas>>
    PROVE  InductivoLote'
<1>1. CASE a = Worker
  <2>1. UNCHANGED tablas /\ Fin(a, "error")
    BY <1>1 DEF ConError, tablas
  <2> QED BY <2>1, TablasQuietas, Termina DEF RespuestasHttp, Respuestas
<1>2. CASE a # Worker /\ Publicable(K(a), "fallido_verificado")
  <2>1. /\ ResponderOperacion(K(a), "fallido_verificado", "error")
        /\ lote' = l /\ Fin(a, "error")
    BY <1>2 DEF ConError
  <2>2. op' \in [Claves -> FilasOperacion] /\ AbiertaSinRespuesta'
    BY <2>1, ResponderForma DEF EstadosOperacion, Respuestas
  <2>3. lote' \in FilasLote /\ ColaConDueno' /\ DuenoSigue
    BY <2>1 DEF ColaConDueno, DuenoSigue
  <2>4. grupo' \in [Grupos -> EstadosGrupo] /\ guardas' = guardas
    BY DEF InductivoLote, FilasEnForma
  <2>5. TablasSanas' /\ \A i : GuardasSiguen(i)
    BY <2>2, <2>3, <2>4, TablasEscritas
  <2> QED BY <2>1, <2>3, <2>5, Termina DEF RespuestasHttp, Respuestas
<1>3. CASE a # Worker /\ ~Publicable(K(a), "fallido_verificado")
  <2>1. AnteCorte(a) /\ UNCHANGED tablas
    BY <1>3 DEF ConError, tablas
  <2> QED BY <2>1, TablasQuietas, Cortado
<1> QED BY <1>1, <1>2, <1>3

\* ... with the lote as it is
LEMMA ErrorSimple ==
    ASSUME InductivoLote, NEW a \in Actores, ConError(a, lote),
           mem[a].op \in Claves, mem[a].pc \notin {"inicio", "bloquear"},
           UNCHANGED <<grupo, guardas>>
    PROVE  InductivoLote'
BY ErrorConserva DEF InductivoLote, FilasEnForma, ColaConDueno

\* Nothing in the tables changes and the actor answers, goes on or is cut
LEMMA SoloTermina ==
    ASSUME InductivoLote, NEW a \in Actores, NEW r \in RespuestasHttp, Fin(a, r),
           UNCHANGED tablas
    PROVE  InductivoLote'
BY TablasQuietas, Termina

LEMMA SoloSigue ==
    ASSUME InductivoLote, NEW a \in Actores, NEW pc \in Libres, Ir(a, pc),
           mem[a].op \in Claves, mem[a].pc \notin {"inicio", "bloquear"},
           UNCHANGED tablas
    PROVE  InductivoLote'
BY TablasQuietas, Sigue

LEMMA SoloCorte ==
    ASSUME InductivoLote, NEW a \in Actores, AnteCorte(a),
           mem[a].op \in Claves, mem[a].pc \notin {"inicio", "bloquear"},
           UNCHANGED tablas
    PROVE  InductivoLote'
BY TablasQuietas, Cortado

LEMMA SolicitudNoEsWorker ==
    \A a \in Solicitudes : a \in Actores /\ a # Worker /\ ClaveDe[a] \in Claves
BY LoteAssumption DEF Actores

LEMMA RespuestaGuardada ==
    ASSUME InductivoLote, NEW k \in Claves
    PROVE  op[k].resp \in RespuestasHttp
BY DEF InductivoLote, FilasEnForma, FilasOperacion, RespuestasHttp

LEMMA PasoLeerLote ==
    ASSUME InductivoLote, NEW a \in Solicitudes, LeerLote(a)
    PROVE  InductivoLote'
<1> USE SolicitudNoEsWorker
<1> DEFINE k == ClaveDe[a]
           h == Grupos \ Con(grupo, "descartado")
           x == [mem[a] EXCEPT !.pc = "resolver", !.op = k, !.vista = lote,
                   !.mat = Con(grupo, "validado"), !.huella = h]
<1>1. UNCHANGED tablas
  BY DEF LeerLote
<1>2. CASE Fin(a, "conflicto")
  BY <1>1, <1>2, SoloTermina DEF RespuestasHttp
<1>3. CASE Fin(a, op[k].resp)
  <2> DEFINE r == op[k].resp
  <2>1. r \in RespuestasHttp /\ Fin(a, r)
    BY <1>3, RespuestaGuardada
  <2> HIDE DEF r
  <2> QED BY <1>1, <2>1, SoloTermina
<1>4. CASE mem' = [mem EXCEPT ![a].pc = "resolver", ![a].op = k,
                       ![a].vista = lote, ![a].mat = Con(grupo, "validado"),
                       ![a].huella = h]
  <2>1. mem' = [mem EXCEPT ![a] = x]
    BY <1>4, Consta
  <2>2. k \in Claves /\ lote \in FilasLote /\ Con(grupo, "validado") \in SUBSET Grupos
        /\ h \in SUBSET Grupos /\ mem[a] \in Memorias
    BY Consta DEF Con
  <2> HIDE DEF k, h
  <2>3. x \in Memorias
    BY <2>2, PasosConocidos DEF Memorias
  <2>4. x.pc = "resolver" /\ x.op = k /\ x.vista = lote /\ x.guarda = mem[a].guarda
    BY <2>2 DEF Memorias
  <2> HIDE DEF x
  <2>5. MemoriaDe(a, x, guardas', lote') /\ GuardaSigue(a, x)
    BY <1>1, <2>2, <2>4, Consta DEF MemoriaDe, PorEnviar, GuardaSigue, tablas
  <2> QED BY <1>1, <2>1, <2>3, <2>5, TablasQuietas, Avanza
<1> QED BY <1>2, <1>3, <1>4 DEF LeerLote

LEMMA PasoCrear ==
    ASSUME InductivoLote, NEW a \in Solicitudes,
           CrearOperacion(a) \/ CrearAmbigua(a)
    PROVE  InductivoLote'
<1> USE SolicitudNoEsWorker
<1> DEFINE k == mem[a].op
           creada == op' = [op EXCEPT ![k].estado = "en_proceso", ![k].huella = mem[a].huella]
<1>1. UNCHANGED <<lote, grupo, guardas>> /\ mem[a].pc = "resolver"
  BY DEF CrearOperacion, CrearAmbigua, En
<1>2. k \in Claves /\ mem[a].pc \notin {"inicio", "bloquear"}
  BY <1>1, ClaveEnMano DEF SinClave
<1>3. ASSUME creada
      PROVE  op' \in [Claves -> FilasOperacion] /\ AbiertaSinRespuesta'
  <2>1. op \in [Claves -> FilasOperacion] /\ mem[a].huella \in SUBSET Grupos
        /\ AbiertaSinRespuesta
    BY Consta DEF Memorias, InductivoLote
  <2>2. /\ op' \in [Claves -> FilasOperacion]
        /\ \A y \in Claves : y # k => op'[y] = op[y]
        /\ op'[k].estado = "en_proceso"
    BY <1>2, <1>3, <2>1 DEF FilasOperacion, EstadosOperacion
  <2> HIDE DEF k
  <2> QED BY <1>2, <2>1, <2>2 DEF AbiertaSinRespuesta
<1>4. CASE op' = op
  <2>1. UNCHANGED tablas
    BY <1>1, <1>4 DEF tablas
  <2>2. \/ Fin(a, "elegibilidad") \/ Ir(a, "preparar") \/ Ir(a, "recuperar_creacion")
    BY DEF CrearOperacion, CrearAmbigua
  <2> QED BY <1>2, <2>1, <2>2, SoloTermina, SoloSigue DEF RespuestasHttp, Libres
<1>5. CASE creada
  <2>1. TablasSanas' /\ DuenoSigue /\ GuardasSiguen(mem[a].guarda)
    BY <1>1, <1>3, <1>5, OperacionEscrita
  <2>2. \/ Ir(a, "preparar") \/ Ir(a, "recuperar_creacion") \/ Fin(a, "elegibilidad")
    BY DEF CrearOperacion, CrearAmbigua
  <2> QED BY <1>2, <2>1, <2>2, Sigue, Termina DEF RespuestasHttp, Libres
<1> QED BY <1>4, <1>5 DEF CrearOperacion, CrearAmbigua, K

LEMMA PasoReabrir ==
    ASSUME InductivoLote, NEW a \in Solicitudes,
           RecuperarCreacion(a) \/ ReclamarOperacion(a)
    PROVE  InductivoLote'
<1> USE SolicitudNoEsWorker
<1> DEFINE k == mem[a].op
<1>1. UNCHANGED <<lote, grupo, guardas>> /\ mem[a].pc \in {"recuperar_creacion", "resolver"}
  BY DEF RecuperarCreacion, ReclamarOperacion, En
<1>2. k \in Claves /\ mem[a].pc \notin {"inicio", "bloquear"}
  BY <1>1, ClaveEnMano DEF SinClave
<1>3. \/ op' = op
      \/ op[k].resp = "nula" /\ op' = [op EXCEPT ![k].estado = "interrumpida_pre_arca"]
      \/ op[k].estado = "interrumpida_pre_arca"
         /\ op' = [op EXCEPT ![k].estado = "en_proceso"]
  BY DEF RecuperarCreacion, ReclamarOperacion, K
<1>4. op[k].estado = "interrumpida_pre_arca" => op[k].resp = "nula"
  BY <1>2 DEF InductivoLote, AbiertaSinRespuesta
<1>5. op' \in [Claves -> FilasOperacion] /\ AbiertaSinRespuesta'
  <2>1. CASE op' = op
    BY <2>1 DEF InductivoLote, FilasEnForma, AbiertaSinRespuesta
  <2>2. CASE op[k].resp = "nula" /\ op' = [op EXCEPT ![k].estado = "interrumpida_pre_arca"]
    BY <1>2, <2>2, AbrirForma DEF EstadosOperacion
  <2>3. CASE op[k].resp = "nula" /\ op' = [op EXCEPT ![k].estado = "en_proceso"]
    BY <1>2, <2>3, AbrirForma DEF EstadosOperacion
  <2> QED BY <1>3, <1>4, <2>1, <2>2, <2>3
<1>6. TablasSanas' /\ DuenoSigue /\ GuardasSiguen(mem[a].guarda)
  BY <1>1, <1>5, OperacionEscrita
<1>7. \/ Fin(a, "reintentable") \/ Fin(a, "bloqueado") \/ Fin(a, "elegibilidad")
      \/ Ir(a, "preparar")
  BY DEF RecuperarCreacion, ReclamarOperacion
<1> QED BY <1>2, <1>6, <1>7, Termina, Sigue DEF RespuestasHttp, Libres

LEMMA PasoEncontrar ==
    ASSUME InductivoLote, NEW a \in Solicitudes, EncontrarOperacion(a)
    PROVE  InductivoLote'
<1> USE SolicitudNoEsWorker
<1>1. UNCHANGED tablas /\ mem[a].pc = "resolver"
  BY DEF EncontrarOperacion, En
<1>2. mem[a].op \in Claves /\ mem[a].pc \notin {"inicio", "bloquear"}
  BY <1>1, ClaveEnMano DEF SinClave
<1> DEFINE r == op[mem[a].op].resp
<1>3. r \in RespuestasHttp
  BY <1>2, RespuestaGuardada
<1>4. Fin(a, "conflicto") \/ Fin(a, r) \/ Ir(a, "en_curso")
  BY DEF EncontrarOperacion, K
<1> HIDE DEF r
<1> QED BY <1>1, <1>2, <1>3, <1>4, SoloTermina, SoloSigue DEF RespuestasHttp, Libres

LEMMA PublicadoForma ==
    ASSUME NEW e
    PROVE  EstadoPublicado(e) \in EstadosOperacion \ {"inexistente", "interrumpida_pre_arca"}
BY DEF EstadoPublicado, EstadosOperacion

\* The response of an operation is stored and the request ends
LEMMA RespondeYTermina ==
    ASSUME InductivoLote, NEW a \in Actores, NEW k, NEW r \in RespuestasHttp,
           NEW e \in EstadosOperacion \ {"inexistente", "interrumpida_pre_arca"},
           ResponderOperacion(k, e, "final"), Fin(a, r), UNCHANGED <<lote, grupo, guardas>>
    PROVE  InductivoLote'
<1>1. op' \in [Claves -> FilasOperacion] /\ AbiertaSinRespuesta'
  BY ResponderForma DEF Respuestas
<1>2. TablasSanas' /\ DuenoSigue /\ GuardasSiguen(mem[a].guarda)
  BY <1>1, OperacionEscrita
<1> QED BY <1>2, Termina

LEMMA PasoResponder ==
    ASSUME InductivoLote, NEW a \in Solicitudes, ResponderEnCurso(a) \/ Publicar(a)
    PROVE  InductivoLote'
<1> USE SolicitudNoEsWorker
<1>1. UNCHANGED <<lote, grupo, guardas>> /\ mem[a].pc \in {"en_curso", "publicar"}
  BY DEF ResponderEnCurso, Publicar, En
<1>2. mem[a].op \in Claves /\ mem[a].pc \notin {"inicio", "bloquear"}
  BY <1>1, ClaveEnMano DEF SinClave
<1>3. \/ UNCHANGED op /\ (Fin(a, "en_progreso") \/ Fin(a, "conflicto") \/ Fin(a, "final"))
      \/ UNCHANGED op /\ AnteCorte(a)
      \/ \E e \in EstadosOperacion \ {"inexistente", "interrumpida_pre_arca"} :
            ResponderOperacion(K(a), e, "final") /\ Fin(a, "final")
  <2>1. CASE ResponderEnCurso(a)
    <3> DEFINE e == EstadoPublicado(mem[a].vista.estado)
    <3>1. e \in EstadosOperacion \ {"inexistente", "interrumpida_pre_arca"}
      BY PublicadoForma
    <3>2. \/ UNCHANGED op /\ (Fin(a, "en_progreso") \/ Fin(a, "conflicto"))
          \/ UNCHANGED op /\ AnteCorte(a)
          \/ ResponderOperacion(K(a), e, "final") /\ Fin(a, "final")
      BY <2>1 DEF ResponderEnCurso
    <3> HIDE DEF e
    <3> QED BY <3>1, <3>2
  <2>2. CASE Publicar(a)
    <3> DEFINE e == IF mem[a].vista.estado = "requiere_reconciliacion"
                    THEN "requiere_reconciliacion" ELSE "finalizado"
    <3>1. e \in EstadosOperacion \ {"inexistente", "interrumpida_pre_arca"}
      BY DEF EstadosOperacion
    <3>2. \/ UNCHANGED op /\ Fin(a, "final")
          \/ UNCHANGED op /\ AnteCorte(a)
          \/ ResponderOperacion(K(a), e, "final") /\ Fin(a, "final")
      BY <2>2 DEF Publicar
    <3> HIDE DEF e
    <3> QED BY <3>1, <3>2
  <2> QED BY <2>1, <2>2
<1>4. op' = op => UNCHANGED tablas
  BY <1>1 DEF tablas
<1>5. {"en_progreso", "conflicto", "final"} \subseteq RespuestasHttp
  BY DEF RespuestasHttp, Respuestas
<1>6. CASE \E e \in EstadosOperacion \ {"inexistente", "interrumpida_pre_arca"} :
              ResponderOperacion(K(a), e, "final") /\ Fin(a, "final")
  BY <1>1, <1>5, <1>6, RespondeYTermina
<1>7. CASE op' = op /\ AnteCorte(a)
  BY <1>2, <1>4, <1>7, SoloCorte
<1>8. CASE op' = op /\ (Fin(a, "en_progreso") \/ Fin(a, "conflicto") \/ Fin(a, "final"))
  BY <1>4, <1>5, <1>8, SoloTermina
<1> QED BY <1>3, <1>6, <1>7, <1>8

LEMMA PasoPreparar ==
    ASSUME InductivoLote, NEW a \in Solicitudes, Preparar(a) \/ GuardarError(a)
    PROVE  InductivoLote'
<1> USE SolicitudNoEsWorker
<1>1. UNCHANGED <<grupo, guardas>> /\ mem[a].pc \in {"preparar", "guardar_error"}
  BY DEF Preparar, GuardarError, En
<1>2. mem[a].op \in Claves /\ mem[a].pc \notin {"inicio", "bloquear"}
  BY <1>1, ClaveEnMano DEF SinClave
<1>3. CASE ConError(a, lote)
  BY <1>1, <1>2, <1>3, ErrorSimple
<1>4. CASE UNCHANGED <<lote, op>> /\ (Ir(a, "encolar") \/ Ir(a, "tomar"))
  <2>1. UNCHANGED tablas
    BY <1>1, <1>4 DEF tablas
  <2> QED BY <1>2, <1>4, <2>1, SoloSigue DEF Libres
<1>5. Preparar(a) => ConError(a, lote)
                     \/ (UNCHANGED <<lote, op>> /\ (Ir(a, "encolar") \/ Ir(a, "tomar")))
  BY DEF Preparar
<1>6. GuardarError(a) => ConError(a, lote)
  BY DEF GuardarError
<1> QED BY <1>3, <1>4, <1>5, <1>6

LEMMA PasoEncolar ==
    ASSUME InductivoLote, NEW a \in Solicitudes, Encolar(a)
    PROVE  InductivoLote'
<1> USE SolicitudNoEsWorker
<1> DEFINE k == mem[a].op
           v == mem[a].vista
           m == mem[a].mat
           l == Escribir(lote, v, "en_cola")
           d == EscribirDueno(l, v, k, m)
<1>1. UNCHANGED <<grupo, guardas>> /\ mem[a].pc = "encolar"
  BY DEF Encolar, En
<1>2. k \in Claves /\ mem[a].pc \notin {"inicio", "bloquear"}
  BY <1>1, ClaveEnMano DEF SinClave
<1>3. CASE Fin(a, "en_curso") /\ UNCHANGED <<lote, op>>
  <2>1. UNCHANGED tablas
    BY <1>1, <1>3 DEF tablas
  <2> QED BY <1>3, <2>1, SoloTermina DEF RespuestasHttp
<1>4. CASE /\ Publicable(k, "en_proceso")
           /\ lote' = [d EXCEPT !.async = TRUE]
           /\ op' = [op EXCEPT ![k].resp = "progreso", ![k].material = m]
           /\ Fin(a, "en_progreso")
  <2>1. /\ v \in FilasLote /\ m \in SUBSET Grupos /\ lote \in FilasLote
        /\ v.dueno \in Claves => lote.dueno \in Claves
    BY Consta DEF Memorias, MemoriaDe
  <2>2. l \in FilasLote /\ l.dueno = lote.dueno
    BY <2>1, EscribirForma DEF EstadosLote, Procesables
  <2> HIDE DEF l, v, k, m
  <2>3. d \in FilasLote /\ d.dueno \in Claves
    BY <1>2, <2>1, <2>2, DuenoForma
  <2> HIDE DEF d
  <2>4. lote' \in FilasLote /\ lote'.dueno \in Claves
    BY <1>4, <2>3 DEF FilasLote
  <2>5. op \in [Claves -> FilasOperacion] /\ AbiertaSinRespuesta
    BY DEF InductivoLote, FilasEnForma
  <2>6. /\ op' \in [Claves -> FilasOperacion]
        /\ \A y \in Claves : y # k => op'[y] = op[y]
        /\ op'[k].estado = "en_proceso"
    <3> DEFINE z == op[k]
               w == [z EXCEPT !.resp = "progreso", !.material = m]
    <3>1. op' = [op EXCEPT ![k] = w] /\ z \in FilasOperacion /\ z.estado = "en_proceso"
      BY <1>2, <1>4, <2>5 DEF Publicable
    <3> HIDE DEF z
    <3>2. w \in FilasOperacion /\ w.estado = z.estado
      BY <2>1, <3>1 DEF FilasOperacion, Respuestas
    <3> HIDE DEF w
    <3> QED BY <1>2, <2>5, <3>1, <3>2
  <2>7. AbiertaSinRespuesta'
    BY <1>2, <2>5, <2>6 DEF AbiertaSinRespuesta
  <2>8. ColaConDueno' /\ DuenoSigue
    BY <2>4, LoteActivo
  <2>9. grupo' \in [Grupos -> EstadosGrupo] /\ guardas' = guardas
    BY <1>1 DEF InductivoLote, FilasEnForma
  <2>10. TablasSanas' /\ GuardasSiguen(mem[a].guarda)
    BY <2>4, <2>6, <2>7, <2>8, <2>9, TablasEscritas
  <2> QED BY <1>4, <2>8, <2>10, Termina DEF RespuestasHttp
<1> QED BY <1>3, <1>4 DEF Encolar, K

LEMMA PasoDescartar ==
    ASSUME InductivoLote, NEW a \in Solicitudes, DescartarLeer(a) \/ Descartar(a)
    PROVE  InductivoLote'
<1> USE SolicitudNoEsWorker
<1>1. CASE Fin(a, "error") /\ UNCHANGED tablas
  BY <1>1, SoloTermina DEF RespuestasHttp, Respuestas
<1>2. ASSUME NEW g \in Grupos, UNCHANGED tablas,
             mem' = [mem EXCEPT ![a].pc = "descartar", ![a].vista = lote, ![a].sub = {g}]
      PROVE  InductivoLote'
  <2> DEFINE x == [mem[a] EXCEPT !.pc = "descartar", !.vista = lote, !.sub = {g}]
  <2>1. mem' = [mem EXCEPT ![a] = x] /\ mem[a] \in Memorias /\ lote \in FilasLote
    BY <1>2, Consta
  <2>2. x \in Memorias
    BY <2>1, PasosConocidos DEF Memorias
  <2>3. x.pc = "descartar" /\ x.vista = lote /\ x.guarda = mem[a].guarda
    BY <2>1 DEF Memorias
  <2> HIDE DEF x
  <2>4. MemoriaDe(a, x, guardas', lote') /\ GuardaSigue(a, x)
    BY <1>2, <2>3, Consta DEF MemoriaDe, PorEnviar, SinClave, GuardaSigue, tablas
  <2> QED BY <1>2, <2>1, <2>2, <2>4, TablasQuietas, Avanza
<1>3. ASSUME NEW g, NEW gr, gr = [grupo EXCEPT ![g] = "descartado"], grupo' = gr,
             lote' = Escribir(lote, mem[a].vista, Recalculado(mem[a].vista.estado, gr)),
             Fin(a, "final"), UNCHANGED <<op, guardas>>
      PROVE  InductivoLote'
  <2>1. grupo' \in [Grupos -> EstadosGrupo]
    BY <1>3, Consta DEF EstadosGrupo
  <2>2. mem[a].vista \in FilasLote
    BY Consta DEF Memorias
  <2>3. lote' \in FilasLote /\ ColaConDueno' /\ DuenoSigue
    BY <1>3, <2>2, RecalculoEscrito
  <2>4. op' \in [Claves -> FilasOperacion] /\ AbiertaSinRespuesta'
    BY <1>3 DEF InductivoLote, FilasEnForma, AbiertaSinRespuesta
  <2>5. TablasSanas' /\ GuardasSiguen(mem[a].guarda)
    BY <1>3, <2>1, <2>3, <2>4, TablasEscritas
  <2> QED BY <1>3, <2>3, <2>5, Termina DEF RespuestasHttp, Respuestas
<1>4. CASE DescartarLeer(a)
  BY <1>1, <1>2, <1>4 DEF DescartarLeer
<1>5. CASE Descartar(a)
  <2> DEFINE g == CHOOSE h \in mem[a].sub : TRUE
             gr == [grupo EXCEPT ![g] = "descartado"]
  <2>1. \/ /\ grupo' = gr
           /\ lote' = Escribir(lote, mem[a].vista, Recalculado(mem[a].vista.estado, gr))
           /\ Fin(a, "final") /\ UNCHANGED <<op, guardas>>
        \/ Fin(a, "error") /\ UNCHANGED tablas
    BY <1>5 DEF Descartar, tablas
  <2>2. gr = [grupo EXCEPT ![g] = "descartado"]
    OBVIOUS
  <2> HIDE DEF g, gr
  <2> QED BY <1>1, <1>3, <2>1, <2>2
<1> QED BY <1>4, <1>5

\* Guards change and keep the tables sound
LEMMA TodoEscrito ==
    ASSUME NEW i, guardas' \in Seq(FilasGuarda), GuardasSanas', GuardasSiguen(i),
           lote' \in FilasLote, grupo' \in [Grupos -> EstadosGrupo],
           op' \in [Claves -> FilasOperacion], ColaConDueno', AbiertaSinRespuesta'
    PROVE  TablasSanas' /\ GuardasSiguen(i)
BY DEF TablasSanas

LEMMA PasoRecuperar ==
    ASSUME InductivoLote, NEW a \in Solicitudes, Recuperar(a) \/ RecuperarSinBase(a)
    PROVE  InductivoLote'
<1> USE SolicitudNoEsWorker
<1> DEFINE k == mem[a].op
           i == mem[a].guarda
           r == ResultadoGuarda(k, i, op[k].resp)
<1>1. CASE Fin(a, "bloqueado") /\ UNCHANGED tablas
  BY <1>1, SoloTermina DEF RespuestasHttp
<1>2. k \in Claves
  <2>1. mem[a].pc \in {"recuperar", "recuperar_creacion"}
    BY DEF Recuperar, RecuperarSinBase, En
  <2> QED BY <2>1, ClaveEnMano DEF SinClave
<1>3. ASSUME op[k].resp = "nula", op' = [op EXCEPT ![k].estado = "interrumpida_pre_arca"],
             lote' = [lote EXCEPT !.estado = "validado", !.vieja = FALSE]
      PROVE  /\ lote' \in FilasLote /\ ColaConDueno' /\ DuenoSigue
             /\ op' \in [Claves -> FilasOperacion] /\ AbiertaSinRespuesta'
  <2>1. "validado" \in EstadosLote \ Activos /\ "interrumpida_pre_arca" \in EstadosOperacion
    BY DEF EstadosLote, Procesables, Activos, EstadosOperacion
  <2>2. lote' \in FilasLote /\ ColaConDueno' /\ DuenoSigue
    BY <1>3, <2>1, Consta, LoteAsentado
  <2>3. op' \in [Claves -> FilasOperacion] /\ AbiertaSinRespuesta'
    <3> HIDE DEF k
    <3> QED BY <1>2, <1>3, <2>1, AbrirForma
  <2> QED BY <2>2, <2>3
<1>4. CASE /\ op[k].resp = "nula" /\ op' = [op EXCEPT ![k].estado = "interrumpida_pre_arca"]
           /\ lote' = [lote EXCEPT !.estado = "validado", !.vieja = FALSE]
           /\ Fin(a, "reintentable") /\ UNCHANGED <<grupo, guardas>>
  <2>1. grupo' \in [Grupos -> EstadosGrupo]
    BY <1>4, Consta
  <2>2. TablasSanas' /\ GuardasSiguen(i)
    BY <1>3, <1>4, <2>1, TablasEscritas
  <2> QED BY <1>3, <1>4, <2>2, Termina DEF RespuestasHttp
<1>5. CASE /\ r \in {"ambigua", "reconciliacion"}
           /\ guardas' = GuardaRecuperada(i, r)
           /\ op' = [op EXCEPT ![k].estado = IF @ = "en_proceso"
                                   THEN "requiere_reconciliacion" ELSE @]
           /\ Inmovilizar(guardas[i].grupos)
           /\ Fin(a, "post_arca")
  <2>1. r # "no_recuperable"
    BY <1>5
  <2>2. guardas' \in Seq(FilasGuarda) /\ GuardasSanas' /\ GuardasSiguen(i)
    <3> DEFINE z == op[k].resp
    <3>1. r = ResultadoGuarda(k, i, z)
      OBVIOUS
    <3> HIDE DEF r, k, i, z
    <3> QED BY <1>5, <2>1, <3>1, RecuperadaForma
  <2>3. /\ lote' \in FilasLote /\ grupo' \in [Grupos -> EstadosGrupo]
        /\ ColaConDueno' /\ DuenoSigue
    BY <1>5, InmovilizarForma
  <2>4. op \in [Claves -> FilasOperacion] /\ AbiertaSinRespuesta
    BY DEF InductivoLote, FilasEnForma
  <2>5. /\ op' \in [Claves -> FilasOperacion]
        /\ \A y \in Claves : op'[y].resp = op[y].resp
        /\ \A y \in Claves : op'[y].estado \in {"inexistente", "interrumpida_pre_arca"}
              => op'[y].estado = op[y].estado
    <3> DEFINE z == op[k]
               e == IF z.estado = "en_proceso" THEN "requiere_reconciliacion" ELSE z.estado
               w == [z EXCEPT !.estado = e]
    <3>1. op' = [op EXCEPT ![k] = w]
      BY <1>2, <1>5, <2>4
    <3>2. z \in FilasOperacion
      BY <1>2, <2>4
    <3>3. e \in EstadosOperacion /\ (e = z.estado \/ e = "requiere_reconciliacion")
      BY <3>2 DEF FilasOperacion, EstadosOperacion
    <3> HIDE DEF z, e, k
    <3>4. w \in FilasOperacion /\ w.resp = z.resp /\ w.estado = e
      BY <3>2, <3>3 DEF FilasOperacion
    <3> HIDE DEF w
    <3> QED BY <1>2, <2>4, <3>1, <3>3, <3>4 DEF z
  <2>6. AbiertaSinRespuesta'
    BY <2>4, <2>5 DEF AbiertaSinRespuesta
  <2>7. TablasSanas' /\ GuardasSiguen(i)
    <3> HIDE DEF i
    <3> QED BY <2>2, <2>3, <2>5, <2>6, TodoEscrito
  <2> QED BY <1>5, <2>3, <2>7, Termina DEF RespuestasHttp
<1>6. CASE /\ r = "recuperada"
           /\ op' = [op EXCEPT ![k].estado = "interrumpida_pre_arca"]
           /\ lote' = [lote EXCEPT !.estado = "validado", !.vieja = FALSE]
           /\ Fin(a, "reintentable")
           /\ guardas' = GuardaRecuperada(i, r) /\ UNCHANGED grupo
  <2>1. op[k].resp = "nula" /\ r # "no_recuperable"
    BY <1>6 DEF ResultadoGuarda
  <2>2. guardas' \in Seq(FilasGuarda) /\ GuardasSanas' /\ GuardasSiguen(i)
    <3> DEFINE z == op[k].resp
    <3>1. r = ResultadoGuarda(k, i, z)
      OBVIOUS
    <3> HIDE DEF r, k, i, z
    <3> QED BY <1>6, <2>1, <3>1, RecuperadaForma
  <2>3. grupo' \in [Grupos -> EstadosGrupo]
    BY <1>6, Consta
  <2>4. /\ lote' \in FilasLote /\ ColaConDueno' /\ DuenoSigue
        /\ op' \in [Claves -> FilasOperacion] /\ AbiertaSinRespuesta'
    BY <1>3, <1>6, <2>1
  <2>5. TablasSanas' /\ GuardasSiguen(i)
    <3> HIDE DEF i
    <3> QED BY <2>2, <2>3, <2>4, TodoEscrito
  <2> QED BY <1>6, <2>4, <2>5, Termina DEF RespuestasHttp
<1>7. CASE RecuperarSinBase(a)
  BY <1>1, <1>7 DEF RecuperarSinBase
<1>8. CASE Recuperar(a)
  <2> DEFINE toma == IF Modo[a] = "background" THEN {"validado"}
                     ELSE {"procesando", "validado"}
             A == /\ i = 0 /\ op[k].estado = "en_proceso" /\ op[k].resp = "nula"
                  /\ GuardasDe(k) = {} /\ lote.estado \in toma
             B == i > 0 /\ r \in {"ambigua", "reconciliacion"}
             C == /\ i > 0 /\ r = "recuperada" /\ lote.estado \in toma
                  /\ guardas[i].grupos \subseteq Con(grupo, "validado")
             libera == /\ op' = [op EXCEPT ![k].estado = "interrumpida_pre_arca"]
                       /\ lote' = [lote EXCEPT !.estado = "validado", !.vieja = FALSE]
                       /\ Fin(a, "reintentable")
             PA == libera /\ UNCHANGED <<grupo, guardas>>
             PB == /\ guardas' = GuardaRecuperada(i, r)
                   /\ op' = [op EXCEPT ![k].estado = IF @ = "en_proceso"
                                   THEN "requiere_reconciliacion" ELSE @]
                   /\ Inmovilizar(guardas[i].grupos)
                   /\ Fin(a, "post_arca")
             PC == libera /\ guardas' = GuardaRecuperada(i, r) /\ UNCHANGED grupo
             PO == Fin(a, "bloqueado") /\ UNCHANGED tablas
  <2>1. (CASE A -> PA [] B -> PB [] C -> PC [] OTHER -> PO)
    BY <1>8 DEF Recuperar, K
  <2>2. (A /\ PA) \/ (B /\ PB) \/ (C /\ PC) \/ PO
    <3>1. /\ A \in BOOLEAN /\ B \in BOOLEAN /\ C \in BOOLEAN
          /\ PA \in BOOLEAN /\ PB \in BOOLEAN /\ PC \in BOOLEAN /\ PO \in BOOLEAN
      OBVIOUS
    <3>2. i \in Int
      BY Consta DEF Memorias
    <3>3. ~(A /\ B) /\ ~(A /\ C) /\ ~(B /\ C)
      BY <3>2
    <3> HIDE DEF A, B, C, PA, PB, PC, PO
    <3>4. ~A /\ ~B /\ ~C => PO
      BY <2>1, <3>1
    <3>5. A /\ ~B /\ ~C => PA
      BY <2>1, <3>1
    <3>6. ~A /\ B /\ ~C => PB
      BY <2>1, <3>1
    <3>7. ~A /\ ~B /\ C => PC
      BY <2>1, <3>1
    <3> QED BY <3>1, <3>3, <3>4, <3>5, <3>6, <3>7
  <2>3. CASE A /\ PA
    BY <1>4, <2>3
  <2>4. CASE B /\ PB
    BY <1>5, <2>4
  <2>5. CASE C /\ PC
    BY <1>6, <2>5
  <2>6. CASE PO
    BY <1>1, <2>6
  <2> HIDE DEF A, B, C, PA, PB, PC, PO
  <2> QED BY <2>2, <2>3, <2>4, <2>5, <2>6
<1> QED BY <1>7, <1>8

\* A request moves
LEMMA SolicitudConserva ==
    ASSUME InductivoLote, NEW a \in Solicitudes, PasoSolicitud(a)
    PROVE  InductivoLote'
BY PasoLeerLote, PasoCrear, PasoReabrir, PasoEncontrar, PasoResponder, PasoPreparar,
   PasoEncolar, PasoRecuperar, PasoDescartar DEF PasoSolicitud

----------------------------------------------------------------------------
(* Steps of a run: taking the lote.                                         *)

\* The owner written in the first transaction of a run
LEMMA DuenoTomado ==
    ASSUME InductivoLote, NEW a \in Actores, mem[a].op \in Claves
    PROVE  LET l == EscribirDueno(lote, mem[a].vista, mem[a].op, mem[a].mat)
           IN  l \in FilasLote /\ l.estado = lote.estado /\ l.dueno \in Claves
<1> DEFINE v == mem[a].vista
           k == mem[a].op
           m == mem[a].mat
<1>1. /\ v \in FilasLote /\ m \in SUBSET Grupos /\ lote \in FilasLote
      /\ v.dueno \in Claves => lote.dueno \in Claves
  BY Consta DEF Memorias, MemoriaDe
<1> HIDE DEF v, m, k
<1>2. k \in Claves
  BY DEF k
<1>3. /\ EscribirDueno(lote, v, k, m) \in FilasLote
      /\ EscribirDueno(lote, v, k, m).estado = lote.estado
      /\ EscribirDueno(lote, v, k, m).dueno \in Claves
  BY <1>1, <1>2, DuenoForma
<1> QED BY <1>3 DEF v, k, m

LEMMA DevolverConserva ==
    ASSUME InductivoLote, NEW a \in Actores, NEW l \in FilasLote, l.dueno \in Claves,
           DevolverLote(a, l), mem[a].op \in Claves,
           mem[a].pc \notin {"inicio", "bloquear"}, UNCHANGED <<grupo, guardas>>
    PROVE  InductivoLote'
<1> DEFINE e == EstadoPublicado(mem[a].vista.estado)
           s == IF e = "requiere_reconciliacion" THEN e ELSE "finalizado"
<1>1. e \in EstadosOperacion \ {"inexistente", "interrumpida_pre_arca"}
  BY PublicadoForma
<1>2. s \in EstadosOperacion \ {"inexistente", "interrumpida_pre_arca"}
  BY <1>1 DEF EstadosOperacion
<1>3. "final" \in RespuestasHttp /\ "error" \in RespuestasHttp
  BY DEF RespuestasHttp, Respuestas
<1>4. \/ ResponderOperacion(K(a), e, "final") /\ Fin(a, "final") /\ UNCHANGED lote
      \/ Fin(a, "error") /\ UNCHANGED <<lote, op>>
      \/ ResponderOperacion(K(a), s, "final") /\ lote' = l /\ Fin(a, "final")
      \/ AnteCorte(a) /\ UNCHANGED <<lote, op>>
  BY DEF DevolverLote
<1> HIDE DEF e, s
<1>5. CASE ResponderOperacion(K(a), e, "final") /\ Fin(a, "final") /\ UNCHANGED lote
  BY <1>1, <1>3, <1>5, RespondeYTermina
<1>6. CASE UNCHANGED <<lote, op>> /\ (Fin(a, "error") \/ AnteCorte(a))
  <2>1. UNCHANGED tablas
    BY <1>6 DEF tablas
  <2> QED BY <1>3, <1>6, <2>1, SoloTermina, SoloCorte
<1>7. CASE ResponderOperacion(K(a), s, "final") /\ lote' = l /\ Fin(a, "final")
  <2>1. op' \in [Claves -> FilasOperacion] /\ AbiertaSinRespuesta'
    BY <1>2, <1>7, ResponderForma DEF Respuestas
  <2>2. lote' \in FilasLote /\ ColaConDueno' /\ DuenoSigue
    BY <1>7, LoteActivo
  <2>3. grupo' \in [Grupos -> EstadosGrupo] /\ guardas' = guardas
    BY Consta
  <2>4. TablasSanas' /\ GuardasSiguen(mem[a].guarda)
    BY <2>1, <2>2, <2>3, TablasEscritas
  <2> QED BY <1>3, <1>7, <2>2, <2>4, Termina
<1> QED BY <1>4, <1>5, <1>6, <1>7

LEMMA PasoTomar ==
    ASSUME InductivoLote, NEW a \in Actores, Tomar(a)
    PROVE  InductivoLote'
<1> DEFINE v == mem[a].vista
           l == EscribirDueno(lote, v, K(a), mem[a].mat)
<1>1. UNCHANGED <<grupo, guardas>> /\ mem[a].pc = "tomar"
  BY DEF Tomar, En
<1>2. mem[a].op \in Claves /\ mem[a].pc \notin {"inicio", "bloquear"}
  BY <1>1, ClaveEnMano DEF SinClave
<1>3. l \in FilasLote /\ l.estado = lote.estado /\ l.dueno \in Claves
  BY <1>2, DuenoTomado DEF K
<1>4. v \in FilasLote
  BY Consta DEF Memorias
<1>5. \/ DevolverLote(a, l)
      \/ ConError(a, l)
      \/ ConError(a, lote)
      \/ /\ lote' = [l EXCEPT !.estado = "procesando", !.async = v.async, !.vieja = FALSE]
         /\ Ir(a, "releer") /\ UNCHANGED op
  BY DEF Tomar
<1> HIDE DEF l, v
<1>6. CASE DevolverLote(a, l)
  BY <1>1, <1>2, <1>3, <1>6, DevolverConserva
<1>7. CASE ConError(a, l)
  BY <1>1, <1>2, <1>3, <1>7, ErrorConserva
<1>8. CASE ConError(a, lote)
  BY <1>1, <1>2, <1>8, ErrorSimple
<1>9. CASE /\ lote' = [l EXCEPT !.estado = "procesando", !.async = v.async, !.vieja = FALSE]
           /\ Ir(a, "releer") /\ UNCHANGED op
  <2>1. lote' \in FilasLote /\ lote'.dueno \in Claves
    BY <1>3, <1>4, <1>9 DEF FilasLote, EstadosLote
  <2>2. ColaConDueno' /\ DuenoSigue
    BY <2>1, LoteActivo
  <2>3. /\ grupo' \in [Grupos -> EstadosGrupo] /\ guardas' = guardas
        /\ op' \in [Claves -> FilasOperacion] /\ AbiertaSinRespuesta'
    BY <1>1, <1>9 DEF InductivoLote, FilasEnForma, AbiertaSinRespuesta
  <2>4. TablasSanas' /\ GuardasSiguen(mem[a].guarda)
    BY <2>1, <2>2, <2>3, TablasEscritas
  <2> QED BY <1>2, <1>9, <2>2, <2>4, Sigue DEF Libres
<1> QED BY <1>5, <1>6, <1>7, <1>8, <1>9

LEMMA PasoReleer ==
    ASSUME InductivoLote, NEW a \in Actores, Releer(a)
    PROVE  InductivoLote'
<1>1. guardas' = guardas /\ mem[a].pc = "releer"
  BY DEF Releer, En
<1>2. mem[a].op \in Claves /\ mem[a].pc \notin {"inicio", "bloquear"}
  BY <1>1, ClaveEnMano DEF SinClave
<1>3. CASE ConError(a, lote) /\ UNCHANGED grupo
  BY <1>1, <1>2, <1>3, ErrorSimple
<1>4. CASE /\ UNCHANGED <<op, lote, grupo>>
           /\ mem' = [mem EXCEPT ![a].pc = "capacidad", ![a].vista = lote]
  <2> DEFINE x == [mem[a] EXCEPT !.pc = "capacidad", !.vista = lote]
  <2>1. mem' = [mem EXCEPT ![a] = x] /\ mem[a] \in Memorias /\ lote \in FilasLote
    BY <1>4, Consta
  <2>2. x \in Memorias
    BY <2>1, PasosConocidos DEF Memorias
  <2>3. x.pc = "capacidad" /\ x.vista = lote /\ x.guarda = mem[a].guarda
        /\ x.op = mem[a].op
    BY <2>1 DEF Memorias
  <2> HIDE DEF x
  <2>4. UNCHANGED tablas
    BY <1>1, <1>4 DEF tablas
  <2>5. MemoriaDe(a, x, guardas', lote') /\ GuardaSigue(a, x)
    BY <1>2, <2>3, <2>4, Consta DEF MemoriaDe, PorEnviar, GuardaSigue, tablas
  <2> QED BY <2>1, <2>2, <2>4, <2>5, TablasQuietas, Avanza
<1>5. CASE /\ UNCHANGED op /\ Inmovilizar(mem[a].mat)
           /\ Fin(a, "error") \/ Ir(a, "guardar_error")
  <2>1. /\ lote' \in FilasLote /\ grupo' \in [Grupos -> EstadosGrupo]
        /\ ColaConDueno' /\ DuenoSigue
    BY <1>5, InmovilizarForma
  <2>2. op' \in [Claves -> FilasOperacion] /\ AbiertaSinRespuesta'
    BY <1>5 DEF InductivoLote, FilasEnForma, AbiertaSinRespuesta
  <2>3. TablasSanas' /\ GuardasSiguen(mem[a].guarda)
    BY <1>1, <2>1, <2>2, TablasEscritas
  <2> QED BY <1>2, <1>5, <2>1, <2>3, Termina, Sigue DEF Libres, RespuestasHttp, Respuestas
<1> QED BY <1>3, <1>4, <1>5 DEF Releer

LEMMA PasoCapacidad ==
    ASSUME InductivoLote, NEW a \in Actores, Capacidad(a)
    PROVE  InductivoLote'
<1> DEFINE ya == IF a = Worker THEN {g \in mem[a].mat : Respaldado(g)} ELSE {}
           falta == mem[a].mat \ ya
           p == IF falta = {} THEN "terminar" ELSE "verificar"
<1>1. mem[a].pc = "capacidad" /\ UNCHANGED <<op, guardas>>
  BY DEF Capacidad, En
<1>2. mem[a].op \in Claves /\ mem[a].pc \notin {"inicio", "bloquear"}
  BY <1>1, ClaveEnMano DEF SinClave
<1>3. /\ lote' = [lote EXCEPT !.dueno = mem[a].op, !.material = mem[a].mat, !.vieja = FALSE]
      /\ grupo' = [g \in Grupos |-> IF g \in ya THEN "autorizado" ELSE grupo[g]]
  BY DEF Capacidad, K
<1>4. PICK c \in {1, Chunk} :
          mem' = [mem EXCEPT ![a].chunk = c, ![a].pend = falta, ![a].sel = falta,
                             ![a].pc = p]
  BY DEF Capacidad
<1>5. falta \in SUBSET Grupos /\ mem[a].mat \in SUBSET Grupos
  BY Consta DEF Memorias
<1>6. lote' \in FilasLote /\ lote'.dueno \in Claves
  BY <1>2, <1>3, <1>5, Consta DEF FilasLote
<1>7. grupo' \in [Grupos -> EstadosGrupo]
  <2> HIDE DEF ya
  <2> QED BY <1>3, Consta DEF EstadosGrupo
<1>8. ColaConDueno' /\ DuenoSigue
  BY <1>6, LoteActivo
<1>9. op' \in [Claves -> FilasOperacion] /\ AbiertaSinRespuesta' /\ guardas' = guardas
  BY <1>1 DEF InductivoLote, FilasEnForma, AbiertaSinRespuesta
<1>10. TablasSanas' /\ GuardasSiguen(mem[a].guarda)
  BY <1>6, <1>7, <1>8, <1>9, TablasEscritas
<1> DEFINE x == [mem[a] EXCEPT !.chunk = c, !.pend = falta, !.sel = falta, !.pc = p]
<1>11. mem' = [mem EXCEPT ![a] = x] /\ mem[a] \in Memorias
  BY <1>4, Consta
<1>12. c \in Nat /\ p \in {"terminar", "verificar"}
  BY LoteAssumption
<1> HIDE DEF falta, p
<1>13. x \in Memorias
  <2> DEFINE y == mem[a]
             y1 == [y EXCEPT !.chunk = c, !.pc = p]
  <2>1. x = [y1 EXCEPT !.pend = falta, !.sel = falta]
    OBVIOUS
  <2>2. y \in Memorias
    BY <1>11
  <2> HIDE DEF y, x
  <2>3. y1 \in Memorias
    BY <1>12, <2>2, PasosConocidos DEF Memorias
  <2> HIDE DEF y1
  <2> QED BY <1>5, <2>1, <2>3 DEF Memorias
<1>14. x.pc = p /\ x.vista = mem[a].vista /\ x.guarda = mem[a].guarda /\ x.op = mem[a].op
  BY <1>11 DEF Memorias
<1> HIDE DEF x
<1>15. MemoriaDe(a, x, guardas', lote') /\ GuardaSigue(a, x)
  BY <1>1, <1>2, <1>6, <1>12, <1>14, Consta DEF MemoriaDe, PorEnviar, GuardaSigue
<1> QED BY <1>8, <1>10, <1>11, <1>13, <1>15, Avanza

----------------------------------------------------------------------------
(* Steps of a run: one sublote.                                             *)

\* The sublote did not reach ARCA: its guard, if it still has to close it, was
\* never sent
LEMMA SinEnviarConserva ==
    ASSUME InductivoLote, NEW a \in Actores, NEW s \in SUBSET Grupos,
           NEW c \in {"nada", "cerrada_pre_arca"}, NEW r \in BOOLEAN,
           SinEnviar(a, s, c, r), UNCHANGED <<lote, grupo, op>>,
           mem[a].op \in Claves, mem[a].pc \notin {"inicio", "bloquear"},
           guardas' \in Seq(FilasGuarda), GuardasSanas', GuardasSiguen(mem[a].guarda),
           c # "nada" => /\ mem[a].guarda > 0
                         /\ guardas'[mem[a].guarda].arca = "no_enviada"
    PROVE  InductivoLote'
<1>1. /\ lote' \in FilasLote /\ grupo' \in [Grupos -> EstadosGrupo] /\ ColaConDueno'
      /\ op' \in [Claves -> FilasOperacion] /\ AbiertaSinRespuesta' /\ DuenoSigue
  BY DEF InductivoLote, FilasEnForma, ColaConDueno, AbiertaSinRespuesta, DuenoSigue
<1>2. TablasSanas'
  BY <1>1 DEF TablasSanas
<1>3. CASE Fin(a, "error_interno")
  BY <1>1, <1>2, <1>3, Termina DEF RespuestasHttp
<1> DEFINE w == IF r THEN lote ELSE mem[a].vista
           q == mem[a].pend \ s
           x == [mem[a] EXCEPT !.pc = "aplicar", !.sub = s, !.aut = {}, !.pend = q,
                               !.cierre = c, !.vista = w]
<1>4. CASE mem' = [mem EXCEPT ![a].pc = "aplicar", ![a].sub = s, ![a].aut = {},
                          ![a].pend = @ \ s, ![a].cierre = c,
                          ![a].vista = IF r THEN lote ELSE @]
  <2>1. mem' = [mem EXCEPT ![a] = x] /\ mem[a] \in Memorias
    BY <1>4, Consta
  <2>2. w \in FilasLote /\ q \in SUBSET Grupos
        /\ (w.dueno \in Claves => lote.dueno \in Claves)
    BY <2>1, Consta DEF Memorias, MemoriaDe
  <2> HIDE DEF w, q
  <2>3. x \in Memorias
    <3> DEFINE y == mem[a]
               y1 == [y EXCEPT !.pc = "aplicar", !.cierre = c]
               y2 == [y1 EXCEPT !.sub = s, !.aut = {}]
    <3>1. x = [y2 EXCEPT !.pend = q, !.vista = w]
      OBVIOUS
    <3>2. y \in Memorias
      BY <2>1
    <3> HIDE DEF y, x
    <3>3. y1 \in Memorias
      BY <3>2, PasosConocidos DEF Memorias
    <3> HIDE DEF y1
    <3>4. y2 \in Memorias
      BY <3>3 DEF Memorias
    <3> HIDE DEF y2
    <3> QED BY <2>2, <3>1, <3>4 DEF Memorias
  <2>4. x.pc = "aplicar" /\ x.vista = w /\ x.guarda = mem[a].guarda /\ x.op = mem[a].op
        /\ x.cierre = c
    BY <2>1 DEF Memorias
  <2> HIDE DEF x
  <2>5. Len(guardas') \in Nat /\ Len(guardas) <= Len(guardas') /\ mem[a].guarda \in Int
        /\ Len(guardas) \in Nat
    BY <2>1, Consta DEF GuardasSiguen, Memorias
  <2>6. x.guarda \in -1..Len(guardas')
    BY <2>4, <2>5, Consta DEF MemoriaDe
  <2>7. MemoriaDe(a, x, guardas', lote') /\ GuardaSigue(a, x)
    BY <2>2, <2>4, <2>6, Consta DEF MemoriaDe, PorEnviar, GuardaSigue
  <2> QED BY <1>1, <1>2, <2>1, <2>3, <2>7, Avanza
<1> QED BY <1>3, <1>4 DEF SinEnviar

\* ... and its guards are as they were
LEMMA SinEnviarSolo ==
    ASSUME InductivoLote, NEW a \in Actores, NEW s \in SUBSET Grupos, NEW r \in BOOLEAN,
           SinEnviar(a, s, "nada", r), UNCHANGED tablas,
           mem[a].op \in Claves, mem[a].pc \notin {"inicio", "bloquear"}
    PROVE  InductivoLote'
<1>1. TablasSanas' /\ GuardasSiguen(mem[a].guarda)
  BY TablasQuietas
<1> QED BY <1>1, SinEnviarConserva DEF TablasSanas, tablas

LEMMA SubloteEnForma ==
    ASSUME InductivoLote, NEW a \in Actores
    PROVE  Primeros(mem[a].pend, mem[a].chunk) \in SUBSET Grupos
BY Consta DEF Memorias, Primeros

LEMMA PasoVerificar ==
    ASSUME InductivoLote, NEW a \in Actores, Verificar(a)
    PROVE  InductivoLote'
<1> DEFINE s == Primeros(mem[a].pend, mem[a].chunk)
<1>1. UNCHANGED tablas /\ mem[a].pc = "verificar"
  BY DEF Verificar, En
<1>2. mem[a].op \in Claves /\ mem[a].pc \notin {"inicio", "bloquear"}
  BY <1>1, ClaveEnMano DEF SinClave
<1>3. s \in SUBSET Grupos
  BY SubloteEnForma
<1>4. Ir(a, "reservar") \/ SinEnviar(a, s, "nada", FALSE)
  BY DEF Verificar
<1> HIDE DEF s
<1> QED BY <1>1, <1>2, <1>3, <1>4, SoloSigue, SinEnviarSolo DEF Libres

\* A new guard, of an operation and for groups of the lote
LEMMA NuevaForma ==
    ASSUME InductivoLote, NEW k \in Claves, NEW s \in SUBSET Grupos,
           guardas' = Append(guardas, GuardaNueva(k, s))
    PROVE  /\ guardas' \in Seq(FilasGuarda) /\ GuardasSanas' /\ \A i : GuardasSiguen(i)
           /\ Len(guardas') = Len(guardas) + 1
           /\ guardas'[Len(guardas) + 1].arca = "no_enviada"
<1> DEFINE x == GuardaNueva(k, s)
           t == [g \in s |-> "en_proceso"]
<1>1. t \in [s -> EstadosIntentoLote]
  BY DEF EstadosIntentoLote
<1>2. x = [op |-> k, grupos |-> s, fase |-> "pre_arca", intento |-> t,
           arca |-> "no_enviada", aut |-> {}]
  BY DEF GuardaNueva
<1> HIDE DEF t, x
<1>3. x \in FilasGuarda
  BY <1>1, <1>2 DEF FilasGuarda, FasesPrevias
<1>4. GuardaSana(x)
  BY <1>1, <1>2 DEF GuardaSana, CaeDe
<1>5. guardas \in Seq(FilasGuarda) /\ Len(guardas) \in Nat /\ DOMAIN guardas = 1..Len(guardas)
  BY Consta DEF InductivoLote, FilasEnForma
<1>6. guardas' = Append(guardas, x)
  BY DEF x
<1>7. /\ guardas' \in Seq(FilasGuarda) /\ Len(guardas') = Len(guardas) + 1
      /\ \A j \in DOMAIN guardas : guardas'[j] = guardas[j]
      /\ guardas'[Len(guardas) + 1] = x
  BY <1>3, <1>5, <1>6
<1>8. GuardasSanas'
  <2>1. DOMAIN guardas' = 1..(Len(guardas) + 1)
    BY <1>7
  <2> QED BY <1>4, <1>5, <1>7, <2>1 DEF InductivoLote, GuardasSanas
<1>9. \A i : GuardasSiguen(i)
  <2>1. \A z : Suave(z, z)
    BY DEF Suave
  <2> QED BY <1>5, <1>7, <2>1 DEF GuardasSiguen
<1> QED BY <1>2, <1>7, <1>8, <1>9

LEMMA PasoReservar ==
    ASSUME InductivoLote, NEW a \in Actores, Reservar(a)
    PROVE  InductivoLote'
<1> DEFINE s == Primeros(mem[a].pend, mem[a].chunk)
           q == mem[a].pend \ s
           n == Len(guardas) + 1
           x == [mem[a] EXCEPT !.pc = "marcar", !.sub = s, !.pend = q,
                               !.guarda = n, !.iniciada = FALSE]
<1>1. UNCHANGED <<lote, grupo, op>> /\ mem[a].pc = "reservar"
  BY DEF Reservar, En
<1>2. mem[a].op \in Claves /\ mem[a].pc \notin {"inicio", "bloquear"}
  BY <1>1, ClaveEnMano DEF SinClave
<1>3. s \in SUBSET Grupos
  BY SubloteEnForma
<1>4. ASSUME NEW r \in BOOLEAN, SinEnviar(a, s, "nada", r), UNCHANGED guardas
      PROVE  InductivoLote'
  <2>1. UNCHANGED tablas
    BY <1>1, <1>4 DEF tablas
  <2> HIDE DEF s
  <2> QED BY <1>2, <1>3, <1>4, <2>1, SinEnviarSolo
<1>5. CASE /\ guardas' = Append(guardas, GuardaNueva(mem[a].op, s))
           /\ mem' = [mem EXCEPT ![a].pc = "marcar", ![a].sub = s, ![a].pend = @ \ s,
                                ![a].guarda = Len(guardas) + 1, ![a].iniciada = FALSE]
  <2>1. mem' = [mem EXCEPT ![a] = x] /\ mem[a] \in Memorias
    BY <1>5, Consta
  <2>2. n \in Int /\ n > 0 /\ q \in SUBSET Grupos
    BY Consta DEF Memorias
  <2>3. /\ guardas' \in Seq(FilasGuarda) /\ GuardasSanas'
        /\ GuardasSiguen(mem[a].guarda) /\ Len(guardas') = n
        /\ guardas'[n].arca = "no_enviada"
    <3> HIDE DEF s
    <3> QED BY <1>2, <1>3, <1>5, NuevaForma
  <2>4. n > Len(guardas)
    BY Consta
  <2> HIDE DEF s, q, n
  <2>5. x \in Memorias
    BY <1>3, <2>1, <2>2, PasosConocidos DEF Memorias
  <2>6. x.pc = "marcar" /\ x.vista = mem[a].vista /\ x.guarda = n /\ x.op = mem[a].op
    BY <2>1 DEF Memorias
  <2> HIDE DEF x
  <2>7. MemoriaDe(a, x, guardas', lote') /\ GuardaSigue(a, x)
    BY <1>1, <1>2, <2>2, <2>3, <2>4, <2>6, Consta DEF MemoriaDe, PorEnviar, GuardaSigue
  <2>8. TablasSanas' /\ DuenoSigue
    BY <1>1, <2>3 DEF TablasSanas, DuenoSigue, InductivoLote, FilasEnForma, ColaConDueno,
       AbiertaSinRespuesta
  <2> QED BY <2>1, <2>3, <2>5, <2>7, <2>8, Avanza
<1> QED BY <1>4, <1>5 DEF Reservar, K

LEMMA PasoReservarPerdida ==
    ASSUME InductivoLote, NEW a \in Actores, ReservarPerdida(a)
    PROVE  InductivoLote'
<1> DEFINE u == -1
           x == [mem[a] EXCEPT !.pc = "recuperar", !.guarda = u, !.iniciada = FALSE]
<1>1. UNCHANGED tablas /\ mem[a].pc = "reservar"
  BY DEF ReservarPerdida, En
<1>2. mem[a].op \in Claves
  BY <1>1, ClaveEnMano DEF SinClave
<1>3. mem' = [mem EXCEPT ![a] = x] /\ mem[a] \in Memorias
  BY Consta DEF ReservarPerdida
<1>4. u \in Int /\ u = -1
  OBVIOUS
<1> HIDE DEF u
<1>5. x \in Memorias
  <2> DEFINE y == mem[a]
             y1 == [y EXCEPT !.pc = "recuperar", !.iniciada = FALSE]
  <2>1. x = [y1 EXCEPT !.guarda = u]
    OBVIOUS
  <2>2. y \in Memorias
    BY <1>3
  <2> HIDE DEF y, x
  <2>3. y1 \in Memorias
    BY <2>2, PasosConocidos DEF Memorias
  <2> HIDE DEF y1
  <2> QED BY <1>4, <2>1, <2>3 DEF Memorias
<1>6. x.pc = "recuperar" /\ x.vista = mem[a].vista /\ x.guarda = u /\ x.op = mem[a].op
  BY <1>3 DEF Memorias
<1> HIDE DEF x
<1>7. MemoriaDe(a, x, guardas', lote') /\ GuardaSigue(a, x)
  BY <1>1, <1>2, <1>4, <1>6, Consta DEF MemoriaDe, PorEnviar, GuardaSigue, tablas
<1> QED BY <1>1, <1>3, <1>5, <1>7, TablasQuietas, Avanza

----------------------------------------------------------------------------
(* Steps of a run: to ARCA and back.                                        *)

LEMMA PropiaExiste ==
    ASSUME InductivoLote, NEW a \in Actores,
           \/ mem[a].pc \in PorEnviar \cup {"esperar"}
           \/ mem[a].pc = "aplicar" /\ mem[a].cierre # "nada"
    PROVE  mem[a].guarda \in DOMAIN guardas /\ mem[a].guarda > 0
<1>1. mem[a].guarda \in Int /\ mem[a].guarda > 0 /\ mem[a].guarda \in -1..Len(guardas)
  BY Consta DEF MemoriaDe, Memorias
<1> QED BY <1>1, Consta

\* Only guards change
LEMMA SoloGuardas ==
    ASSUME InductivoLote, UNCHANGED <<lote, grupo, op>>,
           guardas' \in Seq(FilasGuarda), GuardasSanas'
    PROVE  TablasSanas' /\ DuenoSigue
BY DEF TablasSanas, DuenoSigue, InductivoLote, FilasEnForma, ColaConDueno,
   AbiertaSinRespuesta

LEMMA PasoMarcar ==
    ASSUME InductivoLote, NEW a \in Actores, Marcar(a)
    PROVE  InductivoLote'
<1> DEFINE i == mem[a].guarda
           s == mem[a].sub
<1>1. UNCHANGED <<lote, grupo, op>> /\ mem[a].pc = "marcar"
  BY DEF Marcar, En
<1>2. mem[a].op \in Claves /\ mem[a].pc \notin {"inicio", "bloquear"}
  BY <1>1, ClaveEnMano DEF SinClave
<1>3. i \in DOMAIN guardas /\ i > 0
  BY <1>1, PropiaExiste DEF PorEnviar
<1>4. s \in SUBSET Grupos /\ mem[a] \in Memorias
  BY Consta DEF Memorias
<1>5. guardas[i].arca = "no_enviada"
  BY <1>1, Consta DEF MemoriaDe, PorEnviar
<1>6. CASE /\ guardas' = [guardas EXCEPT ![i].fase = "arca_iniciada"]
           /\ mem' = [mem EXCEPT ![a].pc = "solicitar", ![a].iniciada = TRUE]
  <2> DEFINE x == [mem[a] EXCEPT !.pc = "solicitar", !.iniciada = TRUE]
  <2>1. mem' = [mem EXCEPT ![a] = x]
    BY <1>6, Consta
  <2>2. x \in Memorias
    BY <1>4, PasosConocidos DEF Memorias
  <2>3. x.pc = "solicitar" /\ x.vista = mem[a].vista /\ x.guarda = i /\ x.op = mem[a].op
    BY <1>4 DEF Memorias
  <2> HIDE DEF x
  <2>4. /\ guardas' \in Seq(FilasGuarda) /\ GuardasSanas' /\ GuardasSiguen(i)
        /\ guardas'[i].fase = "arca_iniciada" /\ guardas'[i].arca = "no_enviada"
        /\ Len(guardas') = Len(guardas)
    <3> HIDE DEF i
    <3>1. "arca_iniciada" \in FasesCruzadas
      BY DEF FasesCruzadas
    <3> QED BY <1>3, <1>5, <1>6, <3>1, FaseForma
  <2>5. MemoriaDe(a, x, guardas', lote') /\ GuardaSigue(a, x)
    BY <1>1, <1>2, <1>3, <2>3, <2>4, Consta
       DEF MemoriaDe, PorEnviar, GuardaSigue, FasesCruzadas
  <2>6. TablasSanas' /\ DuenoSigue
    BY <1>1, <2>4, SoloGuardas
  <2> QED BY <2>1, <2>2, <2>4, <2>5, <2>6, Avanza
<1>7. ASSUME NEW r \in BOOLEAN, SinEnviar(a, s, "nada", r),
             guardas' = GuardaCerrada(i, "cerrada_pre_arca", {})
      PROVE  InductivoLote'
  <2>1. guardas' \in Seq(FilasGuarda) /\ GuardasSanas' /\ GuardasSiguen(i)
    BY <1>3, <1>5, <1>7, CerradaForma
  <2> HIDE DEF s
  <2> QED BY <1>1, <1>2, <1>4, <1>7, <2>1, SinEnviarConserva
<1>8. ASSUME NEW r \in BOOLEAN, SinEnviar(a, s, "cerrada_pre_arca", r), UNCHANGED guardas
      PROVE  InductivoLote'
  <2>1. UNCHANGED tablas
    BY <1>1, <1>8 DEF tablas
  <2>2. TablasSanas' /\ GuardasSiguen(i)
    BY <2>1, TablasQuietas
  <2>3. guardas'[i].arca = "no_enviada"
    BY <1>5, <1>8
  <2>4. guardas' \in Seq(FilasGuarda) /\ GuardasSanas'
    BY <2>2 DEF TablasSanas
  <2> HIDE DEF s
  <2> QED BY <1>1, <1>2, <1>3, <1>4, <1>8, <2>2, <2>3, <2>4, SinEnviarConserva
<1> QED BY <1>6, <1>7, <1>8 DEF Marcar

LEMMA PasoMarcarAmbigua ==
    ASSUME InductivoLote, NEW a \in Actores, MarcarAmbigua(a)
    PROVE  InductivoLote'
<1> DEFINE i == mem[a].guarda
<1>1. /\ UNCHANGED <<lote, grupo, op>> /\ mem[a].pc = "marcar" /\ Ir(a, "recuperar")
      /\ guardas' = [guardas EXCEPT ![i].fase = "arca_iniciada"]
  BY DEF MarcarAmbigua, En
<1>2. mem[a].op \in Claves /\ mem[a].pc \notin {"inicio", "bloquear"}
  BY <1>1, ClaveEnMano DEF SinClave
<1>3. i \in DOMAIN guardas
  BY <1>1, PropiaExiste DEF PorEnviar
<1>4. guardas' \in Seq(FilasGuarda) /\ GuardasSanas' /\ GuardasSiguen(i)
  <2> HIDE DEF i
  <2>1. "arca_iniciada" \in FasesCruzadas
    BY DEF FasesCruzadas
  <2> QED BY <1>1, <1>3, <2>1, FaseForma
<1>5. TablasSanas' /\ DuenoSigue
  BY <1>1, <1>4, SoloGuardas
<1> QED BY <1>1, <1>2, <1>4, <1>5, Sigue DEF Libres

\* One guard: what ARCA is asked or answers, its phase and intentos as they are
LEMMA ArcaForma ==
    ASSUME InductivoLote, NEW i \in DOMAIN guardas,
           NEW c \in {"en_vuelo", "procesada", "rechazo_global"},
           NEW s \in SUBSET guardas[i].grupos,
           guardas[i].fase \in FasesCruzadas, c # "procesada" => s = {},
           guardas' = [guardas EXCEPT ![i].arca = c, ![i].aut = s]
    PROVE  /\ guardas' \in Seq(FilasGuarda) /\ GuardasSanas' /\ GuardasSiguen(i)
           /\ Len(guardas') = Len(guardas) /\ guardas'[i].fase \in FasesCruzadas
           /\ guardas'[i].arca = c
<1> DEFINE y == guardas[i]
           x == [y EXCEPT !.arca = c, !.aut = s]
<1>1. y \in FilasGuarda /\ GuardaSana(y) /\ guardas \in Seq(FilasGuarda)
  BY GuardaEnForma DEF InductivoLote, FilasEnForma
<1>2. guardas' = [guardas EXCEPT ![i] = x]
  BY <1>1
<1>3. s \subseteq y.grupos /\ y.grupos \subseteq Grupos /\ y.fase \in FasesCruzadas
  BY <1>1 DEF FilasGuarda
<1> HIDE DEF y
<1>4. x \in FilasGuarda
  BY <1>1, <1>3 DEF FilasGuarda
<1>5. x.fase = y.fase /\ x.arca = c /\ x.aut = s /\ x.intento = y.intento
      /\ x.grupos = y.grupos
  BY <1>1 DEF FilasGuarda
<1> HIDE DEF x
<1>6. GuardaSana(x)
  BY <1>1, <1>3, <1>5 DEF GuardaSana, CaeDe, FasesCruzadas, FasesPrevias, FasesActivas
<1> QED BY <1>2, <1>3, <1>4, <1>5, <1>6, GuardaCambia

LEMMA PasoSolicitar ==
    ASSUME InductivoLote, NEW a \in Actores, Solicitar(a)
    PROVE  InductivoLote'
<1> DEFINE i == mem[a].guarda
           x == [mem[a] EXCEPT !.pc = "esperar"]
<1>1. /\ UNCHANGED <<lote, grupo, op>> /\ mem[a].pc = "solicitar" /\ Ir(a, "esperar")
      /\ guardas' = [guardas EXCEPT ![i].arca = "en_vuelo"]
  BY DEF Solicitar, En
<1>2. mem[a].op \in Claves
  BY <1>1, ClaveEnMano DEF SinClave
<1>3. i \in DOMAIN guardas /\ i > 0
  BY <1>1, PropiaExiste DEF PorEnviar
<1>4. guardas[i].arca = "no_enviada" /\ guardas[i].fase \in FasesCruzadas
  BY <1>1, Consta DEF MemoriaDe, PorEnviar
<1>5. guardas[i] \in FilasGuarda /\ guardas[i].aut = {}
  BY <1>3, <1>4, GuardaEnForma DEF GuardaSana
<1>6. guardas' = [guardas EXCEPT ![i].arca = "en_vuelo", ![i].aut = {}]
  <2> DEFINE y == guardas[i]
  <2>1. [y EXCEPT !.arca = "en_vuelo"] = [y EXCEPT !.arca = "en_vuelo", !.aut = {}]
    BY <1>5 DEF FilasGuarda
  <2> QED BY <1>1, <1>3, <2>1, Consta
<1>7. /\ guardas' \in Seq(FilasGuarda) /\ GuardasSanas' /\ GuardasSiguen(i)
      /\ Len(guardas') = Len(guardas)
  <2> DEFINE c == "en_vuelo"
             s == {}
  <2>1. /\ c \in {"en_vuelo", "procesada", "rechazo_global"}
        /\ s \in SUBSET guardas[i].grupos /\ (c # "procesada" => s = {})
        /\ guardas' = [guardas EXCEPT ![i].arca = c, ![i].aut = s]
    BY <1>6
  <2> HIDE DEF i, c, s
  <2> QED BY <1>3, <1>4, <2>1, ArcaForma
<1>8. mem' = [mem EXCEPT ![a] = x] /\ mem[a] \in Memorias
  BY <1>1, Consta DEF Ir
<1>9. x \in Memorias
  BY <1>8, PasosConocidos DEF Memorias
<1>10. x.pc = "esperar" /\ x.vista = mem[a].vista /\ x.guarda = i /\ x.op = mem[a].op
  BY <1>8 DEF Memorias
<1> HIDE DEF x
<1>11. MemoriaDe(a, x, guardas', lote') /\ GuardaSigue(a, x)
  BY <1>1, <1>2, <1>3, <1>7, <1>10, Consta DEF MemoriaDe, PorEnviar, GuardaSigue
<1>12. TablasSanas' /\ DuenoSigue
  BY <1>1, <1>7, SoloGuardas
<1> QED BY <1>7, <1>8, <1>9, <1>11, <1>12, Avanza

LEMMA PasoRecibir ==
    ASSUME InductivoLote, NEW a \in Actores, RecibirResultado(a)
    PROVE  InductivoLote'
<1> DEFINE i == mem[a].guarda
           t == guardas[i].aut
           x == [mem[a] EXCEPT !.pc = "aplicar", !.aut = t, !.cierre = "cerrada_terminal"]
<1>1. UNCHANGED tablas /\ mem[a].pc = "esperar" /\ guardas[i].arca = "procesada"
  BY DEF RecibirResultado, En
<1>2. mem[a].op \in Claves
  BY <1>1, ClaveEnMano DEF SinClave
<1>3. i \in DOMAIN guardas /\ i > 0
  BY <1>1, PropiaExiste
<1>4. t \in SUBSET Grupos
  BY <1>3, GuardaEnForma DEF FilasGuarda
<1>5. mem' = [mem EXCEPT ![a] = x] /\ mem[a] \in Memorias
  BY Consta DEF RecibirResultado
<1> HIDE DEF t
<1>6. x \in Memorias
  <2> DEFINE y == mem[a]
             y1 == [y EXCEPT !.pc = "aplicar"]
  <2>1. x = [y1 EXCEPT !.aut = t, !.cierre = "cerrada_terminal"]
    OBVIOUS
  <2>2. y \in Memorias
    BY <1>5
  <2> HIDE DEF y, x
  <2>3. y1 \in Memorias
    BY <2>2, PasosConocidos DEF Memorias
  <2> HIDE DEF y1
  <2> QED BY <1>4, <2>1, <2>3 DEF Memorias
<1>7. x.pc = "aplicar" /\ x.vista = mem[a].vista /\ x.guarda = i /\ x.op = mem[a].op
      /\ x.aut = t /\ x.cierre = "cerrada_terminal"
  BY <1>5 DEF Memorias
<1> HIDE DEF x
<1>8. MemoriaDe(a, x, guardas', lote') /\ GuardaSigue(a, x)
  BY <1>1, <1>2, <1>3, <1>7, Consta DEF MemoriaDe, PorEnviar, GuardaSigue, tablas, t
<1> QED BY <1>1, <1>5, <1>6, <1>8, TablasQuietas, Avanza

LEMMA PasoRechazoGlobal ==
    ASSUME InductivoLote, NEW a \in Actores, CerrarRechazoGlobal(a)
    PROVE  InductivoLote'
<1> DEFINE i == mem[a].guarda
           S == mem[a].sub \cup mem[a].pend
           gr == [g \in Grupos |-> IF g \in S THEN "fallido" ELSE grupo[g]]
           e == EstadoLote(gr)
<1>1. mem[a].pc = "esperar" /\ guardas[i].arca = "rechazo_global"
  BY DEF CerrarRechazoGlobal, En
<1>2. mem[a].op \in Claves /\ mem[a].pc \notin {"inicio", "bloquear"}
  BY <1>1, ClaveEnMano DEF SinClave
<1>3. CASE AnteCorte(a) /\ UNCHANGED tablas
  BY <1>2, <1>3, SoloCorte
<1>4. CASE /\ grupo' = gr
           /\ guardas' = GuardaCerrada(i, "cerrada_terminal", {})
           /\ lote' = [lote EXCEPT !.estado = e, !.vieja = FALSE]
           /\ ResponderOperacion(K(a), "rechazado_arca", "final")
           /\ Fin(a, "final")
  <2>1. i \in DOMAIN guardas
    BY <1>1, PropiaExiste
  <2>2. guardas' \in Seq(FilasGuarda) /\ GuardasSanas' /\ GuardasSiguen(i)
    <3> HIDE DEF i
    <3> QED BY <1>1, <1>4, <2>1, CerradaForma
  <2>3. grupo' \in [Grupos -> EstadosGrupo]
    <3> HIDE DEF S
    <3> QED BY <1>4, Consta DEF EstadosGrupo
  <2>4. e \in EstadosLote \ Activos
    BY EstadoLoteForma
  <2>5. lote' \in FilasLote /\ ColaConDueno' /\ DuenoSigue
    <3> HIDE DEF e
    <3> QED BY <1>4, <2>4, Consta, LoteAsentado
  <2>6. op' \in [Claves -> FilasOperacion] /\ AbiertaSinRespuesta'
    BY <1>4, ResponderForma DEF EstadosOperacion, Respuestas
  <2>7. TablasSanas' /\ GuardasSiguen(i)
    <3> HIDE DEF i
    <3> QED BY <2>2, <2>3, <2>5, <2>6, TodoEscrito
  <2> QED BY <1>4, <2>5, <2>7, Termina DEF RespuestasHttp, Respuestas
<1> QED BY <1>3, <1>4 DEF CerrarRechazoGlobal

LEMMA PasoIncertidumbre ==
    ASSUME InductivoLote, NEW a \in Actores, CerrarIncertidumbre(a)
    PROVE  InductivoLote'
<1> DEFINE s == mem[a].sub \cup mem[a].pend
<1>1. mem[a].pc = "esperar"
  BY DEF CerrarIncertidumbre, En
<1>2. mem[a].op \in Claves /\ mem[a].pc \notin {"inicio", "bloquear"}
  BY <1>1, ClaveEnMano DEF SinClave
<1>3. CASE AnteCorte(a) /\ UNCHANGED tablas
  BY <1>2, <1>3, SoloCorte
<1>4. CASE /\ guardas' = GuardasInciertas(K(a), s)
           /\ Inmovilizar(s)
           /\ ResponderOperacion(K(a), "requiere_reconciliacion", "final")
           /\ Fin(a, "final")
  <2> HIDE DEF s
  <2>1. guardas' \in Seq(FilasGuarda) /\ GuardasSanas' /\ GuardasSiguen(mem[a].guarda)
    BY <1>4, InciertasForma
  <2>2. /\ lote' \in FilasLote /\ grupo' \in [Grupos -> EstadosGrupo]
        /\ ColaConDueno' /\ DuenoSigue
    BY <1>4, InmovilizarForma
  <2>3. op' \in [Claves -> FilasOperacion] /\ AbiertaSinRespuesta'
    BY <1>4, ResponderForma DEF EstadosOperacion, Respuestas
  <2>4. TablasSanas' /\ GuardasSiguen(mem[a].guarda)
    BY <2>1, <2>2, <2>3, TodoEscrito
  <2> QED BY <1>4, <2>2, <2>4, Termina DEF RespuestasHttp, Respuestas
<1> QED BY <1>3, <1>4 DEF CerrarIncertidumbre

\* The commit of a group: the guard is closed with what ARCA answered, or was
\* never sent
LEMMA PasoAplicar ==
    ASSUME InductivoLote, NEW a \in Actores, AplicarGrupo(a)
    PROVE  InductivoLote'
<1> DEFINE m == mem[a]
           g == CHOOSE h \in m.sub : \A j \in m.sub : h <= j
           n == IF g \in m.aut THEN "autorizado" ELSE "fallido"
           gr == [grupo EXCEPT ![g] = n]
           e == Recalculado(m.vista.estado, gr)
           w == [m.vista EXCEPT !.estado = e]
           q == m.sub \ {g}
           p == IF m.sub # {g} THEN "aplicar"
                ELSE IF m.pend # {} THEN "verificar" ELSE "terminar"
           x == [m EXCEPT !.sub = q, !.cierre = "nada", !.vista = w, !.pc = p]
<1>1. /\ m.pc = "aplicar" /\ grupo' = gr /\ op' = op
      /\ guardas' = IF m.cierre = "nada" THEN guardas
                    ELSE GuardaCerrada(m.guarda, m.cierre, m.aut)
      /\ lote' = Escribir(lote, m.vista, e)
      /\ mem' = [mem EXCEPT ![a].sub = @ \ {g}, ![a].cierre = "nada",
                   ![a].vista.estado = e, ![a].pc = p]
  BY DEF AplicarGrupo, En
<1>2. m.op \in Claves
  BY <1>1, ClaveEnMano DEF SinClave
<1>3. m \in Memorias /\ m.vista \in FilasLote /\ q \in SUBSET Grupos
      /\ m.cierre \in {"nada", "cerrada_pre_arca", "cerrada_terminal"}
  BY Consta DEF Memorias
<1>4. mem' = [mem EXCEPT ![a] = x]
  <2>1. mem \in [Actores -> Memorias]
    BY Consta
  <2>2. mem' = [mem EXCEPT ![a].sub = q, ![a].cierre = "nada",
                   ![a].vista.estado = e, ![a].pc = p]
    <3> HIDE DEF e, p, g
    <3> QED BY <1>1, <2>1
  <2> HIDE DEF e, p, g, q
  <2> QED BY <2>1, <2>2
<1>5. n \in EstadosGrupo /\ p \in {"aplicar", "verificar", "terminar"}
  BY DEF EstadosGrupo
<1>6. grupo' \in [Grupos -> EstadosGrupo]
  <2> HIDE DEF n, g
  <2> QED BY <1>1, <1>5, Consta
<1>7. e \in EstadosLote
  BY <1>3, RecalculadoForma DEF FilasLote
<1>8. lote' \in FilasLote /\ ColaConDueno' /\ DuenoSigue
  <2> HIDE DEF gr, m
  <2> QED BY <1>1, <1>3, RecalculoEscrito
<1>9. guardas' \in Seq(FilasGuarda) /\ GuardasSanas' /\ GuardasSiguen(m.guarda)
      /\ Len(guardas) <= Len(guardas')
  <2>1. CASE m.cierre = "nada"
    <3>1. guardas' = guardas
      BY <1>1, <2>1
    <3> QED BY <3>1, GuardasQuietas DEF InductivoLote, FilasEnForma, GuardasSanas, GuardasSiguen
  <2>2. CASE m.cierre # "nada"
    <3>1. m.guarda \in DOMAIN guardas
      BY <1>1, <2>2, PropiaExiste
    <3>2. \/ m.cierre = "cerrada_pre_arca" /\ guardas[m.guarda].arca = "no_enviada"
          \/ m.cierre = "cerrada_terminal" /\ guardas[m.guarda].arca = "procesada"
             /\ m.aut = guardas[m.guarda].aut
      BY <1>1, <1>3, <2>2, Consta DEF MemoriaDe
    <3>3. guardas' = GuardaCerrada(m.guarda, m.cierre, m.aut)
      BY <1>1, <2>2
    <3> HIDE DEF m
    <3> QED BY <3>1, <3>2, <3>3, CerradaForma DEF GuardasSiguen
  <2> QED BY <2>1, <2>2
<1>10. op' \in [Claves -> FilasOperacion] /\ AbiertaSinRespuesta'
  BY <1>1 DEF InductivoLote, FilasEnForma, AbiertaSinRespuesta
<1>11. TablasSanas' /\ GuardasSiguen(m.guarda)
  <2> HIDE DEF m
  <2> QED BY <1>6, <1>8, <1>9, <1>10, TodoEscrito
<1>12. lote'.dueno = lote.dueno
  <2>1. lote \in FilasLote
    BY Consta
  <2> HIDE DEF e, m
  <2> QED BY <1>1, <1>3, <1>7, <2>1, EscribirForma
<1> HIDE DEF e, q, p
<1>13. w \in FilasLote /\ w.dueno = m.vista.dueno
  BY <1>3, <1>7 DEF FilasLote
<1> HIDE DEF w
<1>14. x \in Memorias
  <2>1. p \in Pasos
    BY <1>5 DEF Pasos
  <2> HIDE DEF m
  <2> QED BY <1>3, <1>13, <2>1 DEF Memorias
<1>15. x.pc = p /\ x.vista = w /\ x.guarda = m.guarda /\ x.op = m.op /\ x.cierre = "nada"
  BY <1>3 DEF Memorias
<1> HIDE DEF x
<1>16. x.guarda \in -1..Len(guardas') /\ x.guarda \in Int
  <2>1. Len(guardas') \in Nat /\ m.guarda \in Int
    BY <1>3, <1>9 DEF Memorias
  <2> QED BY <1>9, <1>15, <2>1, Consta DEF MemoriaDe
<1>17. MemoriaDe(a, x, guardas', lote') /\ GuardaSigue(a, x)
  BY <1>1, <1>2, <1>5, <1>12, <1>13, <1>15, <1>16, Consta DEF MemoriaDe, PorEnviar, GuardaSigue
<1> QED BY <1>4, <1>8, <1>11, <1>14, <1>17, Avanza

LEMMA PasoTerminar ==
    ASSUME InductivoLote, NEW a \in Actores, Terminar(a)
    PROVE  InductivoLote'
<1> DEFINE v == mem[a].vista
           e == EstadoLote(grupo)
           f == EstadoPublicado(e)
           w == [v EXCEPT !.estado = e]
           x == [mem[a] EXCEPT !.pc = "publicar", !.vista = w]
<1>1. mem[a].pc = "terminar" /\ UNCHANGED <<grupo, guardas>>
  BY DEF Terminar, En
<1>2. mem[a].op \in Claves
  BY <1>1, ClaveEnMano DEF SinClave
<1>3. v \in FilasLote /\ mem[a] \in Memorias /\ lote \in FilasLote
  BY Consta DEF Memorias
<1>4. e \in EstadosLote \ Activos
  BY EstadoLoteForma
<1>5. ASSUME lote' = Escribir(lote, v, e)
      PROVE  lote' \in FilasLote /\ lote'.dueno = lote.dueno /\ ColaConDueno' /\ DuenoSigue
  <2> HIDE DEF v, e
  <2>1. lote' \in FilasLote /\ lote'.dueno = lote.dueno /\ lote'.estado \in {lote.estado, e}
    BY <1>3, <1>4, <1>5, EscribirForma
  <2> QED BY <1>4, <2>1 DEF ColaConDueno, DuenoSigue, InductivoLote
<1>6. grupo' \in [Grupos -> EstadosGrupo] /\ guardas' = guardas
  BY <1>1, Consta
<1>7. CASE Fin(a, "error") /\ UNCHANGED <<lote, op>>
  <2>1. UNCHANGED tablas
    BY <1>1, <1>7 DEF tablas
  <2> QED BY <1>7, <2>1, SoloTermina DEF RespuestasHttp, Respuestas
<1>8. CASE lote' = Escribir(lote, v, e) /\ ResponderOperacion(K(a), f, "final")
           /\ Fin(a, "final")
  <2>1. f \in EstadosOperacion \ {"inexistente", "interrumpida_pre_arca"}
    BY PublicadoForma
  <2>2. op' \in [Claves -> FilasOperacion] /\ AbiertaSinRespuesta'
    <3> HIDE DEF f
    <3> QED BY <1>8, <2>1, ResponderForma DEF Respuestas
  <2>3. TablasSanas' /\ GuardasSiguen(mem[a].guarda)
    BY <1>5, <1>6, <1>8, <2>2, TablasEscritas
  <2> QED BY <1>5, <1>8, <2>3, Termina DEF RespuestasHttp, Respuestas
<1>9. CASE /\ lote' = Escribir(lote, v, e) /\ op' = op
           /\ mem' = [mem EXCEPT ![a].pc = "publicar", ![a].vista.estado = e]
  <2>1. mem' = [mem EXCEPT ![a] = x]
    BY <1>9, Consta
  <2>2. op' \in [Claves -> FilasOperacion] /\ AbiertaSinRespuesta'
    BY <1>9 DEF InductivoLote, FilasEnForma, AbiertaSinRespuesta
  <2>3. TablasSanas' /\ GuardasSiguen(mem[a].guarda)
    BY <1>5, <1>6, <1>9, <2>2, TablasEscritas
  <2> HIDE DEF e
  <2>4. w \in FilasLote /\ w.dueno = v.dueno
    BY <1>3, <1>4 DEF FilasLote
  <2> HIDE DEF w
  <2>5. x \in Memorias
    BY <1>3, <2>4, PasosConocidos DEF Memorias
  <2>6. x.pc = "publicar" /\ x.vista = w /\ x.guarda = mem[a].guarda /\ x.op = mem[a].op
    BY <1>3 DEF Memorias
  <2> HIDE DEF x
  <2>7. MemoriaDe(a, x, guardas', lote') /\ GuardaSigue(a, x)
    BY <1>1, <1>2, <1>5, <1>6, <1>9, <2>4, <2>6, Consta DEF MemoriaDe, PorEnviar, GuardaSigue
  <2> QED BY <1>5, <1>9, <2>1, <2>3, <2>5, <2>7, Avanza
<1> QED BY <1>7, <1>8, <1>9 DEF Terminar

LEMMA PasoCorte ==
    ASSUME InductivoLote, NEW a \in Actores, CorteDeBase(a)
    PROVE  InductivoLote'
<1>1. mem[a].pc \in PasosConBase /\ AnteCorte(a) /\ UNCHANGED tablas
  BY DEF CorteDeBase
<1>2. mem[a].op \in Claves /\ mem[a].pc \notin {"inicio", "bloquear"}
  BY <1>1, ClaveEnMano DEF SinClave, PasosConBase
<1> QED BY <1>1, <1>2, SoloCorte

\* A run moves, of a request or of the worker
LEMMA CorridaConserva ==
    ASSUME InductivoLote, NEW a \in Actores, PasoCorrida(a)
    PROVE  InductivoLote'
BY PasoTomar, PasoReleer, PasoCapacidad, PasoVerificar, PasoReservar, PasoReservarPerdida,
   PasoMarcar, PasoMarcarAmbigua, PasoSolicitar, PasoRecibir, PasoRechazoGlobal,
   PasoIncertidumbre, PasoAplicar, PasoTerminar, PasoCorte DEF PasoCorrida

----------------------------------------------------------------------------
(* Steps of the worker.                                                     *)

LEMMA WorkerEsActor == Worker \in Actores
BY DEF Actores

LEMMA PasoListar ==
    ASSUME InductivoLote, Listar
    PROVE  InductivoLote'
<1> USE WorkerEsActor
<1> DEFINE x == [mem[Worker] EXCEPT !.pc = "en_curso"]
<1>1. UNCHANGED tablas /\ lote.estado = "en_cola" /\ Ir(Worker, "en_curso")
  BY DEF Listar
<1>2. mem' = [mem EXCEPT ![Worker] = x] /\ mem[Worker] \in Memorias
  BY <1>1, Consta DEF Ir
<1>3. x \in Memorias
  BY <1>2, PasosConocidos DEF Memorias
<1>4. x.pc = "en_curso" /\ x.vista = mem[Worker].vista /\ x.guarda = mem[Worker].guarda
  BY <1>2 DEF Memorias
<1>5. lote.dueno \in Claves
  BY <1>1 DEF InductivoLote, ColaConDueno, Activos
<1> HIDE DEF x
<1>6. MemoriaDe(Worker, x, guardas', lote') /\ GuardaSigue(Worker, x)
  BY <1>1, <1>4, <1>5, Consta DEF MemoriaDe, PorEnviar, GuardaSigue, tablas
<1> QED BY <1>1, <1>2, <1>3, <1>6, TablasQuietas, Avanza

LEMMA PasoLeerEnCola ==
    ASSUME InductivoLote, LeerEnCola
    PROVE  InductivoLote'
<1> USE WorkerEsActor
<1> DEFINE d == lote.dueno
           t == lote.material
           x == [mem[Worker] EXCEPT !.pc = "tomar", !.op = d, !.vista = lote, !.mat = t]
<1>1. UNCHANGED tablas /\ mem[Worker].pc = "en_curso"
  BY DEF LeerEnCola, En
<1>2. mem' = [mem EXCEPT ![Worker] = x] /\ mem[Worker] \in Memorias
  BY Consta DEF LeerEnCola
<1>3. d \in Claves
  BY <1>1, Consta DEF MemoriaDe
<1>4. lote \in FilasLote /\ t \in SUBSET Grupos
  BY Consta DEF FilasLote
<1> HIDE DEF d, t
<1>5. x \in Memorias
  BY <1>2, <1>3, <1>4, PasosConocidos DEF Memorias
<1>6. x.pc = "tomar" /\ x.vista = lote /\ x.guarda = mem[Worker].guarda /\ x.op = d
  BY <1>2 DEF Memorias
<1> HIDE DEF x
<1>7. MemoriaDe(Worker, x, guardas', lote') /\ GuardaSigue(Worker, x)
  BY <1>1, <1>3, <1>6, Consta DEF MemoriaDe, PorEnviar, GuardaSigue, tablas, d
<1> QED BY <1>1, <1>2, <1>5, <1>7, TablasQuietas, Avanza

LEMMA PasoBloquearInicio ==
    ASSUME InductivoLote, BloquearInicio
    PROVE  InductivoLote'
<1> USE WorkerEsActor
<1> DEFINE d == lote.dueno
           t == Intactos(grupo)
<1>1. UNCHANGED tablas
  BY DEF BloquearInicio
<1>2. PICK p \in {"ok", "error", "no"} :
         mem' = [mem EXCEPT ![Worker].pc = "bloquear", ![Worker].op = d,
                       ![Worker].mat = t, ![Worker].preflight = p]
  BY DEF BloquearInicio
<1> DEFINE x == [mem[Worker] EXCEPT !.pc = "bloquear", !.op = d, !.mat = t, !.preflight = p]
<1>3. mem' = [mem EXCEPT ![Worker] = x] /\ mem[Worker] \in Memorias
  BY <1>2, Consta
<1>4. d \in Claves \cup {Nadie} /\ t \in SUBSET Grupos
  BY Consta DEF FilasLote, Intactos, Con
<1> HIDE DEF d, t
<1>5. x \in Memorias
  <2> DEFINE y == mem[Worker]
             y1 == [y EXCEPT !.pc = "bloquear", !.op = d]
  <2>1. x = [y1 EXCEPT !.mat = t, !.preflight = p]
    OBVIOUS
  <2> HIDE DEF y, x
  <2>2. y \in Memorias
    BY <1>3 DEF y
  <2>3. y1 \in Memorias
    BY <1>4, <2>2, PasosConocidos DEF Memorias
  <2> HIDE DEF y1
  <2> QED BY <1>2, <1>4, <2>1, <2>3 DEF Memorias
<1>6. x.pc = "bloquear" /\ x.vista = mem[Worker].vista /\ x.guarda = mem[Worker].guarda
  BY <1>3 DEF Memorias
<1> HIDE DEF x
<1>7. MemoriaDe(Worker, x, guardas', lote') /\ GuardaSigue(Worker, x)
  BY <1>1, <1>6, Consta DEF MemoriaDe, PorEnviar, SinClave, GuardaSigue, tablas
<1> QED BY <1>1, <1>3, <1>5, <1>7, TablasQuietas, Avanza

\* A lote left procesando is closed, queued again or held
LEMMA PasoBloquearFin ==
    ASSUME InductivoLote, BloquearFin
    PROVE  InductivoLote'
<1> USE WorkerEsActor
<1> DEFINE k == mem[Worker].op
           gr == Vinculados
           valido == Reclamada(k)
           p == mem[Worker].preflight
           mismos == Intactos(gr) = mem[Worker].mat
           retenidos == IF valido /\ p # "error" /\ mismos
                        THEN Con(gr, "validado") \ Intactos(gr) ELSE Con(gr, "validado")
           publica(e) == IF valido THEN ResponderOperacion(k, e, "final")
                                   ELSE UNCHANGED op
           C == ~Stale \/ HayGuardaActivaDe(k)
           D == Stale /\ ~HayGuardaActivaDe(k) /\ EstadoLote(gr) \in Cerrados /\ Coherente(gr)
           PC == UNCHANGED tablas
           PD == /\ grupo' = gr
                 /\ lote' = [lote EXCEPT !.estado = EstadoLote(gr), !.vieja = FALSE]
                 /\ publica("finalizado") /\ UNCHANGED guardas
           PO == IF valido /\ p = "ok" /\ mismos
                 THEN /\ grupo' = gr
                      /\ lote' = [lote EXCEPT !.estado = "en_cola", !.async = TRUE,
                                              !.vieja = FALSE]
                      /\ UNCHANGED <<op, guardas>>
                 ELSE /\ grupo' = [g \in Grupos |-> IF g \in retenidos
                                    THEN "requiere_reconciliacion" ELSE gr[g]]
                      /\ lote' = [lote EXCEPT !.estado = "requiere_reconciliacion",
                                              !.vieja = FALSE]
                      /\ publica("requiere_reconciliacion") /\ UNCHANGED guardas
<1>1. Fin(Worker, "final") /\ (CASE C -> PC [] D -> PD [] OTHER -> PO)
  BY DEF BloquearFin
<1>2. PC \/ PD \/ (PO /\ Stale)
  <2>1. /\ C \in BOOLEAN /\ D \in BOOLEAN /\ PC \in BOOLEAN /\ PD \in BOOLEAN
        /\ PO \in BOOLEAN /\ Stale \in BOOLEAN
    BY DEF Stale
  <2>2. (~C => Stale) /\ ~(C /\ D)
    OBVIOUS
  <2> HIDE DEF C, D, PC, PD, PO
  <2>3. C /\ ~D => PC
    BY <1>1, <2>1
  <2>4. ~C /\ D => PD
    BY <1>1, <2>1
  <2>5. ~C /\ ~D => PO
    BY <1>1, <2>1
  <2> QED BY <2>1, <2>2, <2>3, <2>4, <2>5
<1>3. gr \in [Grupos -> EstadosGrupo]
  BY Consta DEF Vinculados, EstadosGrupo
<1>4. ASSUME NEW e \in {"finalizado", "requiere_reconciliacion"}, publica(e)
      PROVE  op' \in [Claves -> FilasOperacion] /\ AbiertaSinRespuesta'
  <2>1. CASE ResponderOperacion(k, e, "final")
    <3> HIDE DEF k
    <3> QED BY <2>1, ResponderForma DEF EstadosOperacion, Respuestas
  <2>2. CASE op' = op
    BY <2>2 DEF InductivoLote, FilasEnForma, AbiertaSinRespuesta
  <2> HIDE DEF valido
  <2> QED BY <1>4, <2>1, <2>2
<1>5. "final" \in RespuestasHttp
  BY DEF RespuestasHttp, Respuestas
<1> HIDE DEF gr, C, D
<1>6. CASE PC
  BY <1>1, <1>5, <1>6, SoloTermina
<1>7. CASE PD
  <2>1. EstadoLote(gr) \in EstadosLote \ Activos
    BY EstadoLoteForma
  <2> DEFINE e == EstadoLote(gr)
  <2>2. e \in EstadosLote \ Activos /\ lote' = [lote EXCEPT !.estado = e, !.vieja = FALSE]
    BY <1>7, <2>1
  <2> HIDE DEF e
  <2>3. lote' \in FilasLote /\ ColaConDueno' /\ DuenoSigue
    BY <2>2, Consta, LoteAsentado
  <2>4. op' \in [Claves -> FilasOperacion] /\ AbiertaSinRespuesta'
    BY <1>4, <1>7
  <2>5. TablasSanas' /\ GuardasSiguen(mem[Worker].guarda)
    BY <1>3, <1>7, <2>3, <2>4, TablasEscritas
  <2> QED BY <1>1, <1>5, <2>3, <2>5, Termina
<1>8. CASE /\ Stale /\ grupo' = gr
           /\ lote' = [lote EXCEPT !.estado = "en_cola", !.async = TRUE, !.vieja = FALSE]
           /\ UNCHANGED <<op, guardas>>
  <2>1. lote.dueno \in Claves /\ lote \in FilasLote
    BY <1>8, Consta DEF Stale, InductivoLote, ColaConDueno, Activos
  <2>2. lote' \in FilasLote /\ lote'.dueno \in Claves
    BY <1>8, <2>1 DEF FilasLote, EstadosLote, Procesables
  <2>3. ColaConDueno' /\ DuenoSigue
    BY <2>2, LoteActivo
  <2>4. op' \in [Claves -> FilasOperacion] /\ AbiertaSinRespuesta'
    BY <1>8 DEF InductivoLote, FilasEnForma, AbiertaSinRespuesta
  <2>5. TablasSanas' /\ GuardasSiguen(mem[Worker].guarda)
    BY <1>3, <1>8, <2>2, <2>3, <2>4, TablasEscritas
  <2> QED BY <1>1, <1>5, <2>3, <2>5, Termina
<1>9. CASE /\ grupo' = [g \in Grupos |-> IF g \in retenidos
                                    THEN "requiere_reconciliacion" ELSE gr[g]]
           /\ lote' = [lote EXCEPT !.estado = "requiere_reconciliacion", !.vieja = FALSE]
           /\ publica("requiere_reconciliacion") /\ UNCHANGED guardas
  <2>1. "requiere_reconciliacion" \in EstadosLote \ Activos
    BY DEF EstadosLote, Terminales, Activos
  <2>2. lote' \in FilasLote /\ ColaConDueno' /\ DuenoSigue
    BY <1>9, <2>1, Consta, LoteAsentado
  <2>3. op' \in [Claves -> FilasOperacion] /\ AbiertaSinRespuesta'
    BY <1>4, <1>9
  <2>4. grupo' \in [Grupos -> EstadosGrupo]
    <3> HIDE DEF retenidos
    <3> QED BY <1>3, <1>9 DEF EstadosGrupo
  <2>5. TablasSanas' /\ GuardasSiguen(mem[Worker].guarda)
    BY <1>9, <2>2, <2>3, <2>4, TablasEscritas
  <2> QED BY <1>1, <1>5, <2>2, <2>5, Termina
<1> HIDE DEF valido, mismos, retenidos, publica
<1> QED BY <1>2, <1>6, <1>7, <1>8, <1>9

\* Queued again, by the worker that lost its connection
LEMMA ReencolarForma ==
    ASSUME InductivoLote, Reencolar, lote.dueno \in Claves
    PROVE  lote' \in FilasLote /\ ColaConDueno' /\ DuenoSigue
<1>1. lote' \in FilasLote /\ lote'.dueno \in Claves
  BY Consta, WorkerEsActor DEF Reencolar, FilasLote, EstadosLote, Procesables
<1> QED BY <1>1, LoteActivo

LEMMA PasoRecuperarWorker ==
    ASSUME InductivoLote, RecuperarWorker \/ RecuperarWorkerSinBase
    PROVE  InductivoLote'
<1> USE WorkerEsActor
<1> DEFINE k == lote.dueno
           i == mem[Worker].guarda
           r == ResultadoGuarda(k, i, "nula")
           propia == i > 0 /\ op[k].estado = "en_proceso" /\ ProgresoValido(k, lote.material)
           A == i = 0 /\ GuardasDe(k) = {} /\ lote.estado \in Activos
           B == propia /\ r \in {"ambigua", "reconciliacion"}
           C == /\ propia /\ r = "recuperada" /\ lote.estado \in Activos
                /\ guardas[i].grupos \subseteq Con(grupo, "validado")
           PA == Reencolar /\ UNCHANGED <<grupo, op, guardas>>
           PB == /\ guardas' = GuardaRecuperada(i, r)
                 /\ ResponderOperacion(k, "requiere_reconciliacion", "nula")
                 /\ Inmovilizar(guardas[i].grupos)
           PC == Reencolar /\ guardas' = GuardaRecuperada(i, r) /\ UNCHANGED <<grupo, op>>
           PO == UNCHANGED tablas
<1>1. mem[Worker].pc = "recuperar" /\ Fin(Worker, "error")
  BY DEF RecuperarWorker, RecuperarWorkerSinBase, En
<1>2. lote.dueno \in Claves
  BY <1>1, Consta DEF MemoriaDe
<1>3. "error" \in RespuestasHttp
  BY DEF RespuestasHttp, Respuestas
<1>4. CASE PO
  BY <1>1, <1>3, <1>4, SoloTermina
<1>5. CASE PA
  <2>1. lote' \in FilasLote /\ ColaConDueno' /\ DuenoSigue
    BY <1>2, <1>5, ReencolarForma
  <2>2. /\ grupo' \in [Grupos -> EstadosGrupo] /\ guardas' = guardas
        /\ op' \in [Claves -> FilasOperacion] /\ AbiertaSinRespuesta'
    BY <1>5 DEF InductivoLote, FilasEnForma, AbiertaSinRespuesta
  <2>3. TablasSanas' /\ GuardasSiguen(i)
    BY <2>1, <2>2, TablasEscritas
  <2> QED BY <1>1, <1>3, <2>1, <2>3, Termina
<1>6. ASSUME r # "no_recuperable", guardas' = GuardaRecuperada(i, r)
      PROVE  guardas' \in Seq(FilasGuarda) /\ GuardasSanas' /\ GuardasSiguen(i)
  <2> DEFINE z == "nula"
  <2>1. r = ResultadoGuarda(k, i, z)
    OBVIOUS
  <2> HIDE DEF r, k, i, z
  <2> QED BY <1>6, <2>1, RecuperadaForma
<1>7. CASE B /\ PB
  <2>1. guardas' \in Seq(FilasGuarda) /\ GuardasSanas' /\ GuardasSiguen(i)
    <3>1. r # "no_recuperable" /\ guardas' = GuardaRecuperada(i, r)
      BY <1>7
    <3> QED BY <1>6, <3>1
  <2>2. /\ lote' \in FilasLote /\ grupo' \in [Grupos -> EstadosGrupo]
        /\ ColaConDueno' /\ DuenoSigue
    BY <1>7, InmovilizarForma
  <2>3. op' \in [Claves -> FilasOperacion] /\ AbiertaSinRespuesta'
    <3>1. ResponderOperacion(k, "requiere_reconciliacion", "nula")
      BY <1>7
    <3> HIDE DEF k
    <3> QED BY <3>1, ResponderForma DEF EstadosOperacion, Respuestas
  <2>4. TablasSanas' /\ GuardasSiguen(i)
    <3> HIDE DEF i
    <3> QED BY <2>1, <2>2, <2>3, TodoEscrito
  <2> QED BY <1>1, <1>3, <2>2, <2>4, Termina
<1>8. CASE C /\ PC
  <2>1. guardas' \in Seq(FilasGuarda) /\ GuardasSanas' /\ GuardasSiguen(i)
    <3>1. r # "no_recuperable" /\ guardas' = GuardaRecuperada(i, r)
      BY <1>8
    <3> QED BY <1>6, <3>1
  <2>2. lote' \in FilasLote /\ ColaConDueno' /\ DuenoSigue
    BY <1>2, <1>8, ReencolarForma
  <2>3. /\ grupo' \in [Grupos -> EstadosGrupo]
        /\ op' \in [Claves -> FilasOperacion] /\ AbiertaSinRespuesta'
    BY <1>8 DEF InductivoLote, FilasEnForma, AbiertaSinRespuesta
  <2>4. TablasSanas' /\ GuardasSiguen(i)
    <3> HIDE DEF i
    <3> QED BY <2>1, <2>2, <2>3, TodoEscrito
  <2> QED BY <1>1, <1>3, <2>2, <2>4, Termina
<1>9. CASE RecuperarWorkerSinBase
  BY <1>4, <1>9 DEF RecuperarWorkerSinBase
<1>10. CASE RecuperarWorker
  <2>1. (CASE A -> PA [] B -> PB [] C -> PC [] OTHER -> PO)
    BY <1>10 DEF RecuperarWorker
  <2>2. /\ A \in BOOLEAN /\ B \in BOOLEAN /\ C \in BOOLEAN
        /\ PA \in BOOLEAN /\ PB \in BOOLEAN /\ PC \in BOOLEAN /\ PO \in BOOLEAN
    BY DEF Reencolar
  <2>3. i \in Int
    BY Consta DEF Memorias
  <2>4. ~(A /\ B) /\ ~(A /\ C) /\ ~(B /\ C)
    BY <2>3
  <2> HIDE DEF A, B, C, PA, PB, PC, PO
  <2>5. ~A /\ ~B /\ ~C => PO
    BY <2>1, <2>2
  <2>6. A /\ ~B /\ ~C => PA
    BY <2>1, <2>2
  <2>7. ~A /\ B /\ ~C => PB
    BY <2>1, <2>2
  <2>8. ~A /\ ~B /\ C => PC
    BY <2>1, <2>2
  <2> QED BY <1>4, <1>5, <1>7, <1>8, <2>2, <2>4, <2>5, <2>6, <2>7, <2>8
<1> QED BY <1>9, <1>10

\* The worker moves, on its queue, on a stale lote or in a run
LEMMA WorkerConserva ==
    ASSUME InductivoLote, PasoWorker
    PROVE  InductivoLote'
<1>1. CASE PasoCorrida(Worker)
  <2> DEFINE a == Worker
  <2>1. a \in Actores /\ PasoCorrida(a)
    BY <1>1, WorkerEsActor
  <2> HIDE DEF a
  <2> QED BY <2>1, CorridaConserva
<1> QED BY <1>1, PasoListar, PasoLeerEnCola, PasoBloquearInicio, PasoBloquearFin,
           PasoRecuperarWorker DEF PasoWorker

----------------------------------------------------------------------------
(* ARCA, restarts and time.                                                 *)

\* No actor moves: the invariant rests on the tables
LEMMA NadieAvanza ==
    ASSUME InductivoLote, mem' = mem, TablasSanas', DuenoSigue, GuardasSiguen(0)
    PROVE  InductivoLote'
<1>1. mem \in [Actores -> Memorias] /\ guardas \in Seq(FilasGuarda)
  BY DEF InductivoLote, FilasEnForma
<1>2. ASSUME NEW b \in Actores
      PROVE  MemoriaDe(b, mem[b], guardas', lote')
  <2> DEFINE i == 0
             m == mem[b]
  <2>1. m \in Memorias /\ MemoriaDe(b, m, guardas, lote)
    BY <1>1 DEF InductivoLote, MemoriasSanas
  <2>2. GuardasSiguen(i) /\ (m.guarda > 0 => m.guarda # i)
    BY <2>1 DEF Memorias
  <2> HIDE DEF i, m
  <2>3. MemoriaDe(b, m, guardas', lote')
    BY <1>1, <2>1, <2>2, MemoriaAjena
  <2> QED BY <2>3 DEF m
<1>3. MemoriasSanas'
  BY <1>2 DEF MemoriasSanas
<1>4. GuardaPropia'
  BY DEF InductivoLote, GuardaPropia
<1>5. TablasSanas' /\ mem' \in [Actores -> Memorias] /\ MemoriasSanas' /\ GuardaPropia'
  BY <1>1, <1>3, <1>4
<1> QED BY <1>5 DEF InductivoLote, FilasEnForma, TablasSanas, GuardasSanas, ColaConDueno,
                    AbiertaSinRespuesta

\* An answer of ARCA changes nothing that an actor was told before
LEMMA PasoArca ==
    ASSUME InductivoLote, NEW i \in DOMAIN guardas, ArcaProcesa(i)
    PROVE  InductivoLote'
<1>1. guardas[i].arca = "en_vuelo" /\ UNCHANGED <<lote, grupo, op>> /\ mem' = mem
  BY DEF ArcaProcesa
<1>2. guardas[i] \in FilasGuarda /\ guardas[i].fase \in FasesCruzadas /\ guardas[i].aut = {}
  BY <1>1, GuardaEnForma DEF GuardaSana
<1>3. guardas \in Seq(FilasGuarda) /\ Len(guardas) \in Nat
  BY DEF InductivoLote, FilasEnForma
<1>4. ASSUME NEW c \in {"procesada", "rechazo_global"}, NEW s \in SUBSET guardas[i].grupos,
             c # "procesada" => s = {},
             guardas' = [guardas EXCEPT ![i].arca = c, ![i].aut = s]
      PROVE  InductivoLote'
  <2>1. /\ guardas' \in Seq(FilasGuarda) /\ GuardasSanas' /\ GuardasSiguen(i)
        /\ Len(guardas') = Len(guardas) /\ guardas'[i].fase \in FasesCruzadas
    BY <1>2, <1>4, ArcaForma
  <2>2. Suave(guardas[i], guardas'[i])
    BY <1>1, <2>1 DEF Suave
  <2>3. GuardasSiguen(0)
    BY <1>3, <2>1, <2>2 DEF GuardasSiguen
  <2>4. TablasSanas' /\ DuenoSigue
    BY <1>1, <2>1, SoloGuardas
  <2> QED BY <1>1, <2>3, <2>4, NadieAvanza
<1>5. ASSUME NEW s \in SUBSET guardas[i].grupos,
             guardas' = [guardas EXCEPT ![i].arca = "procesada", ![i].aut = s]
      PROVE  InductivoLote'
  <2> DEFINE c == "procesada"
  <2>1. /\ c \in {"procesada", "rechazo_global"} /\ c = "procesada"
        /\ guardas' = [guardas EXCEPT ![i].arca = c, ![i].aut = s]
    BY <1>5
  <2> HIDE DEF c
  <2> QED BY <1>4, <2>1
<1>6. CASE guardas' = [guardas EXCEPT ![i].arca = "rechazo_global"]
  <2> DEFINE y == guardas[i]
             c == "rechazo_global"
             s == {}
  <2>1. [y EXCEPT !.arca = c] = [y EXCEPT !.arca = c, !.aut = s]
    BY <1>2 DEF FilasGuarda
  <2>2. /\ c \in {"procesada", "rechazo_global"} /\ c # "procesada"
        /\ s \in SUBSET guardas[i].grupos /\ s = {}
        /\ guardas' = [guardas EXCEPT ![i].arca = c, ![i].aut = s]
    BY <1>3, <1>6, <2>1
  <2> HIDE DEF c, s
  <2> QED BY <1>4, <2>2
<1> QED BY <1>5, <1>6 DEF ArcaProcesa

\* A restart empties the memories, the tables stay
LEMMA PasoCaida ==
    ASSUME InductivoLote, Caida
    PROVE  InductivoLote'
<1> DEFINE n(a) == IF a = Worker \/ mem[a].pc = "inicio" THEN Inicial("inicio")
                   ELSE IF mem[a].pc = "fin" THEN mem[a]
                   ELSE [Inicial("fin") EXCEPT !.resp = "cortada"]
<1>1. UNCHANGED tablas /\ mem' = [a \in Actores |-> n(a)]
  BY DEF Caida
<1>2. /\ mem \in [Actores -> Memorias] /\ guardas \in Seq(FilasGuarda)
      /\ guardas' = guardas /\ lote' = lote
  BY <1>1 DEF InductivoLote, FilasEnForma, tablas
<1>3. "cortada" \in RespuestasHttp /\ "inicio" # "fin"
  BY DEF RespuestasHttp
<1>4. ASSUME NEW a \in Actores
      PROVE  /\ n(a) \in Memorias /\ MemoriaDe(a, n(a), guardas, lote)
             /\ n(a).guarda > 0 => n(a) = mem[a]
  <2>1. CASE n(a) = Inicial("inicio")
    <3>1. MemoriaDe(a, Inicial("inicio"), guardas, lote)
      BY <1>2, MemoriaInicial
    <3>2. Inicial("inicio").guarda = 0
      BY DEF Inicial
    <3> HIDE DEF n
    <3> QED BY <2>1, <3>1, <3>2, InicialEnForma
  <2>2. CASE n(a) = mem[a]
    <3> HIDE DEF n
    <3> QED BY <1>2, <2>2 DEF InductivoLote, MemoriasSanas
  <2>3. CASE a # Worker /\ n(a) = [Inicial("fin") EXCEPT !.resp = "cortada"]
    <3> DEFINE r == "cortada"
    <3>1. r \in RespuestasHttp /\ n(a) = [Inicial("fin") EXCEPT !.resp = r]
      BY <1>3, <2>3
    <3>2. [Inicial("fin") EXCEPT !.resp = r].guarda = 0
      BY DEF Inicial
    <3> HIDE DEF n, r
    <3>3. MemoriaDe(a, [Inicial("fin") EXCEPT !.resp = r], guardas, lote)
      BY <1>2, <2>3, MemoriaInicial
    <3>4. [Inicial("fin") EXCEPT !.resp = r] \in Memorias
      BY <3>1, InicialEnForma
    <3> QED BY <3>1, <3>2, <3>3, <3>4
  <2> QED BY <2>1, <2>2, <2>3
<1> HIDE DEF n
<1>5. mem' \in [Actores -> Memorias] /\ \A a \in Actores : mem'[a] = n(a)
  BY <1>1, <1>4
<1>6. MemoriasSanas'
  BY <1>2, <1>4, <1>5 DEF MemoriasSanas
<1>7. GuardaPropia'
  BY <1>4, <1>5 DEF InductivoLote, GuardaPropia
<1>8. TablasSanas'
  BY <1>1, TablasQuietas
<1> QED BY <1>5, <1>6, <1>7, <1>8 DEF InductivoLote, FilasEnForma, TablasSanas, GuardasSanas,
                                 ColaConDueno, AbiertaSinRespuesta

LEMMA PasoEnvejecer ==
    ASSUME InductivoLote, Envejecer
    PROVE  InductivoLote'
<1>1. /\ lote' = [lote EXCEPT !.vieja = TRUE] /\ lote.estado = "procesando"
      /\ UNCHANGED <<grupo, op, guardas>> /\ mem' = mem
  BY DEF Envejecer
<1>2. lote \in FilasLote /\ lote.dueno \in Claves
  BY <1>1 DEF InductivoLote, FilasEnForma, ColaConDueno, Activos
<1>3. lote' \in FilasLote /\ lote'.dueno \in Claves
  BY <1>1, <1>2 DEF FilasLote
<1>4. ColaConDueno' /\ DuenoSigue
  BY <1>3, LoteActivo
<1>5. /\ grupo' \in [Grupos -> EstadosGrupo] /\ op' \in [Claves -> FilasOperacion]
      /\ AbiertaSinRespuesta'
  BY <1>1 DEF InductivoLote, FilasEnForma, AbiertaSinRespuesta
<1>6. TablasSanas' /\ GuardasSiguen(0)
  BY <1>1, <1>3, <1>4, <1>5, TablasEscritas
<1> QED BY <1>1, <1>4, <1>6, NadieAvanza

LEMMA Quieto ==
    ASSUME InductivoLote, UNCHANGED vars
    PROVE  InductivoLote'
<1>1. UNCHANGED tablas /\ mem' = mem
  BY DEF vars, tablas
<1> QED BY <1>1, TablasQuietas, NadieAvanza

----------------------------------------------------------------------------
(* The theorems.                                                            *)

LEMMA InicioLote == Init => InductivoLote
<1> SUFFICES ASSUME Init PROVE InductivoLote
  OBVIOUS
<1>1. LoteValidado \in FilasLote /\ LoteValidado.dueno = Nadie /\ LoteValidado.estado = "validado"
  BY DEF LoteValidado, FilasLote, EstadosLote, Procesables
<1>2. SinOperacion \in FilasOperacion /\ SinOperacion.resp = "nula"
  BY DEF SinOperacion, FilasOperacion, EstadosOperacion, Respuestas
<1>3. guardas = <<>> /\ guardas \in Seq(FilasGuarda) /\ DOMAIN guardas = {}
  BY DEF Init
<1>4. Inicial("inicio") \in Memorias /\ Inicial("inicio").guarda = 0
  BY InicialEnForma DEF Inicial
<1>5. FilasEnForma
  BY <1>1, <1>2, <1>3, <1>4 DEF FilasEnForma, Init, EstadosGrupo
<1>6. GuardasSanas
  BY <1>3 DEF GuardasSanas
<1>7. ColaConDueno
  BY <1>1 DEF Init, ColaConDueno, Activos
<1>8. AbiertaSinRespuesta
  BY <1>2 DEF Init, AbiertaSinRespuesta
<1>9. \A a \in Actores : mem[a] = Inicial("inicio")
  BY DEF Init
<1>10. MemoriasSanas
  BY <1>3, <1>9, MemoriaInicial DEF MemoriasSanas
<1>11. GuardaPropia
  BY <1>4, <1>9 DEF GuardaPropia
<1> QED BY <1>5, <1>6, <1>7, <1>8, <1>10, <1>11 DEF InductivoLote

\* Whatever requests, worker, ARCA, outages and restarts do, step by step
LEMMA PasoLote == InductivoLote /\ [Next]_vars => InductivoLote'
<1> SUFFICES ASSUME InductivoLote, [Next]_vars PROVE InductivoLote'
  OBVIOUS
<1>1. CASE \E a \in Solicitudes : PasoSolicitud(a) \/ PasoCorrida(a)
  BY <1>1, SolicitudConserva, CorridaConserva, SolicitudNoEsWorker
<1>2. CASE PasoWorker
  BY <1>2, WorkerConserva
<1>3. CASE Entorno
  BY <1>3, PasoArca, PasoCaida, PasoEnvejecer DEF Entorno
<1>4. CASE UNCHANGED vars
  BY <1>4, Quieto
<1> QED BY <1>1, <1>2, <1>3, <1>4 DEF Next

\* The strengthening holds of every behaviour of procesar_lote and of the worker:
\* a guard in ARCA stays active until its answer is applied, and what a run
\* remembers of its guard is true of the row
THEOREM LoteInductivo == Spec => []InductivoLote
BY InicioLote, PasoLote, PTL DEF Spec

\* Rows and memories keep the shape the source gives them
THEOREM LoteTipado == Spec => []TypeOK
<1>1. InductivoLote => TypeOK
  <2> SUFFICES ASSUME InductivoLote PROVE TypeOK
    OBVIOUS
  <2>1. /\ lote \in FilasLote /\ grupo \in [Grupos -> EstadosGrupo]
        /\ op \in [Claves -> FilasOperacion]
    BY DEF InductivoLote, FilasEnForma
  <2>2. ASSUME NEW i \in DOMAIN guardas
        PROVE  /\ guardas[i].op \in Claves /\ guardas[i].grupos \subseteq Grupos
               /\ guardas[i].intento \in [guardas[i].grupos -> EstadosIntentoLote]
               /\ guardas[i].aut \subseteq guardas[i].grupos
    BY GuardaEnForma DEF GuardaSana, FilasGuarda
  <2>3. ASSUME NEW a \in Actores
        PROVE  mem[a].pc \in Pasos /\ mem[a].guarda \in -1..Len(guardas)
    BY Consta DEF Memorias, MemoriaDe
  <2> QED BY <2>1, <2>2, <2>3 DEF TypeOK, FilasLote, FilasOperacion, EstadosIntentoLote
<1> QED BY <1>1, LoteInductivo, PTL

\* What ARCA authorised is never forgotten by the closures, the recoveries or the
\* stale lote: while its intento says neither authorised nor in reconciliation,
\* the guard of its request still blocks the point of sale
THEOREM CaeDelLoteConservado == Spec => []CaeConservado
<1>1. InductivoLote => CaeConservado
  BY DEF InductivoLote, GuardasSanas, GuardaSana, CaeDe, CaeConservado, Activa
<1> QED BY <1>1, LoteInductivo, PTL

----------------------------------------------------------------------------
(* A published final answer is never replaced: every writer of an operation  *)
(* reads its response first.                                                 *)

FinalEstable == \A k \in Claves : op[k].resp = "final" => op'[k] = op[k]

LEMMA OtraFila ==
    ASSUME InductivoLote, NEW k, NEW x, op[k].resp # "final", op' = [op EXCEPT ![k] = x]
    PROVE  FinalEstable
BY DEF InductivoLote, FilasEnForma, FinalEstable

LEMMA RespondeAbierta ==
    ASSUME InductivoLote, NEW k, NEW e, NEW r, op[k].resp # "final",
           ResponderOperacion(k, e, r)
    PROVE  FinalEstable
<1> DEFINE x == [op[k] EXCEPT !.estado = e, !.resp = r]
<1>1. op' = [op EXCEPT ![k] = x]
  BY DEF ResponderOperacion, InductivoLote, FilasEnForma
<1> HIDE DEF x
<1> QED BY <1>1, OtraFila

LEMMA SoloEstado ==
    ASSUME InductivoLote, NEW k, NEW e, op[k].resp # "final",
           op' = [op EXCEPT ![k].estado = e]
    PROVE  FinalEstable
<1> DEFINE x == [op[k] EXCEPT !.estado = e]
<1>1. op' = [op EXCEPT ![k] = x]
  BY DEF InductivoLote, FilasEnForma
<1> HIDE DEF x
<1> QED BY <1>1, OtraFila

LEMMA OperacionQuieta == op' = op => FinalEstable
BY DEF FinalEstable

LEMMA ErrorEstable ==
    ASSUME InductivoLote, NEW a, NEW l, ConError(a, l)
    PROVE  FinalEstable
<1>1. CASE op' = op
  BY <1>1, OperacionQuieta
<1>2. CASE /\ Publicable(K(a), "fallido_verificado")
           /\ ResponderOperacion(K(a), "fallido_verificado", "error")
  <2> DEFINE k == K(a)
             e == "fallido_verificado"
             r == "error"
  <2>1. op[k].resp # "final" /\ ResponderOperacion(k, e, r)
    BY <1>2 DEF Publicable
  <2> HIDE DEF k, e, r
  <2> QED BY <2>1, RespondeAbierta
<1> QED BY <1>1, <1>2 DEF ConError

\* An operation in the state "inexistente" or "interrumpida_pre_arca" has no answer
LEMMA AbiertaNoFinal ==
    ASSUME InductivoLote, NEW a \in Actores, mem[a].pc = "resolver",
           op[K(a)].estado \in {"inexistente", "interrumpida_pre_arca"}
    PROVE  op[K(a)].resp # "final"
<1>1. mem[a].op \in Claves
  BY ClaveEnMano DEF SinClave
<1> QED BY <1>1 DEF InductivoLote, AbiertaSinRespuesta, K

LEMMA EstableCrear ==
    ASSUME InductivoLote, NEW a \in Solicitudes,
           CrearOperacion(a) \/ CrearAmbigua(a) \/ ReclamarOperacion(a) \/ RecuperarCreacion(a)
    PROVE  FinalEstable
<1> DEFINE k == K(a)
           h == mem[a].huella
           x == [op[k] EXCEPT !.estado = "en_proceso", !.huella = h]
<1>1. CASE op' = op
  BY <1>1, OperacionQuieta
<1>2. ASSUME op' = [op EXCEPT ![k].estado = "en_proceso", ![k].huella = h],
             op[k].resp # "final"
      PROVE  FinalEstable
  <2>1. op' = [op EXCEPT ![k] = x]
    BY <1>2 DEF InductivoLote, FilasEnForma
  <2> HIDE DEF x, k
  <2> QED BY <1>2, <2>1, OtraFila
<1>3. ASSUME NEW e, op' = [op EXCEPT ![k].estado = e], op[k].resp # "final"
      PROVE  FinalEstable
  <2> HIDE DEF k
  <2> QED BY <1>3, SoloEstado
<1>4. CASE CrearOperacion(a) \/ CrearAmbigua(a)
  <2>1. op[k].resp # "final"
    BY <1>4, AbiertaNoFinal, SolicitudNoEsWorker DEF CrearOperacion, CrearAmbigua, En
  <2> HIDE DEF k, h
  <2>2. op' = op \/ op' = [op EXCEPT ![k].estado = "en_proceso", ![k].huella = h]
    BY <1>4 DEF CrearOperacion, CrearAmbigua, k, h
  <2> QED BY <1>1, <1>2, <2>1, <2>2
<1>5. CASE ReclamarOperacion(a)
  <2>1. op[k].resp # "final"
    BY <1>5, AbiertaNoFinal, SolicitudNoEsWorker DEF ReclamarOperacion, En
  <2>2. op' = op \/ op' = [op EXCEPT ![k].estado = "en_proceso"]
    BY <1>5 DEF ReclamarOperacion
  <2> QED BY <1>1, <1>3, <2>1, <2>2
<1>6. CASE RecuperarCreacion(a)
  <2>1. op' = op \/ (/\ op[k].resp = "nula"
                     /\ op' = [op EXCEPT ![k].estado = "interrumpida_pre_arca"])
    BY <1>6 DEF RecuperarCreacion
  <2> QED BY <1>1, <1>3, <2>1
<1> QED BY <1>4, <1>5, <1>6

\* The three places that publish the answer of a run
LEMMA EstablePublicar ==
    ASSUME InductivoLote, NEW a,
           \/ ResponderEnCurso(a) \/ Publicar(a) \/ Terminar(a)
           \/ \E l : DevolverLote(a, l)
    PROVE  FinalEstable
<1>1. CASE op' = op
  BY <1>1, OperacionQuieta
<1>2. ASSUME NEW e, NEW m, NEW s, ResponderOperacion(K(a), s, "final"),
             Publicable(K(a), e) \/ PublicableBackground(K(a), e, m)
      PROVE  FinalEstable
  <2> DEFINE k == K(a)
             r == "final"
  <2>1. op[k].resp # "final" /\ ResponderOperacion(k, s, r)
    BY <1>2 DEF Publicable, PublicableBackground, ProgresoValido
  <2> HIDE DEF k, r
  <2> QED BY <2>1, RespondeAbierta
<1>3. \/ op' = op
      \/ \E e, m, s : /\ ResponderOperacion(K(a), s, "final")
                      /\ Publicable(K(a), e) \/ PublicableBackground(K(a), e, m)
  <2>1. CASE ResponderEnCurso(a)
    BY <2>1 DEF ResponderEnCurso
  <2>2. CASE Publicar(a)
    BY <2>2 DEF Publicar
  <2>3. CASE Terminar(a)
    BY <2>3 DEF Terminar
  <2>4. CASE \E l : DevolverLote(a, l)
    BY <2>4 DEF DevolverLote
  <2> QED BY <2>1, <2>2, <2>3, <2>4
<1> QED BY <1>1, <1>2, <1>3

LEMMA EstableEncolar ==
    ASSUME InductivoLote, NEW a, Encolar(a)
    PROVE  FinalEstable
<1> DEFINE k == K(a)
           m == mem[a].mat
           x == [op[k] EXCEPT !.resp = "progreso", !.material = m]
<1>1. CASE op' = op
  BY <1>1, OperacionQuieta
<1>2. CASE op[k].resp = "nula" /\ op' = [op EXCEPT ![k].resp = "progreso", ![k].material = m]
  <2>1. op' = [op EXCEPT ![k] = x]
    BY <1>2 DEF InductivoLote, FilasEnForma
  <2> HIDE DEF x, k
  <2> QED BY <1>2, <2>1, OtraFila
<1> QED BY <1>1, <1>2 DEF Encolar, Publicable

LEMMA EstableRecuperar ==
    ASSUME InductivoLote, NEW a \in Solicitudes, Recuperar(a)
    PROVE  FinalEstable
<1> DEFINE k == K(a)
           i == mem[a].guarda
           r == ResultadoGuarda(k, i, op[k].resp)
           toma == IF Modo[a] = "background" THEN {"validado"} ELSE {"procesando", "validado"}
           A == /\ i = 0 /\ op[k].estado = "en_proceso" /\ op[k].resp = "nula"
                /\ GuardasDe(k) = {} /\ lote.estado \in toma
           B == i > 0 /\ r \in {"ambigua", "reconciliacion"}
           C == /\ i > 0 /\ r = "recuperada" /\ lote.estado \in toma
                /\ guardas[i].grupos \subseteq Con(grupo, "validado")
           libera == /\ op' = [op EXCEPT ![k].estado = "interrumpida_pre_arca"]
                     /\ lote' = [lote EXCEPT !.estado = "validado", !.vieja = FALSE]
                     /\ Fin(a, "reintentable")
           PA == libera /\ UNCHANGED <<grupo, guardas>>
           PB == /\ guardas' = GuardaRecuperada(i, r)
                 /\ op' = [op EXCEPT ![k].estado = IF @ = "en_proceso"
                                 THEN "requiere_reconciliacion" ELSE @]
                 /\ Inmovilizar(guardas[i].grupos)
                 /\ Fin(a, "post_arca")
           PC == libera /\ guardas' = GuardaRecuperada(i, r) /\ UNCHANGED grupo
           PO == Fin(a, "bloqueado") /\ UNCHANGED tablas
           Q == \/ op' = op
                \/ op[k].resp = "nula" /\ \E e : op' = [op EXCEPT ![k].estado = e]
<1>1. (CASE A -> PA [] B -> PB [] C -> PC [] OTHER -> PO)
  BY DEF Recuperar
<1>2. r # "no_recuperable" => op[k].resp = "nula"
  BY DEF ResultadoGuarda
<1>3. (A /\ PA => Q) /\ (C /\ PC => Q)
  BY <1>2
<1>4. B /\ PB => Q
  <2>1. op \in [Claves -> FilasOperacion]
    BY DEF InductivoLote, FilasEnForma
  <2> DEFINE e == IF op[k].estado = "en_proceso" THEN "requiere_reconciliacion"
                  ELSE op[k].estado
  <2>2. PB => op' = [op EXCEPT ![k].estado = e]
    BY <2>1
  <2> HIDE DEF e
  <2>3. B => op[k].resp = "nula"
    BY <1>2
  <2> HIDE DEF B, PB
  <2> QED BY <2>2, <2>3
<1>5. PO => Q
  BY DEF tablas
<1>6. Q
  <2>1. /\ A \in BOOLEAN /\ B \in BOOLEAN /\ C \in BOOLEAN
        /\ PA \in BOOLEAN /\ PB \in BOOLEAN /\ PC \in BOOLEAN /\ PO \in BOOLEAN
    OBVIOUS
  <2>2. i \in Int
    BY Consta, SolicitudNoEsWorker DEF Memorias
  <2>3. ~(A /\ B) /\ ~(A /\ C) /\ ~(B /\ C)
    BY <2>2
  <2> HIDE DEF A, B, C, PA, PB, PC, PO, Q
  <2>4. ~A /\ ~B /\ ~C => PO
    BY <1>1, <2>1
  <2>5. A /\ ~B /\ ~C => PA
    BY <1>1, <2>1
  <2>6. ~A /\ B /\ ~C => PB
    BY <1>1, <2>1
  <2>7. ~A /\ ~B /\ C => PC
    BY <1>1, <2>1
  <2> QED BY <1>3, <1>4, <1>5, <2>1, <2>3, <2>4, <2>5, <2>6, <2>7
<1>7. CASE op' = op
  BY <1>7, OperacionQuieta
<1>8. ASSUME NEW e, op' = [op EXCEPT ![k].estado = e], op[k].resp = "nula"
      PROVE  FinalEstable
  <2> HIDE DEF k
  <2> QED BY <1>8, SoloEstado
<1> HIDE DEF k
<1> QED BY <1>6, <1>7, <1>8

\* Both closures after ARCA ask for an operation without a final answer
LEMMA EstableTrasArca ==
    ASSUME InductivoLote, NEW a, CerrarRechazoGlobal(a) \/ CerrarIncertidumbre(a)
    PROVE  FinalEstable
<1> DEFINE k == K(a)
           r == "final"
<1>1. CASE op' = op
  BY <1>1, OperacionQuieta
<1>2. ASSUME NEW s, PoseeTrasArca(a, s)
      PROVE  op[k].resp # "final"
  BY <1>2 DEF PoseeTrasArca, ProgresoValido
<1>3. \/ op' = op
      \/ \E s, e : PoseeTrasArca(a, s) /\ ResponderOperacion(k, e, r)
  BY DEF CerrarRechazoGlobal, CerrarIncertidumbre, RechazoAplicable, tablas
<1> HIDE DEF k, r
<1> QED BY <1>1, <1>2, <1>3, RespondeAbierta

\* The stale lote: an operation is answered only if it still has its marker
LEMMA EstableBloquear ==
    ASSUME InductivoLote, BloquearFin
    PROVE  FinalEstable
<1> DEFINE k == mem[Worker].op
           gr == Vinculados
           valido == Reclamada(k)
           p == mem[Worker].preflight
           mismos == Intactos(gr) = mem[Worker].mat
           retenidos == IF valido /\ p # "error" /\ mismos
                        THEN Con(gr, "validado") \ Intactos(gr) ELSE Con(gr, "validado")
           publica(e) == IF valido THEN ResponderOperacion(k, e, "final")
                                   ELSE UNCHANGED op
           C == ~Stale \/ HayGuardaActivaDe(k)
           D == Stale /\ ~HayGuardaActivaDe(k) /\ EstadoLote(gr) \in Cerrados /\ Coherente(gr)
           PC == UNCHANGED tablas
           PD == /\ grupo' = gr
                 /\ lote' = [lote EXCEPT !.estado = EstadoLote(gr), !.vieja = FALSE]
                 /\ publica("finalizado") /\ UNCHANGED guardas
           PO == IF valido /\ p = "ok" /\ mismos
                 THEN /\ grupo' = gr
                      /\ lote' = [lote EXCEPT !.estado = "en_cola", !.async = TRUE,
                                              !.vieja = FALSE]
                      /\ UNCHANGED <<op, guardas>>
                 ELSE /\ grupo' = [g \in Grupos |-> IF g \in retenidos
                                    THEN "requiere_reconciliacion" ELSE gr[g]]
                      /\ lote' = [lote EXCEPT !.estado = "requiere_reconciliacion",
                                              !.vieja = FALSE]
                      /\ publica("requiere_reconciliacion") /\ UNCHANGED guardas
           Q == op' = op \/ \E e : publica(e)
<1>1. (CASE C -> PC [] D -> PD [] OTHER -> PO)
  BY DEF BloquearFin
<1>2. (PC => Q) /\ (PD => Q) /\ (PO => Q)
  <2> HIDE DEF publica, valido, mismos, retenidos, gr
  <2> QED BY DEF tablas
<1>3. Q
  <2>1. /\ C \in BOOLEAN /\ D \in BOOLEAN /\ PC \in BOOLEAN /\ PD \in BOOLEAN
        /\ PO \in BOOLEAN
    BY DEF Stale
  <2>2. ~(C /\ D)
    BY DEF Stale
  <2> HIDE DEF C, D, PC, PD, PO, Q
  <2>3. C /\ ~D => PC
    BY <1>1, <2>1
  <2>4. ~C /\ D => PD
    BY <1>1, <2>1
  <2>5. ~C /\ ~D => PO
    BY <1>1, <2>1
  <2> QED BY <1>2, <2>1, <2>2, <2>3, <2>4, <2>5
<1>4. CASE op' = op
  BY <1>4, OperacionQuieta
<1>5. ASSUME NEW e, publica(e), op' # op
      PROVE  FinalEstable
  <2> DEFINE r == "final"
  <2>1. valido /\ ResponderOperacion(k, e, r)
    BY <1>5
  <2>2. op[k].resp # "final"
    BY <2>1 DEF Reclamada, Conserva, ProgresoValido
  <2> HIDE DEF k, r
  <2> QED BY <2>1, <2>2, RespondeAbierta
<1> HIDE DEF publica
<1> QED BY <1>3, <1>4, <1>5

LEMMA EstableRecuperarWorker ==
    ASSUME InductivoLote, RecuperarWorker
    PROVE  FinalEstable
<1> DEFINE k == lote.dueno
           i == mem[Worker].guarda
           r == ResultadoGuarda(k, i, "nula")
           propia == i > 0 /\ op[k].estado = "en_proceso" /\ ProgresoValido(k, lote.material)
           A == i = 0 /\ GuardasDe(k) = {} /\ lote.estado \in Activos
           B == propia /\ r \in {"ambigua", "reconciliacion"}
           C == /\ propia /\ r = "recuperada" /\ lote.estado \in Activos
                /\ guardas[i].grupos \subseteq Con(grupo, "validado")
           PA == Reencolar /\ UNCHANGED <<grupo, op, guardas>>
           PB == /\ guardas' = GuardaRecuperada(i, r)
                 /\ ResponderOperacion(k, "requiere_reconciliacion", "nula")
                 /\ Inmovilizar(guardas[i].grupos)
           PC == Reencolar /\ guardas' = GuardaRecuperada(i, r) /\ UNCHANGED <<grupo, op>>
           PO == UNCHANGED tablas
           e == "requiere_reconciliacion"
           z == "nula"
           Q == op' = op \/ (op[k].resp # "final" /\ ResponderOperacion(k, e, z))
<1>1. (CASE A -> PA [] B -> PB [] C -> PC [] OTHER -> PO)
  BY DEF RecuperarWorker
<1>2. (PA => Q) /\ (PC => Q) /\ (PO => Q)
  BY DEF tablas
<1>3. B /\ PB => Q
  BY DEF ProgresoValido
<1>4. Q
  <2>1. /\ A \in BOOLEAN /\ B \in BOOLEAN /\ C \in BOOLEAN
        /\ PA \in BOOLEAN /\ PB \in BOOLEAN /\ PC \in BOOLEAN /\ PO \in BOOLEAN
    BY DEF Reencolar
  <2>2. i \in Int
    BY Consta, WorkerEsActor DEF Memorias
  <2>3. ~(A /\ B) /\ ~(A /\ C) /\ ~(B /\ C)
    BY <2>2
  <2> HIDE DEF A, B, C, PA, PB, PC, PO, Q
  <2>4. ~A /\ ~B /\ ~C => PO
    BY <1>1, <2>1
  <2>5. A /\ ~B /\ ~C => PA
    BY <1>1, <2>1
  <2>6. ~A /\ B /\ ~C => PB
    BY <1>1, <2>1
  <2>7. ~A /\ ~B /\ C => PC
    BY <1>1, <2>1
  <2> QED BY <1>2, <1>3, <2>1, <2>3, <2>4, <2>5, <2>6, <2>7
<1>5. CASE op' = op
  BY <1>5, OperacionQuieta
<1> HIDE DEF k, e, z
<1> QED BY <1>4, <1>5, RespondeAbierta

\* Steps that write no operation, or only through ConError or DevolverLote
LEMMA EstableCorrida ==
    ASSUME InductivoLote, NEW a, PasoCorrida(a)
    PROVE  FinalEstable
<1>1. CASE Tomar(a)
  <2>1. op' = op \/ (\E l : ConError(a, l)) \/ (\E l : DevolverLote(a, l))
    BY <1>1 DEF Tomar
  <2> QED BY <2>1, OperacionQuieta, ErrorEstable, EstablePublicar
<1>2. CASE Releer(a)
  <2>1. op' = op \/ ConError(a, lote)
    BY <1>2 DEF Releer
  <2> QED BY <2>1, OperacionQuieta, ErrorEstable
<1>3. CASE \/ Capacidad(a) \/ Verificar(a) \/ Reservar(a) \/ ReservarPerdida(a)
           \/ Marcar(a) \/ MarcarAmbigua(a) \/ Solicitar(a) \/ RecibirResultado(a)
           \/ AplicarGrupo(a) \/ CorteDeBase(a)
  BY <1>3, OperacionQuieta DEF Capacidad, Verificar, Reservar, ReservarPerdida, Marcar,
     MarcarAmbigua, Solicitar, RecibirResultado, AplicarGrupo, CorteDeBase, tablas
<1>4. CASE CerrarRechazoGlobal(a) \/ CerrarIncertidumbre(a)
  BY <1>4, EstableTrasArca
<1>5. CASE Terminar(a)
  BY <1>5, EstablePublicar
<1> QED BY <1>1, <1>2, <1>3, <1>4, <1>5 DEF PasoCorrida

LEMMA EstableSolicitud ==
    ASSUME InductivoLote, NEW a \in Solicitudes, PasoSolicitud(a)
    PROVE  FinalEstable
<1>1. CASE \/ LeerLote(a) \/ EncontrarOperacion(a) \/ RecuperarSinBase(a)
           \/ DescartarLeer(a) \/ Descartar(a)
  BY <1>1, OperacionQuieta DEF LeerLote, EncontrarOperacion, RecuperarSinBase, DescartarLeer,
     Descartar, tablas
<1>2. CASE \/ CrearOperacion(a) \/ CrearAmbigua(a) \/ RecuperarCreacion(a)
           \/ ReclamarOperacion(a)
  BY <1>2, EstableCrear
<1>3. CASE ResponderEnCurso(a) \/ Publicar(a)
  BY <1>3, EstablePublicar
<1>4. CASE Preparar(a) \/ GuardarError(a)
  <2>1. op' = op \/ ConError(a, lote)
    BY <1>4 DEF Preparar, GuardarError
  <2> QED BY <2>1, OperacionQuieta, ErrorEstable
<1>5. CASE Encolar(a)
  BY <1>5, EstableEncolar
<1>6. CASE Recuperar(a)
  BY <1>6, EstableRecuperar
<1> QED BY <1>1, <1>2, <1>3, <1>4, <1>5, <1>6 DEF PasoSolicitud

\* A published final answer is never replaced, by a retry of the key, by another
\* key, by the worker, by a recovery or by the stale lote: what was answered to the
\* client is what every replay answers
THEOREM RespuestaFinalDelLote == Spec => RespuestaFinalEstable
<1>1. InductivoLote /\ [Next]_vars => FinalEstable
  <2> SUFFICES ASSUME InductivoLote, [Next]_vars PROVE FinalEstable
    OBVIOUS
  <2>1. CASE \E a \in Solicitudes : PasoSolicitud(a) \/ PasoCorrida(a)
    BY <2>1, EstableSolicitud, EstableCorrida
  <2>2. CASE PasoWorker
    <3>1. CASE Listar \/ LeerEnCola \/ BloquearInicio \/ RecuperarWorkerSinBase
      BY <3>1, OperacionQuieta DEF Listar, LeerEnCola, BloquearInicio, RecuperarWorkerSinBase,
         tablas
    <3>2. CASE PasoCorrida(Worker)
      BY <3>2, EstableCorrida
    <3> QED BY <2>2, <3>1, <3>2, EstableBloquear, EstableRecuperarWorker DEF PasoWorker
  <2>3. CASE Entorno
    BY <2>3, OperacionQuieta DEF Entorno, ArcaProcesa, Caida, Envejecer, tablas
  <2>4. CASE UNCHANGED vars
    BY <2>4, OperacionQuieta DEF vars
  <2> QED BY <2>1, <2>2, <2>3, <2>4 DEF Next
<1>2. InductivoLote /\ [Next]_vars => [\A k \in Claves : op[k].resp = "final" => op'[k] = op[k]]_vars
  BY <1>1 DEF FinalEstable
<1> QED BY <1>2, LoteInductivo, PTL DEF Spec, RespuestaFinalEstable

==============================================================================
