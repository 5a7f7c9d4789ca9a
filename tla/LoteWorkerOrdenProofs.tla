------------------------ MODULE LoteWorkerOrdenProofs ------------------------
(****************************************************************************)
(* Proofs that the safety invariants of LoteWorker hold, for any requests,  *)
(* keys, modes, groups, size of the sublote, outages and restarts, of every *)
(* behaviour in which nobody takes the lote from under another; and that    *)
(* every behaviour with one client is one of those.                         *)
(****************************************************************************)
EXTENDS LoteWorkerOrden, LoteWorkerProofs, FiniteSetTheorems

----------------------------------------------------------------------------
(* Shapes of steps.                                                         *)

\* A closed operation never reopens
CierresFirmes ==
    \A k \in Claves : op[k].estado \in EstadosCerrados => op'[k].estado \in EstadosCerrados

\* The operations of the requests at work, but for that of a, stay theirs
ClavesSalvo(a) ==
    \A b \in Solicitudes : b # a /\ EnObra(mem[b]) => ConClave(op'[K(b)])

\* Only the memory of a changes
SoloMueve(a) == \A b \in Actores : b # a => mem'[b] = mem[b]

\* Nothing is to emit that was not
ValidadosBajan == Con(grupo', "validado") \subseteq Con(grupo, "validado")

\* The lote, the groups and the operations change in no way a run or a guard could
\* notice
LoteCalmo ==
    /\ ValidadosBajan
    /\ Con(grupo', "fallido") \subseteq Con(grupo, "fallido")
    /\ CierresFirmes
    /\ lote'.estado = "en_cola" => lote.estado = "en_cola"
    /\ Con(grupo', "validado") # {} /\ lote.estado \in {"procesando", "requiere_reconciliacion"}
          => lote'.estado = lote.estado
    /\ lote'.estado = "procesando" =>
          /\ lote.estado = "procesando"
          /\ lote'.dueno = lote.dueno \/ op'[lote'.dueno].estado \in EstadosCerrados

TablasCalmas == guardas' = guardas /\ LoteCalmo

\* The rest of the tables stays firm
RestoFirme == AutorizadosFirmes' /\ DuenoConMaterial'

\* Whoever owned the lote owns it, or its new owner has finished
LEMMA DuenoSigueSiendo ==
    ASSUME InductivoLote, NEW k, CierresFirmes, lote.estado = "procesando",
           lote'.dueno = lote.dueno \/ op'[lote'.dueno].estado \in EstadosCerrados,
           DuenoEs(k, lote, op)
    PROVE  DuenoEs(k, lote', op')
<1>1. lote.dueno \in Claves
  BY DEF InductivoLote, ColaConDueno, Activos
<1> QED BY <1>1 DEF DuenoEs, CierresFirmes

\* A guard holds back no lote that it did not
LEMMA PendienteBaja ==
    ASSUME NEW x, ValidadosBajan, Pendiente(x, grupo')
    PROVE  Pendiente(x, grupo)
BY DEF Pendiente, ValidadosBajan

\* A run does not notice
LEMMA CorridaCalma ==
    ASSUME InductivoLote, NEW m, CorridaSana(m, lote, grupo, op, guardas), TablasCalmas
    PROVE  CorridaSana(m, lote', grupo', op', guardas')
<1>1. LoteDeCorrida(m, lote', grupo', op')
  <2>1. lote'.estado # "en_cola"
    BY DEF TablasCalmas, LoteCalmo, CorridaSana, LoteDeCorrida
  <2>2. Con(grupo', "validado") # {} =>
          lote'.estado = "procesando" /\ (m.pc # "releer" => m.vista.estado = "procesando")
    BY DEF TablasCalmas, LoteCalmo, ValidadosBajan, CorridaSana, LoteDeCorrida
  <2>3. lote'.estado = "procesando" => DuenoEs(m.op, lote', op')
    BY DuenoSigueSiendo DEF TablasCalmas, LoteCalmo, CorridaSana, LoteDeCorrida
  <2> QED BY <2>1, <2>2, <2>3 DEF LoteDeCorrida
<1>2. GruposDeCorrida(m, grupo', guardas')
  BY DEF TablasCalmas, LoteCalmo, ValidadosBajan, CorridaSana, GruposDeCorrida
<1>3. AplicacionSana(m, guardas')
  BY DEF TablasCalmas, LoteCalmo, CorridaSana
<1>4. ASSUME NEW i \in DOMAIN guardas'
      PROVE  Respetada(m, i, guardas'[i], lote', grupo')
  BY <1>4, PendienteBaja DEF TablasCalmas, LoteCalmo, CorridaSana, Respetada
<1> QED BY <1>1, <1>2, <1>3, <1>4 DEF CorridaSana

\* A guard does not notice
LEMMA RetenidoCalmo ==
    ASSUME InductivoLote, NEW x, LoteRetenido(x, lote, grupo, op), LoteCalmo
    PROVE  LoteRetenido(x, lote', grupo', op')
<1>1. x.fase \in FasesActivas => lote'.estado # "en_cola"
  BY DEF LoteCalmo, LoteRetenido
<1>2. ASSUME Pendiente(x, grupo')
      PROVE  /\ Con(grupo', "validado") # {} =>
                  lote'.estado \in {"procesando", "requiere_reconciliacion"}
             /\ lote'.estado = "procesando" => DuenoEs(x.op, lote', op')
  BY <1>2, PendienteBaja, DuenoSigueSiendo DEF LoteCalmo, ValidadosBajan, LoteRetenido
<1> QED BY <1>1, <1>2 DEF LoteRetenido

\* A quiet step leaves the guards firm
LEMMA GuardasCalmas ==
    ASSUME InductivoLote, InductivoOrden, TablasCalmas, grupo' \in [Grupos -> EstadosGrupo]
    PROVE  GuardasFirmes' /\ CrucesDisjuntos'
<1>1. GuardasFirmes /\ CrucesDisjuntos /\ guardas' = guardas
  BY DEF InductivoOrden, TablasFirmes, TablasCalmas, LoteCalmo
<1>2. ASSUME NEW i \in DOMAIN guardas
      PROVE  LoteRetenido(guardas[i], lote', grupo', op')
  BY <1>1, RetenidoCalmo DEF GuardasFirmes, TablasCalmas
<1>3. ASSUME NEW i \in DOMAIN guardas, NEW g \in guardas[i].grupos
      PROVE  IntentoFirme(guardas[i], g, grupo')
  <2>1. IntentoFirme(guardas[i], g, grupo) /\ g \in Grupos
    BY <1>1, GuardaEnForma DEF GuardasFirmes, FilasGuarda
  <2>2. (grupo'[g] = "validado" => grupo[g] = "validado")
        /\ (grupo'[g] = "fallido" => grupo[g] = "fallido")
    BY <2>1 DEF TablasCalmas, LoteCalmo, ValidadosBajan, Con
  <2> QED BY <2>1, <2>2 DEF IntentoFirme
<1>4. CrucesDisjuntos'
  BY <1>1 DEF CrucesDisjuntos
<1> QED BY <1>1, <1>2, <1>3, <1>4 DEF GuardasFirmes

\* The memory of an actor that does not move
LEMMA OtroSano ==
    ASSUME InductivoOrden, NEW b \in Actores, ValidadosBajan,
           b \in Solicitudes /\ EnObra(mem[b]) => ConClave(op'[K(b)]),
           EnCorrida(mem[b]) => CorridaSana(mem[b], lote', grupo', op', guardas')
    PROVE  ActorSano(b, mem[b], lote', grupo', op', guardas')
<1>1. ActorSano(b, mem[b], lote, grupo, op, guardas)
  BY DEF InductivoOrden, ActoresSanos
<1>2. Prevision(b, mem[b], grupo')
  BY <1>1 DEF ActorSano, Prevision, ValidadosBajan
<1>3. b # Worker => b \in Solicitudes
  BY DEF Actores
<1> QED BY <1>1, <1>2, <1>3 DEF ActorSano, K

\* What is enough to show of a step of a: the tables, and a itself
LEMMA AvanzaOrden ==
    ASSUME InductivoOrden, NEW a \in Actores, SoloMueve(a), TablasFirmes',
           ActorSano(a, mem'[a], lote', grupo', op', guardas'),
           \A b \in Actores : b # a => ActorSano(b, mem[b], lote', grupo', op', guardas'),
           EnCorrida(mem'[a]) => \A b \in Actores : b # a => ~EnCorrida(mem[b]),
           EnObra(mem'[a]) =>
              \A b \in Solicitudes : b # a /\ EnObra(mem[b]) => mem[b].op # mem'[a].op \/ a = Worker
    PROVE  InductivoOrden'
<1>1. ActoresSanos'
  BY DEF ActoresSanos, SoloMueve
<1>2. SolaCorrida'
  BY DEF SolaCorrida, SoloMueve, InductivoOrden
<1>3. ClaveDeUno'
  <2> SUFFICES ASSUME NEW b \in Solicitudes, NEW c \in Solicitudes,
                      EnObra(mem'[b]), EnObra(mem'[c]), mem'[b].op = mem'[c].op, b # c
               PROVE  FALSE
    BY DEF ClaveDeUno, K
  <2>1. b \in Actores /\ c \in Actores /\ b # Worker /\ c # Worker
    BY SolicitudNoEsWorker
  <2>2. CASE b # a /\ c # a
    BY <2>1, <2>2 DEF SoloMueve, InductivoOrden, ClaveDeUno, K
  <2>3. CASE b = a \/ c = a
    BY <2>1, <2>3 DEF SoloMueve
  <2> QED BY <2>2, <2>3
<1> QED BY <1>1, <1>2, <1>3 DEF InductivoOrden

\* An actor outside a run, or in it, moves and nobody notices
LEMMA AvanzaEnCalma ==
    ASSUME InductivoLote, InductivoLote', InductivoOrden, NEW a \in Actores, SoloMueve(a),
           TablasCalmas, RestoFirme, ClavesSalvo(a),
           ActorSano(a, mem'[a], lote', grupo', op', guardas'),
           EnCorrida(mem'[a]) => EnCorrida(mem[a]),
           EnObra(mem'[a]) => EnObra(mem[a]) /\ mem'[a].op = mem[a].op
    PROVE  InductivoOrden'
<1>1. TablasFirmes'
  BY GuardasCalmas DEF TablasFirmes, RestoFirme, InductivoLote, FilasEnForma
<1>2. ASSUME NEW b \in Actores, b # a
      PROVE  ActorSano(b, mem[b], lote', grupo', op', guardas')
  <2>1. EnCorrida(mem[b]) => CorridaSana(mem[b], lote', grupo', op', guardas')
    BY CorridaCalma DEF InductivoOrden, ActoresSanos, ActorSano
  <2> QED BY <1>2, <2>1, OtroSano DEF TablasCalmas, LoteCalmo, ClavesSalvo
<1>3. EnCorrida(mem'[a]) => \A b \in Actores : b # a => ~EnCorrida(mem[b])
  BY DEF InductivoOrden, SolaCorrida
<1>4. EnObra(mem'[a]) =>
        \A b \in Solicitudes : b # a /\ EnObra(mem[b]) => mem[b].op # mem'[a].op \/ a = Worker
  BY DEF InductivoOrden, ClaveDeUno, Actores, K
<1> QED BY <1>1, <1>2, <1>3, <1>4, AvanzaOrden

\* The actor in the run moves: nobody else is in one
LEMMA AvanzaCorrida ==
    ASSUME InductivoOrden, NEW a \in Actores, EnCorrida(mem[a]), SoloMueve(a),
           ValidadosBajan, TablasFirmes', ClavesSalvo(a),
           ActorSano(a, mem'[a], lote', grupo', op', guardas'),
           EnObra(mem'[a]) => mem'[a].op = mem[a].op
    PROVE  InductivoOrden'
<1>1. \A b \in Actores : b # a => ~EnCorrida(mem[b])
  BY DEF InductivoOrden, SolaCorrida
<1>2. ASSUME NEW b \in Actores, b # a
      PROVE  ActorSano(b, mem[b], lote', grupo', op', guardas')
  BY <1>1, <1>2, OtroSano DEF ClavesSalvo
<1>3. EnObra(mem'[a]) =>
        \A b \in Solicitudes : b # a /\ EnObra(mem[b]) => mem[b].op # mem'[a].op \/ a = Worker
  BY DEF InductivoOrden, ClaveDeUno, Actores, K, EnObra
<1> QED BY <1>1, <1>2, <1>3, AvanzaOrden

----------------------------------------------------------------------------
(* Moves of one actor.                                                      *)

\* An actor that starts again, or has answered, has nothing to be right about
LEMMA FinSano ==
    ASSUME InductivoLote, NEW a \in Actores, NEW r, Fin(a, r)
    PROVE  /\ SoloMueve(a) /\ ~EnObra(mem'[a]) /\ ~EnCorrida(mem'[a])
           /\ ActorSano(a, mem'[a], lote', grupo', op', guardas')
<1>1. mem \in [Actores -> Memorias]
  BY Consta
<1>2. SoloMueve(a)
  BY <1>1 DEF Fin, SoloMueve
<1>3. mem'[a] = IF a = Worker THEN Inicial("inicio") ELSE [Inicial("fin") EXCEPT !.resp = r]
  BY <1>1 DEF Fin
<1>4. mem'[a].pc \in {"inicio", "fin"} /\ mem'[a].guarda = 0 /\ mem'[a].chunk = 1
  BY <1>3 DEF Inicial
<1>5. ~EnObra(mem'[a]) /\ ~EnCorrida(mem'[a])
  BY <1>4 DEF EnObra, EnCorrida, AntesDeTomar, PasosDeCorrida
<1>6. ActorSano(a, mem'[a], lote', grupo', op', guardas')
  BY <1>4, <1>5 DEF ActorSano, Prevision
<1> QED BY <1>2, <1>5, <1>6

\* An actor that stops after a quiet step
LEMMA FinEnCalma ==
    ASSUME InductivoLote, InductivoLote', InductivoOrden, NEW a \in Actores, NEW r, Fin(a, r),
           TablasCalmas, RestoFirme, ClavesSalvo(a)
    PROVE  InductivoOrden'
BY FinSano, AvanzaEnCalma

\* A run that ends while the tables stay firm
LEMMA FinDeCorrida ==
    ASSUME InductivoLote, InductivoOrden, NEW a \in Actores, NEW r, Fin(a, r),
           EnCorrida(mem[a]), ValidadosBajan, TablasFirmes', ClavesSalvo(a)
    PROVE  InductivoOrden'
BY FinSano, AvanzaCorrida

\* What the invariant says of an actor
LEMMA Sabe ==
    ASSUME InductivoOrden, NEW a \in Actores
    PROVE  /\ Prevision(a, mem[a], grupo)
           /\ a # Worker /\ EnObra(mem[a]) => ConClave(op[K(a)])
           /\ EnCorrida(mem[a]) => CorridaSana(mem[a], lote, grupo, op, guardas)
BY DEF InductivoOrden, ActoresSanos, ActorSano, K

\* Ir moves only the program counter
LEMMA IrForma ==
    ASSUME InductivoLote, NEW a \in Actores, NEW pc, Ir(a, pc)
    PROVE  /\ SoloMueve(a) /\ mem'[a] = [mem[a] EXCEPT !.pc = pc]
           /\ mem'[a].pc = pc /\ mem'[a].op = mem[a].op /\ mem'[a].guarda = mem[a].guarda
           /\ mem'[a].mat = mem[a].mat /\ mem'[a].vista = mem[a].vista
           /\ mem'[a].chunk = mem[a].chunk /\ mem'[a].pend = mem[a].pend
           /\ mem'[a].sub = mem[a].sub /\ mem'[a].aut = mem[a].aut
           /\ mem'[a].cierre = mem[a].cierre
<1>1. mem \in [Actores -> Memorias] /\ mem[a] \in Memorias
  BY Consta
<1>2. SoloMueve(a) /\ mem'[a] = [mem[a] EXCEPT !.pc = pc]
  BY <1>1 DEF Ir, SoloMueve
<1> QED BY <1>1, <1>2 DEF Memorias

\* An operation at work before its run goes on: the key stays with it
LEMMA IrEnCalma ==
    ASSUME InductivoLote, InductivoLote', InductivoOrden, NEW a \in Actores, NEW pc,
           Ir(a, pc), pc \in AntesDeTomar \cup {"en_curso", "guardar_error"},
           mem[a].guarda = 0, pc \in AntesDeTomar => EnObra(mem[a]),
           TablasCalmas, RestoFirme, ClavesSalvo(a),
           a # Worker /\ pc \in AntesDeTomar => ConClave(op'[K(a)])
    PROVE  InductivoOrden'
<1> USE IrForma
<1>1. ~EnCorrida(mem'[a]) /\ (EnObra(mem'[a]) <=> pc \in AntesDeTomar)
  BY DEF EnCorrida, EnObra, PasosDeCorrida, AntesDeTomar
<1>2. Prevision(a, mem'[a], grupo')
  BY <1>1, Sabe DEF Prevision, AntesDeTomar
<1>3. ActorSano(a, mem'[a], lote', grupo', op', guardas')
  BY <1>1, <1>2 DEF ActorSano, K
<1> QED BY <1>1, <1>3, AvanzaEnCalma

\* The run is cut: what it knew is enough to recover its guard
LEMMA RecuperaSana ==
    ASSUME NEW m, NEW n, NEW l, NEW gr, NEW o, NEW gs, CorridaSana(m, l, gr, o, gs),
           n.pc = "recuperar", n.op = m.op, n.vista = m.vista,
           Con(gr, "validado") # {} => m.pc # "releer"
    PROVE  CorridaSana(n, l, gr, o, gs)
<1>1. RestoDe(n) = {} /\ PorEnviarDe(n) = {} /\ EnManoDe(n) = {}
  BY DEF RestoDe, PorEnviarDe, EnManoDe
<1>2. LoteDeCorrida(n, l, gr, o)
  BY DEF CorridaSana, LoteDeCorrida
<1>3. GruposDeCorrida(n, gr, gs)
  BY <1>1 DEF GruposDeCorrida
<1>4. AplicacionSana(n, gs)
  BY DEF AplicacionSana
<1>5. \A i \in DOMAIN gs : Respetada(n, i, gs[i], l, gr)
  BY <1>1 DEF CorridaSana, Respetada
<1> QED BY <1>2, <1>3, <1>4, <1>5 DEF CorridaSana

\* A run cut short goes to recover, and still holds what it held
LEMMA CorteEnCalma ==
    ASSUME InductivoLote, InductivoLote', InductivoOrden, NEW a \in Actores, AnteCorte(a),
           mem[a].pc # "recuperar",
           TablasCalmas, RestoFirme, ClavesSalvo(a),
           a # Worker /\ EnObra(mem[a]) => ConClave(op'[K(a)])
    PROVE  InductivoOrden'
<1>1. CASE mem[a].iniciada
  BY <1>1, FinEnCalma DEF AnteCorte
<1>2. CASE ~mem[a].iniciada
  <2>1. Ir(a, "recuperar")
    BY <1>2 DEF AnteCorte
  <2>2. /\ SoloMueve(a) /\ mem'[a].pc = "recuperar" /\ mem'[a].op = mem[a].op
        /\ mem'[a].guarda = mem[a].guarda /\ mem'[a].mat = mem[a].mat
        /\ mem'[a].vista = mem[a].vista /\ mem'[a].chunk = mem[a].chunk
    BY <2>1, IrForma
  <2>3. EnCorrida(mem'[a]) => EnCorrida(mem[a]) /\ mem[a].pc # "releer"
    <3>1. mem[a].pc \in Pasos /\ mem[a].guarda \in Int
      BY Consta DEF Memorias
    <3>2. mem[a].pc \in SinGuarda => mem[a].guarda = 0
      BY Sabe DEF Prevision
    <3>3. mem[a].pc \in SinGuarda \/ mem[a].pc \in PasosDeCorrida \ SinGuarda
      BY <3>1 DEF Pasos, SinGuarda, PasosDeCorrida
    <3> QED BY <2>2, <3>2, <3>3 DEF EnCorrida, PasosDeCorrida, SinGuarda
  <2>4. EnObra(mem'[a]) <=> EnCorrida(mem'[a])
    BY <2>2 DEF EnObra, AntesDeTomar
  <2>5. Prevision(a, mem'[a], grupo')
    BY <2>2, <2>3, <2>4, Sabe DEF Prevision, SinGuarda, EnObra
  <2>6. EnCorrida(mem'[a]) => CorridaSana(mem'[a], lote', grupo', op', guardas')
    BY <2>2, <2>3, Sabe, CorridaCalma, RecuperaSana
  <2>7. ActorSano(a, mem'[a], lote', grupo', op', guardas')
    BY <2>2, <2>3, <2>4, <2>5, <2>6 DEF ActorSano, EnObra, K
  <2> QED BY <2>2, <2>3, <2>4, <2>7, AvanzaEnCalma DEF EnObra
<1> QED BY <1>1, <1>2

----------------------------------------------------------------------------
(* Changes of the tables that nobody notices.                               *)

LEMMA TablasIguales ==
    ASSUME InductivoOrden, UNCHANGED tablas
    PROVE  /\ TablasCalmas /\ RestoFirme /\ (\A a : ClavesSalvo(a))
           /\ \A a \in Actores : a # Worker /\ EnObra(mem[a]) => ConClave(op'[K(a)])
<1>1. lote' = lote /\ grupo' = grupo /\ op' = op /\ guardas' = guardas
  BY DEF tablas
<1>2. TablasCalmas
  BY <1>1 DEF TablasCalmas, LoteCalmo, ValidadosBajan, CierresFirmes
<1>3. RestoFirme
  BY <1>1 DEF RestoFirme, InductivoOrden, TablasFirmes, AutorizadosFirmes, DuenoConMaterial
<1>4. \A a \in Actores : a # Worker /\ EnObra(mem[a]) => ConClave(op'[K(a)])
  BY <1>1, Sabe
<1>5. \A a : ClavesSalvo(a)
  BY <1>4, SolicitudNoEsWorker DEF ClavesSalvo
<1> QED BY <1>2, <1>3, <1>4, <1>5

\* Who is at work has a key
LEMMA ClaveDeObra ==
    ASSUME InductivoLote, NEW a \in Actores, EnObra(mem[a])
    PROVE  mem[a].op \in Claves /\ mem[a].pc \notin SinClave
BY ClaveEnMano DEF EnObra, EnCorrida, AntesDeTomar, PasosDeCorrida, SinClave

\* The operation k closes, or gets a response
LEMMA OperacionCierra ==
    ASSUME InductivoLote, InductivoOrden, NEW k \in Claves, NEW e, NEW r,
           e \in EstadosCerrados \cup {"en_proceso"}, r # "progreso",
           e = "en_proceso" => op[k].estado \notin EstadosCerrados,
           ResponderOperacion(k, e, r)
    PROVE  /\ CierresFirmes /\ (\A a : ClavesSalvo(a))
           /\ \A a \in Actores : a # Worker /\ EnObra(mem[a]) => ConClave(op'[K(a)])
           /\ op'[k].estado = e
<1>1. op \in [Claves -> FilasOperacion]
  BY DEF InductivoLote, FilasEnForma
<1>2. \A x \in Claves : x # k => op'[x] = op[x]
  BY <1>1 DEF ResponderOperacion
<1>3. op'[k].estado = e /\ op'[k].resp = r
  BY <1>1 DEF ResponderOperacion, FilasOperacion
<1>4. CierresFirmes
  BY <1>2, <1>3 DEF CierresFirmes
<1>5. ConClave(op'[k])
  BY <1>3 DEF ConClave, EstadosCerrados
<1>6. \A a \in Actores : a # Worker /\ EnObra(mem[a]) => ConClave(op'[K(a)])
  <2> SUFFICES ASSUME NEW a \in Actores, a # Worker, EnObra(mem[a]) PROVE ConClave(op'[K(a)])
    OBVIOUS
  <2>1. K(a) \in Claves
    BY ClaveDeObra DEF K
  <2> QED BY <1>2, <1>5, <2>1, Sabe
<1>7. \A a : ClavesSalvo(a)
  BY <1>6, SolicitudNoEsWorker DEF ClavesSalvo
<1> QED BY <1>3, <1>4, <1>6, <1>7

\* ... and the groups and the guards are the same
LEMMA CalmaConLote ==
    ASSUME InductivoOrden, UNCHANGED <<grupo, guardas>>, CierresFirmes,
           lote'.estado = lote.estado,
           lote'.dueno = lote.dueno \/ op'[lote'.dueno].estado \in EstadosCerrados,
           lote'.dueno \in Claves => lote'.material # {}
    PROVE  TablasCalmas /\ RestoFirme
<1>1. TablasCalmas
  BY DEF TablasCalmas, LoteCalmo, ValidadosBajan
<1>2. RestoFirme
  BY DEF RestoFirme, InductivoOrden, TablasFirmes, AutorizadosFirmes, DuenoConMaterial
<1> QED BY <1>1, <1>2

----------------------------------------------------------------------------
(* Steps of a request outside its run.                                      *)

LEMMA SoloTerminaOrden ==
    ASSUME InductivoLote, InductivoLote', InductivoOrden, NEW a \in Actores, NEW r,
           Fin(a, r), UNCHANGED tablas
    PROVE  InductivoOrden'
BY TablasIguales, FinEnCalma

\* The actor reads: it has nothing in hand yet
LEMMA LeeOrden ==
    ASSUME InductivoLote, InductivoLote', InductivoOrden, NEW a \in Actores, UNCHANGED tablas,
           SoloMueve(a), ~EnObra(mem'[a]), Prevision(a, mem'[a], grupo)
    PROVE  InductivoOrden'
<1>1. ~EnCorrida(mem'[a]) /\ grupo' = grupo
  BY DEF EnObra, tablas
<1>2. ActorSano(a, mem'[a], lote', grupo', op', guardas')
  BY <1>1 DEF ActorSano
<1> QED BY <1>1, <1>2, TablasIguales, AvanzaEnCalma

\* A request reads its lote
LEMMA OrdenLeer ==
    ASSUME InductivoLote, InductivoLote', InductivoOrden, NEW a \in Solicitudes, LeerLote(a)
    PROVE  InductivoOrden'
<1> USE SolicitudNoEsWorker
<1>1. UNCHANGED tablas /\ mem[a].pc = "inicio"
  BY DEF LeerLote, En
<1>2. CASE \E r : Fin(a, r)
  BY <1>1, <1>2, SoloTerminaOrden
<1>3. CASE mem' = [mem EXCEPT ![a].pc = "resolver", ![a].op = ClaveDe[a],
                       ![a].vista = lote, ![a].mat = Con(grupo, "validado"),
                       ![a].huella = Grupos \ Con(grupo, "descartado")]
  <2>1. mem \in [Actores -> Memorias] /\ mem[a] \in Memorias
    BY Consta
  <2>2. SoloMueve(a) /\ mem'[a].pc = "resolver" /\ mem'[a].guarda = mem[a].guarda
        /\ mem'[a].chunk = mem[a].chunk
    BY <1>3, <2>1 DEF SoloMueve, Memorias
  <2>3. ~EnObra(mem'[a]) /\ Prevision(a, mem'[a], grupo)
    BY <1>1, <2>2, Sabe DEF EnObra, EnCorrida, AntesDeTomar, PasosDeCorrida, Prevision, SinGuarda
  <2> QED BY <1>1, <2>2, <2>3, LeeOrden
<1> QED BY <1>2, <1>3 DEF LeerLote

\* A discard reads its lote
LEMMA OrdenLeerDescarte ==
    ASSUME InductivoLote, InductivoLote', InductivoOrden, NEW a \in Solicitudes, DescartarLeer(a)
    PROVE  InductivoOrden'
<1> USE SolicitudNoEsWorker
<1>1. UNCHANGED tablas /\ mem[a].pc = "inicio"
  BY DEF DescartarLeer, En
<1>2. CASE \E r : Fin(a, r)
  BY <1>1, <1>2, SoloTerminaOrden
<1>3. CASE \E g \in Grupos : Resoluble(lote.estado)
              /\ mem' = [mem EXCEPT ![a].pc = "descartar", ![a].vista = lote, ![a].sub = {g}]
  <2>1. mem \in [Actores -> Memorias] /\ mem[a] \in Memorias
    BY Consta
  <2>2. SoloMueve(a) /\ mem'[a].pc = "descartar" /\ mem'[a].guarda = mem[a].guarda
        /\ mem'[a].chunk = mem[a].chunk /\ Resoluble(mem'[a].vista.estado)
    BY <1>3, <2>1 DEF SoloMueve, Memorias
  <2>3. ~EnObra(mem'[a]) /\ Prevision(a, mem'[a], grupo)
    BY <1>1, <2>2, Sabe DEF EnObra, EnCorrida, AntesDeTomar, PasosDeCorrida, Prevision, SinGuarda
  <2> QED BY <1>1, <2>2, <2>3, LeeOrden
<1> QED BY <1>2, <1>3 DEF DescartarLeer

\* An operation that may be created or reclaimed is opened: nobody worked on it
LEMMA AbreOrden ==
    ASSUME InductivoLote, InductivoLote', InductivoOrden, NEW a \in Solicitudes,
           mem[a].pc = "resolver", op[K(a)].estado \in {"inexistente", "interrumpida_pre_arca"},
           op'[K(a)].estado = "en_proceso", op'[K(a)].resp = op[K(a)].resp,
           \A k \in Claves : k # K(a) => op'[k] = op[k],
           UNCHANGED <<lote, grupo, guardas>>
    PROVE  /\ TablasCalmas /\ RestoFirme /\ ClavesSalvo(a) /\ ConClave(op'[K(a)])
           /\ \A b \in Solicitudes : b # a /\ EnObra(mem[b]) => mem[b].op # K(a)
<1> USE SolicitudNoEsWorker
<1>1. K(a) \in Claves
  BY ClaveEnMano DEF SinClave, K
<1>2. CierresFirmes
  BY DEF CierresFirmes, EstadosCerrados
<1>3. TablasCalmas /\ RestoFirme
  BY <1>2, CalmaConLote DEF InductivoOrden, TablasFirmes, DuenoConMaterial
<1>4. \A b \in Solicitudes : b # a /\ EnObra(mem[b]) => mem[b].op # K(a) /\ mem[b].op \in Claves
                                                  /\ ConClave(op[mem[b].op])
  BY Sabe, ClaveDeObra DEF ConClave, K
<1>5. ClavesSalvo(a)
  BY <1>4 DEF ClavesSalvo, K
<1>6. ConClave(op'[K(a)])
  BY <1>1 DEF ConClave, InductivoLote, AbiertaSinRespuesta
<1> QED BY <1>3, <1>4, <1>5, <1>6

\* A request opens its operation: no other works on that key
LEMMA OrdenAbrir ==
    ASSUME InductivoLote, InductivoLote', InductivoOrden, NEW a \in Solicitudes,
           CrearOperacion(a) \/ CrearAmbigua(a) \/ ReclamarOperacion(a)
    PROVE  InductivoOrden'
<1> USE SolicitudNoEsWorker
<1>1. /\ mem[a].pc = "resolver" /\ UNCHANGED <<lote, grupo, guardas>>
      /\ op[K(a)].estado \in {"inexistente", "interrumpida_pre_arca"}
  BY DEF CrearOperacion, CrearAmbigua, ReclamarOperacion, En
<1>2. mem \in [Actores -> Memorias] /\ mem[a] \in Memorias /\ op \in [Claves -> FilasOperacion]
      /\ K(a) \in Claves /\ mem[a].guarda = 0
  BY <1>1, Consta, ClaveEnMano, Sabe DEF SinClave, K, Prevision, SinGuarda
<1>3. CASE Fin(a, "elegibilidad") /\ op' = op
  BY <1>1, <1>3, SoloTerminaOrden DEF tablas
<1>4. CASE op' = op /\ Ir(a, "recuperar_creacion")
  <2>1. SoloMueve(a) /\ mem'[a].pc = "recuperar_creacion" /\ mem'[a].guarda = 0
        /\ mem'[a].chunk = mem[a].chunk
    BY <1>2, <1>4, IrForma
  <2>2. ~EnObra(mem'[a]) /\ Prevision(a, mem'[a], grupo)
    BY <2>1, Sabe DEF EnObra, EnCorrida, AntesDeTomar, PasosDeCorrida, Prevision, SinGuarda
  <2> QED BY <1>1, <1>4, <2>1, <2>2, LeeOrden DEF tablas
<1>5. CASE /\ \/ op' = [op EXCEPT ![K(a)].estado = "en_proceso", ![K(a)].huella = mem[a].huella]
              \/ op' = [op EXCEPT ![K(a)].estado = "en_proceso"]
           /\ Ir(a, "recuperar_creacion") \/ (Emitible(a) /\ Ir(a, "preparar"))
  <2>1. /\ op'[K(a)].estado = "en_proceso" /\ op'[K(a)].resp = op[K(a)].resp
        /\ \A k \in Claves : k # K(a) => op'[k] = op[k]
    BY <1>2, <1>5 DEF FilasOperacion
  <2>2. /\ TablasCalmas /\ RestoFirme /\ ClavesSalvo(a) /\ ConClave(op'[K(a)])
        /\ \A b \in Solicitudes : b # a /\ EnObra(mem[b]) => mem[b].op # K(a)
    BY <1>1, <2>1, AbreOrden
  <2>3. /\ SoloMueve(a) /\ mem'[a].pc \in {"recuperar_creacion", "preparar"}
        /\ mem'[a].op = mem[a].op /\ mem'[a].guarda = 0 /\ mem'[a].chunk = mem[a].chunk
        /\ mem'[a].pc = "preparar" => mem'[a].mat # {}
    <3>1. CASE Ir(a, "recuperar_creacion")
      <4>1. mem'[a].pc = "recuperar_creacion" /\ SoloMueve(a) /\ mem'[a].op = mem[a].op
            /\ mem'[a].guarda = mem[a].guarda /\ mem'[a].chunk = mem[a].chunk
        BY <3>1, IrForma
      <4> QED BY <1>2, <4>1
    <3>2. CASE Emitible(a) /\ Ir(a, "preparar")
      BY <1>2, <3>2, IrForma DEF Emitible
    <3> QED BY <1>5, <3>1, <3>2
  <2>4. ~EnCorrida(mem'[a]) /\ (EnObra(mem'[a]) <=> mem'[a].pc = "preparar")
    BY <2>3 DEF EnObra, EnCorrida, AntesDeTomar, PasosDeCorrida
  <2>5. Prevision(a, mem'[a], grupo')
    BY <2>3, <2>4, Sabe DEF Prevision, SinGuarda
  <2>6. ActorSano(a, mem'[a], lote', grupo', op', guardas')
    BY <2>2, <2>3, <2>4, <2>5 DEF ActorSano, K
  <2>7. TablasFirmes'
    BY <2>2, GuardasCalmas DEF TablasFirmes, RestoFirme, InductivoLote, FilasEnForma
  <2>8. ASSUME NEW b \in Actores, b # a
        PROVE  ActorSano(b, mem[b], lote', grupo', op', guardas')
    <3>1. EnCorrida(mem[b]) => CorridaSana(mem[b], lote', grupo', op', guardas')
      BY <2>2, CorridaCalma, Sabe
    <3> QED BY <2>2, <2>8, <3>1, OtroSano DEF TablasCalmas, LoteCalmo, ClavesSalvo
  <2> QED BY <2>2, <2>3, <2>4, <2>6, <2>7, <2>8, AvanzaOrden DEF K
<1> QED BY <1>3, <1>4, <1>5 DEF CrearOperacion, CrearAmbigua, ReclamarOperacion

\* The creation is undone: the operation is of nobody else
LEMMA OrdenRecuperarCreacion ==
    ASSUME InductivoLote, InductivoLote', InductivoOrden, Ordenado, NEW a \in Solicitudes,
           RecuperarCreacion(a)
    PROVE  InductivoOrden'
<1> USE SolicitudNoEsWorker
<1>1. /\ mem[a].pc = "recuperar_creacion" /\ \E r : Fin(a, r)
      /\ UNCHANGED <<lote, grupo, guardas>>
  BY DEF RecuperarCreacion, En
<1>2. CASE op' = op
  BY <1>1, <1>2, SoloTerminaOrden DEF tablas
<1>3. CASE op' # op
  <2>1. op' = [op EXCEPT ![K(a)].estado = "interrumpida_pre_arca"]
        /\ op[K(a)].estado = "en_proceso"
    BY <1>3 DEF RecuperarCreacion
  <2>2. mem[a].guarda = 0
    BY <1>1, Sabe DEF Prevision, SinGuarda
  <2>3. SueltaLoSuyo(a)
    BY <1>3, <2>2 DEF Ordenado, SueltaPropia
  <2>4. CierresFirmes
    BY <2>1, Consta DEF CierresFirmes, EstadosCerrados
  <2>5. ClavesSalvo(a)
    BY <2>1, <2>3, Sabe, Consta, ClaveDeObra DEF ClavesSalvo, SueltaLoSuyo, K
  <2>6. TablasCalmas /\ RestoFirme
    BY <1>1, <2>4, CalmaConLote DEF InductivoOrden, TablasFirmes, DuenoConMaterial
  <2> QED BY <1>1, <2>5, <2>6, FinEnCalma
<1> QED BY <1>2, <1>3

\* A request finds its operation already there
LEMMA OrdenEncontrar ==
    ASSUME InductivoLote, InductivoLote', InductivoOrden, NEW a \in Solicitudes,
           EncontrarOperacion(a)
    PROVE  InductivoOrden'
<1> USE SolicitudNoEsWorker
<1>1. UNCHANGED tablas /\ mem[a].pc = "resolver" /\ (Ir(a, "en_curso") \/ \E r : Fin(a, r))
  BY DEF EncontrarOperacion, En
<1>2. mem[a].guarda = 0
  BY <1>1, Sabe DEF Prevision, SinGuarda
<1> QED BY <1>1, <1>2, SoloTerminaOrden, TablasIguales, IrEnCalma DEF AntesDeTomar

\* A request answers what is stored
LEMMA OrdenResponder ==
    ASSUME InductivoLote, InductivoLote', InductivoOrden, NEW a \in Solicitudes,
           ResponderEnCurso(a)
    PROVE  InductivoOrden'
<1> USE SolicitudNoEsWorker
<1> DEFINE k == K(a)
           e == EstadoPublicado(mem[a].vista.estado)
<1>1. mem[a].pc = "en_curso" /\ UNCHANGED <<lote, grupo, guardas>>
  BY DEF ResponderEnCurso, En
<1>2. CASE op' = op /\ \E r : Fin(a, r)
  BY <1>1, <1>2, SoloTerminaOrden DEF tablas
<1>3. CASE op' = op /\ AnteCorte(a)
  <2>1. UNCHANGED tablas
    BY <1>1, <1>3 DEF tablas
  <2> QED BY <1>1, <1>3, <2>1, TablasIguales, CorteEnCalma
<1>4. CASE /\ mem[a].vista.estado \in Terminales
           /\ ResponderOperacion(k, e, "final") /\ Fin(a, "final")
  <2>1. k \in Claves
    BY <1>1, ClaveEnMano DEF SinClave, K
  <2>2. e \in EstadosCerrados
    BY <1>4 DEF EstadoPublicado, Terminales, Cerrados, EstadosCerrados
  <2>3. CierresFirmes /\ ClavesSalvo(a)
    <3> HIDE DEF k, e
    <3>1. ResponderOperacion(k, e, "final") /\ e # "en_proceso"
      BY <1>4, <2>2 DEF EstadosCerrados
    <3> QED BY <2>1, <2>2, <3>1, OperacionCierra
  <2>4. TablasCalmas /\ RestoFirme
    BY <1>1, <2>3, CalmaConLote DEF InductivoOrden, TablasFirmes, DuenoConMaterial
  <2> QED BY <1>4, <2>3, <2>4, FinEnCalma
<1> QED BY <1>2, <1>3, <1>4 DEF ResponderEnCurso

----------------------------------------------------------------------------
(* Errors, the queue and the end of a request.                              *)

\* Every actor but one in recovery may be cut
LEMMA NoRecupera ==
    ASSUME InductivoLote, InductivoOrden, NEW a \in Actores, mem[a].pc \notin SinClave,
           mem[a].pc # "recuperar", a # Worker \/ mem[a].pc # "en_curso"
    PROVE  K(a) \in Claves
BY ClaveEnMano DEF K

\* A lote error, stored with a lote that may have changed its owner
LEMMA ErrorEnCalma ==
    ASSUME InductivoLote, InductivoLote', InductivoOrden, NEW a \in Actores, NEW l,
           ConError(a, l), UNCHANGED <<grupo, guardas>>,
           mem[a].pc \notin SinClave \cup {"recuperar", "en_curso"},
           l.estado = lote.estado, l.dueno \in {lote.dueno, K(a)},
           l.dueno \in Claves => l.material # {}
    PROVE  InductivoOrden'
<1>1. K(a) \in Claves
  BY NoRecupera
<1>2. CASE lote' = lote /\ op' = op /\ ((\E r : Fin(a, r)) \/ AnteCorte(a))
  <2>1. UNCHANGED tablas
    BY <1>2 DEF tablas
  <2> QED BY <1>2, <2>1, TablasIguales, FinEnCalma, CorteEnCalma
<1>3. CASE /\ ResponderOperacion(K(a), "fallido_verificado", "error")
           /\ lote' = l /\ Fin(a, "error")
  <2>1. CierresFirmes /\ ClavesSalvo(a) /\ op'[K(a)].estado = "fallido_verificado"
    BY <1>1, <1>3, OperacionCierra DEF EstadosCerrados
  <2>2. TablasCalmas /\ RestoFirme
    BY <1>3, <2>1, CalmaConLote DEF EstadosCerrados
  <2> QED BY <1>3, <2>1, <2>2, FinEnCalma
<1> QED BY <1>2, <1>3 DEF ConError

\* A request that stores an error before it takes the lote
LEMMA ErrorSimpleOrden ==
    ASSUME InductivoLote, InductivoLote', InductivoOrden, NEW a \in Actores,
           ConError(a, lote), UNCHANGED <<grupo, guardas>>,
           mem[a].pc \notin SinClave \cup {"recuperar", "en_curso"}
    PROVE  InductivoOrden'
BY ErrorEnCalma DEF InductivoOrden, TablasFirmes, DuenoConMaterial

\* Preparation writes what there is to emit, or its error is stored
LEMMA OrdenPreparar ==
    ASSUME InductivoLote, InductivoLote', InductivoOrden, NEW a \in Solicitudes,
           Preparar(a) \/ GuardarError(a)
    PROVE  InductivoOrden'
<1> USE SolicitudNoEsWorker
<1>1. mem[a].pc \in {"preparar", "guardar_error"} /\ UNCHANGED <<grupo, guardas>>
  BY DEF Preparar, GuardarError, En
<1>2. CASE ConError(a, lote)
  BY <1>1, <1>2, ErrorSimpleOrden DEF SinClave
<1>3. CASE mem[a].pc = "preparar" /\ lote' = lote /\ op' = op
           /\ (Ir(a, "encolar") \/ Ir(a, "tomar"))
  <2>1. UNCHANGED tablas
    BY <1>1, <1>3 DEF tablas
  <2>2. mem[a].guarda = 0 /\ EnObra(mem[a])
    BY <1>3, Sabe DEF Prevision, SinGuarda, EnObra, AntesDeTomar
  <2> QED BY <1>3, <2>1, <2>2, TablasIguales, IrEnCalma DEF AntesDeTomar
<1> QED BY <1>2, <1>3 DEF Preparar, GuardarError, En

\* The lote has nobody in a run and nothing held back
Quieta ==
    /\ \A a \in Actores : ~EnCorrida(mem[a])
    /\ \A i \in DOMAIN guardas : ~Pendiente(guardas[i], grupo)

\* A lote with groups to emit that is neither procesando nor held is quiet
LEMMA SinNadie ==
    ASSUME InductivoOrden, Con(grupo, "validado") # {},
           lote.estado \notin {"procesando", "requiere_reconciliacion"}
    PROVE  Quieta
<1>1. \A a \in Actores : ~EnCorrida(mem[a])
  BY Sabe DEF CorridaSana, LoteDeCorrida
<1>2. \A i \in DOMAIN guardas : ~Pendiente(guardas[i], grupo)
  BY DEF InductivoOrden, TablasFirmes, GuardasFirmes, LoteRetenido
<1> QED BY <1>1, <1>2 DEF Quieta

\* The guards are the same and each holds back what is its own
LEMMA GuardasRetenidas ==
    ASSUME InductivoLote, InductivoOrden, guardas' = guardas, grupo' \in [Grupos -> EstadosGrupo],
           \A i \in DOMAIN guardas : LoteRetenido(guardas[i], lote', grupo', op'),
           ValidadosBajan, Con(grupo', "fallido") \subseteq Con(grupo, "fallido")
    PROVE  GuardasFirmes' /\ CrucesDisjuntos'
<1>1. GuardasFirmes /\ CrucesDisjuntos
  BY DEF InductivoOrden, TablasFirmes
<1>2. ASSUME NEW i \in DOMAIN guardas, NEW g \in guardas[i].grupos
      PROVE  IntentoFirme(guardas[i], g, grupo')
  <2>1. IntentoFirme(guardas[i], g, grupo) /\ g \in Grupos
    BY <1>1, GuardaEnForma DEF GuardasFirmes, FilasGuarda
  <2>2. (grupo'[g] = "validado" => grupo[g] = "validado")
        /\ (grupo'[g] = "fallido" => grupo[g] = "fallido")
    BY <2>1 DEF ValidadosBajan, Con
  <2> QED BY <2>1, <2>2 DEF IntentoFirme
<1> QED BY <1>1, <1>2 DEF GuardasFirmes, CrucesDisjuntos

\* Without a guard that holds it back the lote may change as it pleases
LEMMA GuardasSueltas ==
    ASSUME InductivoLote, InductivoOrden, guardas' = guardas, grupo' \in [Grupos -> EstadosGrupo],
           \A i \in DOMAIN guardas : ~Pendiente(guardas[i], grupo),
           ValidadosBajan, Con(grupo', "fallido") \subseteq Con(grupo, "fallido")
    PROVE  GuardasFirmes' /\ CrucesDisjuntos'
<1>1. ASSUME NEW i \in DOMAIN guardas
      PROVE  LoteRetenido(guardas[i], lote', grupo', op')
  BY PendienteBaja DEF LoteRetenido, Pendiente
<1> QED BY <1>1, GuardasRetenidas

\* The lote is given to nobody: it goes to the queue or is released
LEMMA Suelta ==
    ASSUME InductivoLote, InductivoLote', InductivoOrden, NEW a \in Actores, NEW r, Fin(a, r),
           \A b \in Actores : b # a => ~EnCorrida(mem[b]),
           GuardasFirmes', CrucesDisjuntos', RestoFirme, ValidadosBajan, ClavesSalvo(a)
    PROVE  InductivoOrden'
<1>1. ASSUME NEW b \in Actores, b # a
      PROVE  ActorSano(b, mem[b], lote', grupo', op', guardas')
  BY <1>1, OtroSano DEF ClavesSalvo
<1>2. TablasFirmes'
  BY DEF TablasFirmes, RestoFirme
<1> QED BY <1>1, <1>2, FinSano, AvanzaOrden

\* Queueing over an up-to-date copy leaves no guard behind
LEMMA OrdenEncolar ==
    ASSUME InductivoLote, InductivoLote', InductivoOrden, Ordenado, NEW a \in Solicitudes,
           Encolar(a)
    PROVE  InductivoOrden'
<1> USE SolicitudNoEsWorker
<1> DEFINE k == K(a)
           v == mem[a].vista
           m == mem[a].mat
           l == EscribirDueno(Escribir(lote, v, "en_cola"), v, k, m)
<1>1. mem[a].pc = "encolar" /\ UNCHANGED <<grupo, guardas>> /\ \E r : Fin(a, r)
  BY DEF Encolar, En
<1>2. CASE op' = op /\ lote' = lote
  BY <1>1, <1>2, SoloTerminaOrden DEF tablas
<1>3. CASE /\ Encolable(v) /\ Publicable(k, "en_proceso")
           /\ lote' = [l EXCEPT !.async = TRUE]
           /\ op' = [op EXCEPT ![k].resp = "progreso", ![k].material = m]
  <2>1. k \in Claves /\ EnObra(mem[a]) /\ m # {} /\ lote \in FilasLote
        /\ op \in [Claves -> FilasOperacion]
    BY <1>1, NoRecupera, Sabe, Consta DEF SinClave, EnObra, AntesDeTomar, Prevision
  <2>2. op'[k].resp = "progreso" /\ op[k].resp = "nula" /\ op'[k].estado = op[k].estado
        /\ \A x \in Claves : x # k => op'[x] = op[x]
    BY <1>3, <2>1 DEF Publicable, FilasOperacion
  <2>3. v.estado = lote.estado /\ m = Con(grupo, "validado")
    BY <2>2 DEF Ordenado, CopiaAlDia
  <2>4. lote.estado \notin {"procesando", "requiere_reconciliacion", "completado"}
    BY <1>3, <2>3 DEF Encolable, Terminales, Cerrados
  <2>5. Quieta
    BY <2>1, <2>3, <2>4, SinNadie
  <2>6. /\ lote'.estado = "en_cola"
        /\ \/ lote'.dueno = lote.dueno /\ lote'.material = lote.material
           \/ lote'.dueno = k /\ lote'.material = m
    <3> DEFINE y == Escribir(lote, v, "en_cola")
               z == EscribirDueno(y, v, k, m)
    <3>1. y \in FilasLote /\ y.estado = "en_cola" /\ y.dueno = lote.dueno
          /\ y.material = lote.material
      BY <2>1, <2>3 DEF Escribir, FilasLote, EstadosLote, Procesables
    <3> HIDE DEF y
    <3>2. /\ z \in FilasLote /\ z.estado = y.estado
          /\ \/ z.dueno = y.dueno /\ z.material = y.material
             \/ z.dueno = k /\ z.material = m
      <4>1. k \in Claves /\ m \in SUBSET Grupos
        BY <2>1, Consta DEF Memorias
      <4> HIDE DEF k, m, v
      <4> QED BY <3>1, <4>1 DEF EscribirDueno, FilasLote
    <3>3. lote' = [z EXCEPT !.async = TRUE]
      BY <1>3 DEF y
    <3> HIDE DEF z, k, m
    <3>4. lote'.estado = z.estado /\ lote'.dueno = z.dueno /\ lote'.material = z.material
      BY <3>2, <3>3 DEF FilasLote
    <3> QED BY <3>1, <3>2, <3>4
  <2>7. ValidadosBajan /\ Con(grupo', "fallido") \subseteq Con(grupo, "fallido")
        /\ grupo' \in [Grupos -> EstadosGrupo] /\ guardas' = guardas
    BY <1>1 DEF ValidadosBajan, InductivoLote, FilasEnForma
  <2>8. GuardasFirmes' /\ CrucesDisjuntos'
    BY <2>5, <2>7, GuardasSueltas DEF Quieta
  <2>9. RestoFirme
    BY <1>1, <2>1, <2>6 DEF RestoFirme, InductivoOrden, TablasFirmes, AutorizadosFirmes, DuenoConMaterial
  <2>10. ClavesSalvo(a)
    BY <2>1, <2>2, Sabe, ClaveDeObra DEF ClavesSalvo, InductivoOrden, ClaveDeUno, K
  <2> QED BY <1>1, <2>5, <2>7, <2>8, <2>9, <2>10, Suelta DEF Quieta
<1> QED BY <1>2, <1>3 DEF Encolar

\* The request publishes what its run left
LEMMA OrdenPublicar ==
    ASSUME InductivoLote, InductivoLote', InductivoOrden, NEW a \in Solicitudes, Publicar(a)
    PROVE  InductivoOrden'
<1> USE SolicitudNoEsWorker
<1> DEFINE e == IF mem[a].vista.estado = "requiere_reconciliacion"
                THEN "requiere_reconciliacion" ELSE "finalizado"
<1>1. mem[a].pc = "publicar" /\ UNCHANGED <<lote, grupo, guardas>>
  BY DEF Publicar, En
<1>2. CASE op' = op /\ ((\E r : Fin(a, r)) \/ AnteCorte(a))
  <2>1. UNCHANGED tablas
    BY <1>1, <1>2 DEF tablas
  <2> QED BY <1>1, <1>2, <2>1, TablasIguales, FinEnCalma, CorteEnCalma
<1>3. CASE ResponderOperacion(K(a), e, "final") /\ Fin(a, "final")
  <2>1. K(a) \in Claves /\ e \in EstadosCerrados /\ e # "en_proceso"
    BY <1>1, NoRecupera DEF SinClave, EstadosCerrados
  <2> HIDE DEF e
  <2>2. CierresFirmes /\ ClavesSalvo(a)
    BY <1>3, <2>1, OperacionCierra
  <2>3. TablasCalmas /\ RestoFirme
    BY <1>1, <2>2, CalmaConLote DEF InductivoOrden, TablasFirmes, DuenoConMaterial
  <2> QED BY <1>3, <2>2, <2>3, FinEnCalma
<1> QED BY <1>2, <1>3 DEF Publicar

----------------------------------------------------------------------------
(* The discard.                                                             *)

\* A lote is completado by its groups
LEMMA CompletadoPorGrupos ==
    ASSUME NEW gr, EstadoLote(gr) = "completado"
    PROVE  Con(gr, "autorizado") = Grupos
<1> DEFINE R == Con(gr, "requiere_reconciliacion")
           A == Con(gr, "autorizado")
           D == Con(gr, "descartado")
           V == Con(gr, "validado")
<1> HIDE DEF R, A, D, V
<1>1. EstadoLote(gr) =
        CASE R # {} -> "requiere_reconciliacion"
          [] A = Grupos -> "completado"
          [] A \cup D = Grupos -> "cerrado_con_descartes"
          [] A # {} -> "autorizado_parcial"
          [] V # {} -> "validado"
          [] OTHER -> "fallido"
  BY DEF EstadoLote, R, A, D, V
<1>2. A = Grupos
  BY <1>1
<1> QED BY <1>2 DEF A

\* A discard over an up-to-date copy touches no run
LEMMA OrdenDescartar ==
    ASSUME InductivoLote, InductivoLote', InductivoOrden, Ordenado, NEW a \in Solicitudes,
           Descartar(a)
    PROVE  InductivoOrden'
<1> USE SolicitudNoEsWorker
<1> DEFINE g == CHOOSE h \in mem[a].sub : TRUE
           gr == [grupo EXCEPT ![g] = "descartado"]
           v == mem[a].vista
<1>1. mem[a].pc = "descartar" /\ UNCHANGED <<op, guardas>> /\ \E r : Fin(a, r)
  BY DEF Descartar, En
<1>2. CASE UNCHANGED <<lote, grupo>>
  BY <1>1, <1>2, SoloTerminaOrden DEF tablas
<1>3. CASE /\ grupo[g] \in Resolubles /\ grupo' = gr
           /\ lote' = Escribir(lote, v, Recalculado(v.estado, gr))
  <2>1. lote \in FilasLote /\ v \in FilasLote /\ grupo \in [Grupos -> EstadosGrupo]
    BY Consta DEF Memorias
  <2>2. Resoluble(v.estado)
    BY <1>1, Sabe DEF Prevision
  <2>3. lote' = Escribir(lote, v, EstadoLote(grupo'))
    BY <1>3, <2>2 DEF Recalculado, Resoluble, Activos
  <2>4. lote'.dueno = lote.dueno /\ lote'.material = lote.material
        /\ lote'.estado = IF v.estado = EstadoLote(grupo') THEN lote.estado ELSE EstadoLote(grupo')
    <3> DEFINE e == EstadoLote(grupo')
    <3> HIDE DEF e
    <3>1. lote' = Escribir(lote, v, e)
      BY <2>3 DEF e
    <3>2. lote'.dueno = lote.dueno /\ lote'.material = lote.material
          /\ lote'.estado = IF v.estado = e THEN lote.estado ELSE e
      BY <2>1, <3>1 DEF Escribir, FilasLote
    <3> QED BY <3>2 DEF e
  <2>5. lote'.estado = lote.estado \/ (Resoluble(lote.estado) /\ lote'.estado = EstadoLote(grupo'))
    BY <2>2, <2>4 DEF Ordenado, CopiaAlDia
  <2>6. \A h \in Grupos : grupo'[h] = grupo[h] \/ (grupo'[h] = "descartado" /\ grupo[h] \in Resolubles)
    BY <1>3, <2>1
  <2>7. /\ ValidadosBajan /\ Con(grupo', "fallido") \subseteq Con(grupo, "fallido")
        /\ Con(grupo', "autorizado") = Con(grupo, "autorizado")
        /\ (Con(grupo, "autorizado") = Grupos => Con(grupo', "autorizado") = Grupos)
    BY <2>6 DEF ValidadosBajan, Con, Resolubles
  <2>8. RestoFirme
    <3>1. \A h \in Con(grupo', "autorizado") : UnicoCae(h, guardas')
      BY <1>1, <2>7 DEF InductivoOrden, TablasFirmes, AutorizadosFirmes
    <3>2. lote'.estado = "completado" => Con(grupo', "autorizado") = Grupos
      BY <2>5, <2>7, CompletadoPorGrupos DEF InductivoOrden, TablasFirmes, AutorizadosFirmes
    <3> QED BY <2>4, <3>1, <3>2 DEF RestoFirme, AutorizadosFirmes, DuenoConMaterial,
              InductivoOrden, TablasFirmes
  <2>9. CierresFirmes /\ ClavesSalvo(a)
    BY <1>1, Sabe DEF CierresFirmes, ClavesSalvo
  <2>10. CASE lote'.estado = lote.estado
    <3>1. TablasCalmas
      BY <1>1, <2>4, <2>7, <2>9, <2>10 DEF TablasCalmas, LoteCalmo
    <3> QED BY <1>1, <2>8, <2>9, <3>1, FinEnCalma
  <2>11. CASE Resoluble(lote.estado) /\ lote'.estado = EstadoLote(grupo')
    <3>1. EstadoLote(grupo') \in EstadosLote \ Activos
      BY EstadoLoteForma
    <3>2. TablasCalmas
      BY <1>1, <2>4, <2>7, <2>9, <2>11, <3>1 DEF TablasCalmas, LoteCalmo, Resoluble, Activos
    <3> QED BY <1>1, <2>8, <2>9, <3>2, FinEnCalma
  <2> QED BY <2>5, <2>10, <2>11
<1> QED BY <1>2, <1>3 DEF Descartar

----------------------------------------------------------------------------
(* One guard changes.                                                       *)

UnaCambia(i) ==
    /\ DOMAIN guardas' = DOMAIN guardas
    /\ \A j \in DOMAIN guardas : j # i => guardas'[j] = guardas[j]
    /\ guardas'[i].grupos = guardas[i].grupos

\* A closure: the phase, and every intento with it
LEMMA CerradaCampos ==
    ASSUME InductivoLote, NEW i \in DOMAIN guardas, NEW fase, NEW aut,
           guardas' = GuardaCerrada(i, fase, aut)
    PROVE  /\ UnaCambia(i) /\ guardas'[i].fase = fase /\ guardas'[i].op = guardas[i].op
           /\ guardas'[i].arca = guardas[i].arca /\ guardas'[i].aut = guardas[i].aut
           /\ \A g \in guardas[i].grupos :
                 guardas'[i].intento[g] =
                    IF fase = "cerrada_pre_arca" THEN "fallido_verificado"
                    ELSE IF g \in aut THEN "autorizado" ELSE "rechazado_arca"
<1> DEFINE y == guardas[i]
           t == [g \in y.grupos |->
                    IF fase = "cerrada_pre_arca" THEN "fallido_verificado"
                    ELSE IF g \in aut THEN "autorizado" ELSE "rechazado_arca"]
           x == [y EXCEPT !.fase = fase, !.intento = t]
<1>1. y \in FilasGuarda /\ guardas \in Seq(FilasGuarda)
  BY GuardaEnForma DEF InductivoLote, FilasEnForma
<1>2. guardas' = [guardas EXCEPT ![i] = x]
  BY <1>1 DEF GuardaCerrada
<1>3. \A g \in y.grupos : t[g] = IF fase = "cerrada_pre_arca" THEN "fallido_verificado"
                                 ELSE IF g \in aut THEN "autorizado" ELSE "rechazado_arca"
  OBVIOUS
<1> HIDE DEF t, y
<1>4. x.fase = fase /\ x.intento = t /\ x.arca = y.arca /\ x.aut = y.aut
      /\ x.grupos = y.grupos /\ x.op = y.op
  BY <1>1 DEF FilasGuarda
<1> HIDE DEF x
<1>5. guardas'[i] = x /\ DOMAIN guardas' = DOMAIN guardas
      /\ \A j \in DOMAIN guardas : j # i => guardas'[j] = guardas[j]
  BY <1>1, <1>2
<1> QED BY <1>3, <1>4, <1>5 DEF UnaCambia, y

\* One guard changes: what it must keep for all guards to stay firm
LEMMA UnaGuardaFirme ==
    ASSUME InductivoLote, InductivoOrden, NEW i \in DOMAIN guardas, UnaCambia(i),
           ValidadosBajan, grupo' \in [Grupos -> EstadosGrupo],
           \A j \in DOMAIN guardas : j # i => LoteRetenido(guardas[j], lote', grupo', op'),
           LoteRetenido(guardas'[i], lote', grupo', op'),
           \A g \in guardas[i].grupos : IntentoFirme(guardas'[i], g, grupo'),
           \A g \in Con(grupo', "fallido") \ Con(grupo, "fallido") : \A j \in DOMAIN guardas :
              j # i /\ g \in guardas[j].grupos =>
                 g \notin guardas[j].aut /\ guardas[j].arca # "en_vuelo",
           Cruzo(guardas'[i]) => \/ Cruzo(guardas[i])
                                 \/ \A j \in DOMAIN guardas : j # i /\ Cruzo(guardas[j]) =>
                                       guardas[i].grupos \cap guardas[j].grupos = {}
    PROVE  GuardasFirmes' /\ CrucesDisjuntos'
<1>1. GuardasFirmes /\ CrucesDisjuntos
  BY DEF InductivoOrden, TablasFirmes
<1>2. ASSUME NEW j \in DOMAIN guardas, j # i, NEW g \in guardas[j].grupos
      PROVE  IntentoFirme(guardas[j], g, grupo')
  <2>1. IntentoFirme(guardas[j], g, grupo) /\ g \in Grupos
    BY <1>1, GuardaEnForma DEF GuardasFirmes, FilasGuarda
  <2>2. grupo'[g] = "validado" => grupo[g] = "validado"
    BY <2>1 DEF ValidadosBajan, Con
  <2>3. grupo'[g] = "fallido" => grupo[g] = "fallido" \/ g \in Con(grupo', "fallido") \ Con(grupo, "fallido")
    BY <2>1 DEF Con
  <2>4. grupo'[g] = "fallido" => g \notin guardas[j].aut /\ guardas[j].arca # "en_vuelo"
    BY <1>2, <2>1, <2>3 DEF IntentoFirme
  <2> QED BY <2>1, <2>2, <2>4 DEF IntentoFirme
<1>3. GuardasFirmes'
  BY <1>2 DEF GuardasFirmes, UnaCambia
<1>4. CrucesDisjuntos'
  <2> SUFFICES ASSUME NEW j \in DOMAIN guardas, NEW h \in DOMAIN guardas, j # h,
                      Cruzo(guardas'[j]), Cruzo(guardas'[h])
               PROVE  guardas'[j].grupos \cap guardas'[h].grupos = {}
    BY DEF CrucesDisjuntos, UnaCambia
  <2>1. CASE j # i /\ h # i
    BY <1>1, <2>1 DEF CrucesDisjuntos, UnaCambia
  <2>2. CASE j = i
    BY <1>1, <2>2 DEF CrucesDisjuntos, UnaCambia
  <2>3. CASE h = i
    BY <1>1, <2>3 DEF CrucesDisjuntos, UnaCambia
  <2> QED BY <2>1, <2>2, <2>3
<1> QED BY <1>3, <1>4

\* The CAE of g is still known if its intento in i is as it was
LEMMA UnicoSigue ==
    ASSUME NEW i \in DOMAIN guardas, UnaCambia(i), NEW g, UnicoCae(g, guardas),
           g \in guardas[i].grupos => guardas'[i].intento[g] = guardas[i].intento[g]
    PROVE  UnicoCae(g, guardas')
BY DEF UnicoCae, UnaCambia

\* A lote held or with nothing to emit holds back no guard against it
LEMMA RetenidoFacil ==
    ASSUME NEW x, lote'.estado \notin {"en_cola", "procesando"},
           Con(grupo', "validado") = {} \/ lote'.estado = "requiere_reconciliacion"
    PROVE  LoteRetenido(x, lote', grupo', op')
BY DEF LoteRetenido

\* The groups of S are held
LEMMA Inmovilizados ==
    ASSUME InductivoLote, NEW S, Inmovilizar(S)
    PROVE  /\ lote'.estado = "requiere_reconciliacion" /\ lote'.dueno = lote.dueno
           /\ lote'.material = lote.material
           /\ \A g \in Grupos : grupo'[g] = IF g \in S THEN "requiere_reconciliacion" ELSE grupo[g]
           /\ grupo' \in [Grupos -> EstadosGrupo] /\ ValidadosBajan
           /\ Con(grupo', "fallido") \subseteq Con(grupo, "fallido")
           /\ Con(grupo', "autorizado") = Con(grupo, "autorizado") \ S
           /\ Con(grupo', "validado") = Con(grupo, "validado") \ S
<1>1. lote \in FilasLote
  BY DEF InductivoLote, FilasEnForma
<1>2. lote'.estado = "requiere_reconciliacion" /\ lote'.dueno = lote.dueno
      /\ lote'.material = lote.material
  BY <1>1 DEF Inmovilizar, FilasLote
<1>3. \A g \in Grupos : grupo'[g] = IF g \in S THEN "requiere_reconciliacion" ELSE grupo[g]
  BY DEF Inmovilizar
<1>4. grupo' \in [Grupos -> EstadosGrupo]
  BY InmovilizarForma
<1> QED BY <1>2, <1>3, <1>4 DEF ValidadosBajan, Con

----------------------------------------------------------------------------
(* The recovery of a request.                                               *)

\* A guard in doubt is recovered: its groups are held
LEMMA DudaFirme ==
    ASSUME InductivoLote, InductivoOrden, NEW k, NEW i, NEW z, NEW r,
           r = ResultadoGuarda(k, i, z), r \in {"ambigua", "reconciliacion"},
           guardas' = GuardaRecuperada(i, r), Inmovilizar(guardas[i].grupos)
    PROVE  TablasFirmes' /\ ValidadosBajan
<1>1. i \in DOMAIN guardas
  BY DEF ResultadoGuarda, GuardasDe
<1> DEFINE y == guardas[i]
<1>2. y \in FilasGuarda /\ guardas \in Seq(FilasGuarda)
  BY <1>1, GuardaEnForma DEF InductivoLote, FilasEnForma
<1>3. y.grupos \subseteq Grupos
  BY <1>2 DEF FilasGuarda
<1>4. \A g \in y.grupos : grupo'[g] = "requiere_reconciliacion"
  BY <1>3, Inmovilizados
<1>5. UnaCambia(i) /\ (Cruzo(guardas'[i]) => Cruzo(y))
      /\ \A g \in y.grupos : IntentoFirme(guardas'[i], g, grupo')
  <2>1. CASE r = "ambigua"
    <3> DEFINE t == [g \in y.grupos |->
                       IF y.intento[g] = "en_proceso" THEN "requiere_reconciliacion"
                       ELSE y.intento[g]]
               x == [y EXCEPT !.fase = "requiere_reconciliacion", !.intento = t]
    <3>1. guardas' = [guardas EXCEPT ![i] = x]
      BY <1>1, <1>2, <2>1 DEF GuardaRecuperada
    <3>2. y.fase \in {"arca_iniciada", "requiere_reconciliacion"}
      BY <2>1 DEF ResultadoGuarda
    <3>3. \A g \in y.grupos : t[g] = IF y.intento[g] = "en_proceso" THEN "requiere_reconciliacion"
                                     ELSE y.intento[g]
      OBVIOUS
    <3> HIDE DEF t
    <3>4. x.fase = "requiere_reconciliacion" /\ x.intento = t /\ x.grupos = y.grupos
      BY <1>2 DEF FilasGuarda
    <3> HIDE DEF x
    <3>5. guardas'[i] = x /\ UnaCambia(i)
      BY <1>1, <1>2, <3>1, <3>4 DEF UnaCambia
    <3>6. \A g \in y.grupos : IntentoFirme(y, g, grupo)
      BY <1>1 DEF InductivoOrden, TablasFirmes, GuardasFirmes
    <3>7. \A g \in y.grupos : IntentoFirme(x, g, grupo')
      BY <1>4, <3>2, <3>3, <3>4, <3>6 DEF IntentoFirme
    <3> QED BY <3>2, <3>5, <3>7 DEF Cruzo, FasesPrevias
  <2>2. CASE r = "reconciliacion"
    <3>1. guardas' = GuardaCerrada(i, "cerrada_pre_arca", {})
      BY <2>2 DEF GuardaRecuperada
    <3>2. /\ UnaCambia(i) /\ guardas'[i].fase = "cerrada_pre_arca"
          /\ \A g \in y.grupos : guardas'[i].intento[g] = "fallido_verificado"
      BY <1>1, <3>1, CerradaCampos
    <3> QED BY <1>4, <3>2 DEF IntentoFirme, Cruzo, FasesPrevias
  <2> QED BY <2>1, <2>2
<1> HIDE DEF y
<1>6. \A x : LoteRetenido(x, lote', grupo', op')
  BY Inmovilizados, RetenidoFacil
<1>7. GuardasFirmes' /\ CrucesDisjuntos'
  BY <1>1, <1>5, <1>6, Inmovilizados, UnaGuardaFirme DEF y
<1>8. AutorizadosFirmes'
  <2>1. ASSUME NEW g \in Con(grupo', "autorizado")
        PROVE  UnicoCae(g, guardas')
    <3>1. g \notin y.grupos /\ g \in Con(grupo, "autorizado")
      BY <2>1, Inmovilizados DEF y
    <3>2. UnicoCae(g, guardas)
      BY <3>1 DEF InductivoOrden, TablasFirmes, AutorizadosFirmes
    <3> QED BY <1>1, <1>5, <3>1, <3>2, UnicoSigue DEF y
  <2> QED BY <2>1, Inmovilizados DEF AutorizadosFirmes
<1>9. DuenoConMaterial'
  BY Inmovilizados DEF DuenoConMaterial, InductivoOrden, TablasFirmes
<1> QED BY <1>7, <1>8, <1>9, Inmovilizados DEF TablasFirmes

\* The guard of a recovered operation is its only one, before ARCA
LEMMA GuardaSola ==
    ASSUME NEW k, NEW i, NEW z, ResultadoGuarda(k, i, z) = "recuperada"
    PROVE  /\ i \in DOMAIN guardas /\ GuardasDe(k) = {i} /\ guardas[i].fase \in FasesPrevias
           /\ op[k].estado = "en_proceso"
BY DEF ResultadoGuarda, GuardasDe, FasesPrevias

\* It is closed and its lote is given up: nothing else holds it back
LEMMA RecuperadaFirme ==
    ASSUME InductivoLote, InductivoLote', InductivoOrden, NEW k, NEW i, NEW z,
           ResultadoGuarda(k, i, z) = "recuperada",
           guardas' = GuardaRecuperada(i, "recuperada"), grupo' = grupo,
           guardas[i].grupos \subseteq Con(grupo, "validado"),
           lote'.dueno = lote.dueno, lote'.material = lote.material,
           lote'.estado \in {"en_cola", "validado"},
           \A j \in DOMAIN guardas : Pendiente(guardas[j], grupo) =>
              guardas[j].op = k \/ (lote'.estado # "en_cola" /\ Con(grupo, "validado") = {})
    PROVE  TablasFirmes' /\ ValidadosBajan
<1>1. i \in DOMAIN guardas /\ GuardasDe(k) = {i} /\ guardas[i].fase \in FasesPrevias
  BY GuardaSola
<1>2. guardas' = GuardaCerrada(i, "cerrada_pre_arca", {})
  BY DEF GuardaRecuperada
<1>3. /\ UnaCambia(i) /\ guardas'[i].fase = "cerrada_pre_arca"
      /\ guardas'[i].aut = guardas[i].aut /\ guardas'[i].arca = guardas[i].arca
      /\ \A g \in guardas[i].grupos : guardas'[i].intento[g] = "fallido_verificado"
  BY <1>1, <1>2, CerradaCampos
<1>4. ~Pendiente(guardas'[i], grupo') /\ ~Cruzo(guardas'[i])
      /\ guardas'[i].fase \notin FasesActivas
  BY <1>3 DEF Pendiente, Cruzo, FasesActivas, FasesPrevias
<1>5. LoteRetenido(guardas'[i], lote', grupo', op')
  BY <1>4 DEF LoteRetenido
<1>6. ASSUME NEW j \in DOMAIN guardas, j # i
      PROVE  LoteRetenido(guardas[j], lote', grupo', op')
  <2>1. guardas[j].op # k
    BY <1>1, <1>6 DEF GuardasDe
  <2>2. Pendiente(guardas[j], grupo) => lote'.estado # "en_cola" /\ Con(grupo, "validado") = {}
    BY <2>1
  <2> QED BY <2>2 DEF LoteRetenido, Pendiente
<1>7. \A g \in guardas[i].grupos : IntentoFirme(guardas'[i], g, grupo')
  <2>1. \A g \in guardas[i].grupos : grupo'[g] = "validado"
    BY DEF Con
  <2> QED BY <1>3, <2>1 DEF IntentoFirme
<1>8. ValidadosBajan /\ grupo' \in [Grupos -> EstadosGrupo]
  BY DEF ValidadosBajan, InductivoLote, FilasEnForma
<1>9. GuardasFirmes' /\ CrucesDisjuntos'
  BY <1>1, <1>3, <1>4, <1>5, <1>6, <1>7, <1>8, UnaGuardaFirme
<1>10. AutorizadosFirmes'
  <2>1. ASSUME NEW g \in Con(grupo', "autorizado")
        PROVE  UnicoCae(g, guardas')
    <3>1. g \notin guardas[i].grupos
      BY <2>1 DEF Con
    <3>2. UnicoCae(g, guardas)
      BY <2>1 DEF InductivoOrden, TablasFirmes, AutorizadosFirmes
    <3> QED BY <1>1, <1>3, <3>1, <3>2, UnicoSigue
  <2> QED BY <2>1 DEF AutorizadosFirmes
<1>11. DuenoConMaterial'
  BY DEF DuenoConMaterial, InductivoOrden, TablasFirmes
<1> QED BY <1>8, <1>9, <1>10, <1>11 DEF TablasFirmes

\* What the recovery of a request may do
LEMMA CasosRecuperar ==
    ASSUME InductivoLote, NEW a \in Solicitudes, Recuperar(a),
           NEW k, k = K(a), NEW i, i = mem[a].guarda,
           NEW r, r = ResultadoGuarda(k, i, op[k].resp)
    PROVE  /\ mem[a].pc = "recuperar"
           /\ \/ Fin(a, "bloqueado") /\ UNCHANGED tablas
              \/ /\ i > 0 /\ r \in {"ambigua", "reconciliacion"}
                 /\ guardas' = GuardaRecuperada(i, r) /\ Inmovilizar(guardas[i].grupos)
                 /\ op' = [op EXCEPT ![k].estado = IF @ = "en_proceso"
                                     THEN "requiere_reconciliacion" ELSE @]
                 /\ Fin(a, "post_arca")
              \/ /\ op' = [op EXCEPT ![k].estado = "interrumpida_pre_arca"]
                 /\ op[k].estado = "en_proceso" /\ op[k].resp = "nula"
                 /\ lote' = [lote EXCEPT !.estado = "validado", !.vieja = FALSE]
                 /\ lote.estado \in {"procesando", "validado"}
                 /\ Fin(a, "reintentable") /\ UNCHANGED grupo
                 /\ \/ i = 0 /\ GuardasDe(k) = {} /\ guardas' = guardas
                    \/ /\ i > 0 /\ r = "recuperada" /\ guardas' = GuardaRecuperada(i, r)
                       /\ guardas[i].grupos \subseteq Con(grupo, "validado")
<1> DEFINE toma == IF Modo[a] = "background" THEN {"validado"} ELSE {"procesando", "validado"}
           A == /\ i = 0 /\ op[k].estado = "en_proceso" /\ op[k].resp = "nula"
                /\ GuardasDe(k) = {} /\ lote.estado \in toma
           B == i > 0 /\ r \in {"ambigua", "reconciliacion"}
           C == /\ i > 0 /\ r = "recuperada" /\ lote.estado \in toma
                /\ guardas[i].grupos \subseteq Con(grupo, "validado")
           libera == /\ op' = [op EXCEPT ![k].estado = "interrumpida_pre_arca"]
                     /\ lote' = [lote EXCEPT !.estado = "validado", !.vieja = FALSE]
                     /\ Fin(a, "reintentable")
           PA == libera /\ UNCHANGED <<grupo, guardas>>
           PB == /\ guardas' = GuardaRecuperada(i, r)
                 /\ op' = [op EXCEPT ![k].estado = IF @ = "en_proceso"
                                 THEN "requiere_reconciliacion" ELSE @]
                 /\ Inmovilizar(guardas[i].grupos)
                 /\ Fin(a, "post_arca")
           PC == libera /\ guardas' = GuardaRecuperada(i, r) /\ UNCHANGED grupo
           PO == Fin(a, "bloqueado") /\ UNCHANGED tablas
<1>1. mem[a].pc = "recuperar" /\ (CASE A -> PA [] B -> PB [] C -> PC [] OTHER -> PO)
  BY DEF Recuperar, En
<1>2. i \in Int
  BY Consta, SolicitudNoEsWorker DEF Memorias
<1>3. (A /\ PA) \/ (B /\ PB) \/ (C /\ PC) \/ PO
  <2>1. /\ A \in BOOLEAN /\ B \in BOOLEAN /\ C \in BOOLEAN
        /\ PA \in BOOLEAN /\ PB \in BOOLEAN /\ PC \in BOOLEAN /\ PO \in BOOLEAN
    OBVIOUS
  <2>2. ~(A /\ B) /\ ~(A /\ C) /\ ~(B /\ C)
    BY <1>2
  <2> HIDE DEF A, B, C, PA, PB, PC, PO
  <2>3. ~A /\ ~B /\ ~C => PO
    BY <1>1, <2>1
  <2>4. A /\ ~B /\ ~C => PA
    BY <1>1, <2>1
  <2>5. ~A /\ B /\ ~C => PB
    BY <1>1, <2>1
  <2>6. ~A /\ ~B /\ C => PC
    BY <1>1, <2>1
  <2> QED BY <2>1, <2>2, <2>3, <2>4, <2>5, <2>6
<1>4. C => op[k].estado = "en_proceso" /\ op[k].resp = "nula"
  BY DEF ResultadoGuarda
<1>5. CASE A /\ PA
  BY <1>1, <1>5
<1>6. CASE B /\ PB
  <2> HIDE DEF A, C, PA, PC, PO
  <2> QED BY <1>1, <1>6
<1>7. CASE C /\ PC
  BY <1>1, <1>4, <1>7
<1>8. CASE PO
  BY <1>1, <1>8
<1> QED BY <1>3, <1>5, <1>6, <1>7, <1>8

\* A request recovers: with its guard, or what is its own
LEMMA OrdenRecuperar ==
    ASSUME InductivoLote, InductivoLote', InductivoOrden, Ordenado, NEW a \in Solicitudes,
           Recuperar(a)
    PROVE  InductivoOrden'
<1> USE SolicitudNoEsWorker
<1> DEFINE k == K(a)
           i == mem[a].guarda
           r == ResultadoGuarda(k, i, op[k].resp)
<1>1. mem[a].pc = "recuperar" /\ mem[a].op \in Claves /\ k = mem[a].op /\ i \in Int
      /\ lote \in FilasLote /\ op \in [Claves -> FilasOperacion]
  BY CasosRecuperar, ClaveEnMano, Consta DEF SinClave, K, Memorias
<1>2. EnCorrida(mem[a]) <=> i > 0
  BY <1>1 DEF EnCorrida, PasosDeCorrida
<1>3. EnObra(mem[a]) => \A b \in Solicitudes : b # a /\ EnObra(mem[b]) => K(b) # k
  BY DEF InductivoOrden, ClaveDeUno
<1>4. (\A x \in Claves : x # k => op'[x] = op[x])
      /\ (\A b \in Solicitudes : b # a /\ EnObra(mem[b]) => K(b) # k)
         => ClavesSalvo(a)
  BY Sabe, ClaveDeObra DEF ClavesSalvo, K
<1>5. CASE Fin(a, "bloqueado") /\ UNCHANGED tablas
  BY <1>5, SoloTerminaOrden
<1>6. CASE /\ i > 0 /\ r \in {"ambigua", "reconciliacion"}
           /\ guardas' = GuardaRecuperada(i, r) /\ Inmovilizar(guardas[i].grupos)
           /\ op' = [op EXCEPT ![k].estado = IF @ = "en_proceso"
                               THEN "requiere_reconciliacion" ELSE @]
           /\ Fin(a, "post_arca")
  <2>1. TablasFirmes' /\ ValidadosBajan
    <3> HIDE DEF i, k
    <3> QED BY <1>6, DudaFirme
  <2>2. \A x \in Claves : x # k => op'[x] = op[x]
    <3> HIDE DEF k, r
    <3> QED BY <1>1, <1>6
  <2>3. ClavesSalvo(a)
    BY <1>2, <1>3, <1>4, <1>6, <2>2 DEF EnObra
  <2> QED BY <1>2, <1>6, <2>1, <2>3, FinDeCorrida
<1>7. CASE /\ op' = [op EXCEPT ![k].estado = "interrumpida_pre_arca"]
           /\ op[k].estado = "en_proceso" /\ op[k].resp = "nula"
           /\ lote' = [lote EXCEPT !.estado = "validado", !.vieja = FALSE]
           /\ lote.estado \in {"procesando", "validado"}
           /\ Fin(a, "reintentable") /\ UNCHANGED grupo
           /\ \/ i = 0 /\ GuardasDe(k) = {} /\ guardas' = guardas
              \/ /\ i > 0 /\ r = "recuperada" /\ guardas' = GuardaRecuperada(i, r)
                 /\ guardas[i].grupos \subseteq Con(grupo, "validado")
  <2>1. /\ \A x \in Claves : x # k => op'[x] = op[x]
        /\ op'[k].estado = "interrumpida_pre_arca" /\ op[k].estado = "en_proceso"
    <3> HIDE DEF k, i, r
    <3> QED BY <1>1, <1>7 DEF FilasOperacion
  <2>2. lote'.estado = "validado" /\ lote'.dueno = lote.dueno /\ lote'.material = lote.material
    BY <1>1, <1>7 DEF FilasLote
  <2>3. CierresFirmes
    BY <2>1 DEF CierresFirmes, EstadosCerrados
  <2>4. DuenoConMaterial'
    BY <2>2 DEF InductivoOrden, TablasFirmes, DuenoConMaterial
  <2>5. CASE i = 0 /\ GuardasDe(k) = {} /\ guardas' = guardas
    <3>1. op' # op
      BY <2>1
    <3>2. SueltaLoSuyo(a)
      BY <2>5, <3>1 DEF Ordenado, SueltaPropia
    <3>3. ClavesSalvo(a)
      BY <1>1, <1>4, <2>1, <3>2 DEF SueltaLoSuyo
    <3>4. RestoFirme
      BY <1>7, <2>2, <2>4, <2>5 DEF RestoFirme, InductivoOrden, TablasFirmes, AutorizadosFirmes
    <3>5. CASE lote.estado = "validado"
      <4>1. TablasCalmas
        BY <1>7, <2>2, <2>3, <2>5, <3>5 DEF TablasCalmas, LoteCalmo, ValidadosBajan
      <4> QED BY <1>7, <3>3, <3>4, <4>1, FinEnCalma
    <3>6. CASE lote.estado = "procesando"
      <4>1. lote.dueno = k
        BY <2>2, <3>2, <3>6 DEF SueltaLoSuyo
      <4>2. \A x : DuenoEs(x, lote, op) => x = k
        BY <2>1, <4>1 DEF DuenoEs, EstadosCerrados
      <4>3. \A b \in Actores : b # a => ~EnCorrida(mem[b])
        <5>1. \A b \in Actores : EnCorrida(mem[b]) => K(b) = k
          BY <3>6, <4>2, Sabe DEF CorridaSana, LoteDeCorrida, K
        <5> QED BY <3>2, <5>1 DEF SueltaLoSuyo, EnObra
      <4>4. \A j \in DOMAIN guardas : ~Pendiente(guardas[j], grupo)
        <5>1. \A j \in DOMAIN guardas : Pendiente(guardas[j], grupo) => guardas[j].op = k
          BY <3>6, <4>2 DEF InductivoOrden, TablasFirmes, GuardasFirmes, LoteRetenido
        <5> QED BY <2>5, <5>1 DEF GuardasDe
      <4>5. ValidadosBajan /\ Con(grupo', "fallido") \subseteq Con(grupo, "fallido")
            /\ grupo' \in [Grupos -> EstadosGrupo]
        BY <1>7 DEF ValidadosBajan, InductivoLote, FilasEnForma
      <4>6. GuardasFirmes' /\ CrucesDisjuntos'
        BY <2>5, <4>4, <4>5, GuardasSueltas
      <4> QED BY <1>7, <3>3, <3>4, <4>3, <4>5, <4>6, Suelta
    <3> QED BY <1>7, <3>5, <3>6
  <2>6. CASE /\ i > 0 /\ r = "recuperada" /\ guardas' = GuardaRecuperada(i, r)
             /\ guardas[i].grupos \subseteq Con(grupo, "validado")
    <3>1. CorridaSana(mem[a], lote, grupo, op, guardas)
      BY <1>2, <2>6, Sabe
    <3>2. \A j \in DOMAIN guardas : Pendiente(guardas[j], grupo) =>
            guardas[j].op = k \/ Con(grupo, "validado") = {}
      BY <1>1, <3>1 DEF CorridaSana, LoteDeCorrida, Respetada
    <3>3. TablasFirmes' /\ ValidadosBajan
      <4>1. ResultadoGuarda(k, i, op[k].resp) = "recuperada"
            /\ guardas' = GuardaRecuperada(i, "recuperada") /\ grupo' = grupo
            /\ lote'.estado \in {"en_cola", "validado"} /\ lote'.estado # "en_cola"
        BY <1>7, <2>2, <2>6
      <4> HIDE DEF i, k, r
      <4> QED BY <2>2, <2>6, <3>2, <4>1, RecuperadaFirme
    <3>4. ClavesSalvo(a)
      BY <1>2, <1>3, <1>4, <2>1, <2>6 DEF EnObra
    <3> QED BY <1>2, <1>7, <2>6, <3>3, <3>4, FinDeCorrida
  <2> QED BY <1>7, <2>5, <2>6
<1> HIDE DEF k, i, r
<1>8. k = K(a) /\ i = mem[a].guarda /\ r = ResultadoGuarda(k, i, op[k].resp)
  BY DEF k, i, r
<1> QED BY <1>5, <1>6, <1>7, <1>8, CasosRecuperar

\* A request that cannot recover ends
LEMMA OrdenRecuperarSinBase ==
    ASSUME InductivoLote, InductivoLote', InductivoOrden, NEW a \in Solicitudes,
           RecuperarSinBase(a)
    PROVE  InductivoOrden'
BY SolicitudNoEsWorker, SoloTerminaOrden DEF RecuperarSinBase

\* Every step of a request before and after its run
LEMMA SolicitudEnOrden ==
    ASSUME InductivoLote, InductivoLote', InductivoOrden, Ordenado, NEW a \in Solicitudes,
           PasoSolicitud(a)
    PROVE  InductivoOrden'
BY OrdenLeer, OrdenLeerDescarte, OrdenAbrir, OrdenRecuperarCreacion, OrdenEncontrar,
   OrdenResponder, OrdenPreparar, OrdenEncolar, OrdenPublicar, OrdenRecuperar,
   OrdenRecuperarSinBase, OrdenDescartar DEF PasoSolicitud

----------------------------------------------------------------------------
(* Taking the lote.                                                         *)

\* The owner written by a run is itself, with groups to emit
LEMMA DuenoEscrito ==
    ASSUME InductivoLote, InductivoOrden, NEW a \in Actores, mem[a].pc = "tomar",
           NEW l, l = EscribirDueno(lote, mem[a].vista, K(a), mem[a].mat)
    PROVE  /\ l \in FilasLote /\ l.estado = lote.estado /\ l.dueno \in {lote.dueno, K(a)}
           /\ l.dueno \in Claves => l.material # {}
<1>1. K(a) \in Claves /\ EnObra(mem[a])
  BY NoRecupera DEF SinClave, EnObra, AntesDeTomar
<1>2. mem[a].mat # {} /\ mem[a].mat \in SUBSET Grupos /\ lote \in FilasLote
  BY <1>1, Sabe, Consta DEF Prevision, Memorias
<1>3. lote.dueno \in Claves => lote.material # {}
  BY DEF InductivoOrden, TablasFirmes, DuenoConMaterial
<1>4. CASE l = lote
  BY <1>2, <1>3, <1>4
<1>5. CASE l = [lote EXCEPT !.dueno = K(a), !.material = mem[a].mat, !.vieja = FALSE]
  <2> DEFINE k == K(a)
             m == mem[a].mat
  <2>1. k \in Claves /\ m \in SUBSET Grupos /\ m # {}
    BY <1>1, <1>2
  <2>2. l = [lote EXCEPT !.dueno = k, !.material = m, !.vieja = FALSE]
    BY <1>5
  <2> HIDE DEF k, m
  <2>3. l \in FilasLote /\ l.estado = lote.estado /\ l.dueno = k /\ l.material = m
    BY <1>2, <2>1, <2>2 DEF FilasLote
  <2> QED BY <2>1, <2>3 DEF k
<1> QED BY <1>4, <1>5 DEF EscribirDueno

\* The lote was running or closed already: its state is published
LEMMA DevolverOrden ==
    ASSUME InductivoLote, InductivoLote', InductivoOrden, NEW a \in Actores, NEW l,
           DevolverLote(a, l), UNCHANGED <<grupo, guardas>>, mem[a].pc = "tomar",
           l.estado = lote.estado, l.dueno \in {lote.dueno, K(a)},
           l.dueno \in Claves => l.material # {}
    PROVE  InductivoOrden'
<1>1. K(a) \in Claves
  BY NoRecupera DEF SinClave
<1>2. CASE lote' = lote /\ op' = op /\ ((\E r : Fin(a, r)) \/ AnteCorte(a))
  <2>1. UNCHANGED tablas
    BY <1>2 DEF tablas
  <2> QED BY <1>2, <2>1, TablasIguales, FinEnCalma, CorteEnCalma
<1>3. CASE /\ \E e \in {"requiere_reconciliacion", "finalizado"} :
                 ResponderOperacion(K(a), e, "final")
           /\ lote' \in {l, lote} /\ Fin(a, "final")
  <2>1. PICK e \in {"requiere_reconciliacion", "finalizado"} :
            ResponderOperacion(K(a), e, "final")
    BY <1>3
  <2>2. CierresFirmes /\ ClavesSalvo(a) /\ op'[K(a)].estado \in EstadosCerrados
    BY <1>1, <2>1, OperacionCierra DEF EstadosCerrados
  <2>3. lote.dueno \in Claves => lote.material # {}
    BY DEF InductivoOrden, TablasFirmes, DuenoConMaterial
  <2>4. TablasCalmas /\ RestoFirme
    BY <1>3, <2>2, <2>3, CalmaConLote
  <2> QED BY <1>3, <2>2, <2>4, FinEnCalma
<1>4. CASE a = Worker
  <2>1. mem[a].vista.estado \in Terminales =>
          EstadoPublicado(mem[a].vista.estado) \in {"requiere_reconciliacion", "finalizado"}
    BY DEF EstadoPublicado, Terminales, Cerrados
  <2> QED BY <1>2, <1>3, <1>4, <2>1 DEF DevolverLote
<1>5. CASE a # Worker
  BY <1>2, <1>3, <1>5 DEF DevolverLote
<1> QED BY <1>4, <1>5

\* A run that begins with every group to emit, and nothing held back
LEMMA CorridaNueva ==
    ASSUME InductivoLote, InductivoOrden, NEW m, NEW l, NEW o, m.pc = "releer",
           m.mat = Con(grupo, "validado"), l.estado = "procesando", DuenoEs(m.op, l, o),
           \A i \in DOMAIN guardas : ~Pendiente(guardas[i], grupo)
    PROVE  CorridaSana(m, l, grupo, o, guardas)
<1>1. RestoDe(m) = Con(grupo, "validado") /\ PorEnviarDe(m) \cap EnManoDe(m) = {}
  BY DEF RestoDe, PorEnviarDe, EnManoDe
<1>2. LoteDeCorrida(m, l, grupo, o)
  BY DEF LoteDeCorrida
<1>3. GruposDeCorrida(m, grupo, guardas)
  BY <1>1 DEF GruposDeCorrida
<1>4. AplicacionSana(m, guardas)
  BY DEF AplicacionSana
<1>5. ASSUME NEW i \in DOMAIN guardas
      PROVE  Respetada(m, i, guardas[i], l, grupo)
  <2>1. guardas[i] \in FilasGuarda /\ ~Pendiente(guardas[i], grupo)
    BY GuardaEnForma
  <2>2. ASSUME NEW g \in guardas[i].grupos, grupo[g] = "validado", g \in Grupos
        PROVE  /\ guardas[i].fase = "cerrada_pre_arca"
               /\ guardas[i].intento[g] # "requiere_reconciliacion"
    <3>1. guardas[i].fase = "cerrada_pre_arca"
      BY <2>1, <2>2 DEF Pendiente, FilasGuarda, FasesPrevias, FasesCruzadas, FasesActivas, Con
    <3>2. IntentoFirme(guardas[i], g, grupo)
      BY DEF InductivoOrden, TablasFirmes, GuardasFirmes
    <3> QED BY <2>2, <3>1, <3>2 DEF IntentoFirme
  <2> QED BY <1>1, <2>1, <2>2 DEF Respetada, Con
<1> QED BY <1>2, <1>3, <1>4, <1>5 DEF CorridaSana

\* Taking the lote: nobody else runs, and nothing is pending of another
LEMMA OrdenTomar ==
    ASSUME InductivoLote, InductivoLote', InductivoOrden, NEW a \in Actores, Tomar(a)
    PROVE  InductivoOrden'
<1> DEFINE v == mem[a].vista
           l == EscribirDueno(lote, v, K(a), mem[a].mat)
<1>1. mem[a].pc = "tomar" /\ UNCHANGED <<grupo, guardas>>
  BY DEF Tomar, En
<1>2. l \in FilasLote /\ l.estado = lote.estado /\ l.dueno \in {lote.dueno, K(a)}
      /\ (l.dueno \in Claves => l.material # {})
  BY <1>1, DuenoEscrito
<1>3. CASE DevolverLote(a, l)
  <2> HIDE DEF l
  <2> QED BY <1>1, <1>2, <1>3, DevolverOrden
<1>4. CASE ConError(a, l)
  <2> HIDE DEF l
  <2> QED BY <1>1, <1>2, <1>4, ErrorEnCalma DEF SinClave
<1>5. CASE ConError(a, lote)
  BY <1>1, <1>5, ErrorSimpleOrden DEF SinClave
<1>6. CASE /\ Con(grupo, "validado") = mem[a].mat
           /\ PoseeLote(a, l, v.async, Procesables)
           /\ lote' = [l EXCEPT !.estado = "procesando", !.async = v.async, !.vieja = FALSE]
           /\ Ir(a, "releer") /\ UNCHANGED op
  <2>1. /\ EnObra(mem[a]) /\ mem[a].mat # {} /\ mem[a].guarda = 0 /\ mem[a].chunk # 0
        /\ a # Worker => ConClave(op[K(a)])
    BY <1>1, Sabe DEF Prevision, EnObra, AntesDeTomar, SinGuarda
  <2>2. lote.estado \in Procesables /\ l.dueno = K(a)
    BY <1>2, <1>6 DEF PoseeLote
  <2>3. Quieta
    BY <1>6, <2>1, <2>2, SinNadie DEF Procesables
  <2>4. lote'.estado = "procesando" /\ lote'.dueno = K(a) /\ (K(a) \in Claves => lote'.material # {})
    <3> HIDE DEF l
    <3>1. lote'.estado = "procesando" /\ lote'.dueno = l.dueno /\ lote'.material = l.material
      BY <1>2, <1>6 DEF FilasLote
    <3> QED BY <1>2, <2>2, <3>1
  <2>5. ValidadosBajan /\ Con(grupo', "fallido") \subseteq Con(grupo, "fallido")
        /\ grupo' \in [Grupos -> EstadosGrupo] /\ guardas' = guardas /\ grupo' = grupo
    BY <1>1 DEF ValidadosBajan, InductivoLote, FilasEnForma
  <2>6. GuardasFirmes' /\ CrucesDisjuntos'
    BY <2>3, <2>5, GuardasSueltas DEF Quieta
  <2>7. TablasFirmes'
    BY <2>4, <2>5, <2>6 DEF InductivoOrden, TablasFirmes, AutorizadosFirmes, DuenoConMaterial
  <2>8. /\ SoloMueve(a) /\ mem'[a].pc = "releer" /\ mem'[a].op = mem[a].op
        /\ mem'[a].guarda = mem[a].guarda /\ mem'[a].mat = mem[a].mat
        /\ mem'[a].chunk = mem[a].chunk
    BY <1>6, IrForma
  <2>9. CorridaSana(mem'[a], lote', grupo', op', guardas')
    BY <1>6, <2>3, <2>4, <2>5, <2>8, CorridaNueva DEF Quieta, DuenoEs, K
  <2>10. Prevision(a, mem'[a], grupo')
    BY <2>1, <2>8 DEF Prevision
  <2>11. ActorSano(a, mem'[a], lote', grupo', op', guardas')
    BY <1>6, <2>1, <2>8, <2>9, <2>10 DEF ActorSano, K
  <2>12. ASSUME NEW b \in Actores, b # a
         PROVE  ActorSano(b, mem[b], lote', grupo', op', guardas')
    <3>1. b \in Solicitudes /\ EnObra(mem[b]) => ConClave(op'[K(b)])
      BY <1>6, Sabe, SolicitudNoEsWorker
    <3> QED BY <2>3, <2>5, <2>12, <3>1, OtroSano DEF Quieta
  <2>13. \A b \in Solicitudes : b # a /\ EnObra(mem[b]) => mem[b].op # mem'[a].op \/ a = Worker
    BY <2>1, <2>8 DEF InductivoOrden, ClaveDeUno, K, Actores
  <2>14. \A b \in Actores : b # a => ~EnCorrida(mem[b])
    BY <2>3 DEF Quieta
  <2> QED BY <2>7, <2>8, <2>11, <2>12, <2>13, <2>14, AvanzaOrden
<1> QED BY <1>3, <1>4, <1>5, <1>6 DEF Tomar

----------------------------------------------------------------------------
(* Before the first sublote.                                                *)

LEMMA ClavesQuietas ==
    ASSUME InductivoOrden, op' = op, NEW a \in Actores
    PROVE  ClavesSalvo(a) /\ (a # Worker /\ EnObra(mem[a]) => ConClave(op'[K(a)]))
BY Sabe, SolicitudNoEsWorker DEF ClavesSalvo

\* A step of the run that leaves the operations alone
LEMMA SigueCorrida ==
    ASSUME InductivoOrden, NEW a \in Actores, EnCorrida(mem[a]), SoloMueve(a),
           op' = op, ValidadosBajan, TablasFirmes', mem'[a].op = mem[a].op,
           Prevision(a, mem'[a], grupo'),
           EnCorrida(mem'[a]) => CorridaSana(mem'[a], lote', grupo', op', guardas')
    PROVE  InductivoOrden'
<1>1. ClavesSalvo(a) /\ (a # Worker /\ EnObra(mem[a]) => ConClave(op'[K(a)]))
  BY ClavesQuietas
<1>2. ActorSano(a, mem'[a], lote', grupo', op', guardas')
  BY <1>1 DEF ActorSano, EnObra, K
<1> QED BY <1>1, <1>2, AvanzaCorrida

\* Groups are held and none is left to emit
LEMMA NadaPorEmitir ==
    ASSUME InductivoLote, InductivoOrden, NEW S, Inmovilizar(S), guardas' = guardas,
           Con(grupo, "validado") \subseteq S
    PROVE  TablasFirmes' /\ ValidadosBajan
<1> USE Inmovilizados
<1>1. ASSUME NEW i \in DOMAIN guardas
      PROVE  LoteRetenido(guardas[i], lote', grupo', op')
  BY RetenidoFacil
<1>2. GuardasFirmes' /\ CrucesDisjuntos'
  BY <1>1, GuardasRetenidas
<1>3. AutorizadosFirmes' /\ DuenoConMaterial'
  BY DEF InductivoOrden, TablasFirmes, AutorizadosFirmes, DuenoConMaterial
<1> QED BY <1>2, <1>3 DEF TablasFirmes

\* The run reads its lote again
LEMMA OrdenReleer ==
    ASSUME InductivoLote, InductivoLote', InductivoOrden, NEW a \in Actores, Releer(a)
    PROVE  InductivoOrden'
<1>1. mem[a].pc = "releer" /\ guardas' = guardas /\ EnCorrida(mem[a])
  BY DEF Releer, En, EnCorrida, PasosDeCorrida
<1>2. Prevision(a, mem[a], grupo) /\ CorridaSana(mem[a], lote, grupo, op, guardas)
      /\ mem[a].guarda = 0 /\ mem[a].mat # {}
  BY <1>1, Sabe DEF Prevision, SinGuarda, EnObra
<1>3. CASE ConError(a, lote) /\ UNCHANGED grupo
  BY <1>1, <1>3, ErrorSimpleOrden DEF SinClave
<1>4. CASE /\ mem' = [mem EXCEPT ![a].pc = "capacidad", ![a].vista = lote]
           /\ UNCHANGED <<lote, grupo, op>>
  <2>1. SoloMueve(a) /\ mem'[a] = [mem[a] EXCEPT !.pc = "capacidad", !.vista = lote]
    BY <1>4, Consta DEF SoloMueve
  <2>2. /\ mem'[a].pc = "capacidad" /\ mem'[a].op = mem[a].op /\ mem'[a].vista = lote
        /\ mem'[a].guarda = mem[a].guarda /\ mem'[a].mat = mem[a].mat
        /\ mem'[a].chunk = mem[a].chunk /\ mem'[a].pend = mem[a].pend
        /\ mem'[a].sub = mem[a].sub
    BY <2>1, Consta DEF Memorias
  <2>3. UNCHANGED tablas
    BY <1>1, <1>4 DEF tablas
  <2>4. TablasFirmes' /\ ValidadosBajan
    BY <1>1, <1>4 DEF InductivoOrden, TablasFirmes, GuardasFirmes, CrucesDisjuntos,
                      AutorizadosFirmes, DuenoConMaterial, ValidadosBajan
  <2>5. Prevision(a, mem'[a], grupo')
    BY <1>2, <2>2 DEF Prevision
  <2>6. RestoDe(mem'[a]) = RestoDe(mem[a]) /\ PorEnviarDe(mem'[a]) = PorEnviarDe(mem[a])
        /\ EnManoDe(mem'[a]) = EnManoDe(mem[a])
    BY <1>1, <2>2 DEF RestoDe, PorEnviarDe, EnManoDe
  <2>7. LoteDeCorrida(mem'[a], lote', grupo', op')
    BY <1>2, <1>4, <2>2 DEF CorridaSana, LoteDeCorrida
  <2>8. GruposDeCorrida(mem'[a], grupo', guardas') /\ AplicacionSana(mem'[a], guardas')
    BY <1>1, <1>2, <1>4, <2>2, <2>6 DEF CorridaSana, GruposDeCorrida, AplicacionSana
  <2>9. \A i \in DOMAIN guardas' : Respetada(mem'[a], i, guardas'[i], lote', grupo')
    BY <1>1, <1>2, <1>4, <2>2, <2>6 DEF CorridaSana, Respetada
  <2> QED BY <1>1, <1>4, <2>1, <2>2, <2>4, <2>5, <2>7, <2>8, <2>9, SigueCorrida DEF CorridaSana
<1>5. CASE /\ Con(grupo, "validado") = mem[a].mat /\ Inmovilizar(mem[a].mat) /\ op' = op
           /\ \/ \E r : Fin(a, r)
              \/ Ir(a, "guardar_error")
  <2>1. TablasFirmes' /\ ValidadosBajan
    BY <1>1, <1>5, NadaPorEmitir
  <2>2. CASE \E r : Fin(a, r)
    BY <1>1, <1>5, <2>1, <2>2, ClavesQuietas, FinDeCorrida
  <2>3. CASE Ir(a, "guardar_error")
    <3>1. /\ SoloMueve(a) /\ mem'[a].pc = "guardar_error" /\ mem'[a].op = mem[a].op
          /\ mem'[a].guarda = mem[a].guarda /\ mem'[a].chunk = mem[a].chunk
      BY <2>3, IrForma
    <3>2. ~EnCorrida(mem'[a]) /\ ~EnObra(mem'[a])
      BY <3>1 DEF EnCorrida, EnObra, PasosDeCorrida, AntesDeTomar
    <3>3. Prevision(a, mem'[a], grupo')
      BY <1>2, <3>1, <3>2 DEF Prevision
    <3> QED BY <1>1, <1>5, <2>1, <3>1, <3>2, <3>3, SigueCorrida
  <2> QED BY <1>5, <2>2, <2>3
<1> QED BY <1>3, <1>4, <1>5 DEF Releer

\* What a run has yet to send, ARCA never authorised
LEMMA NadaAutorizado ==
    ASSUME InductivoLote, InductivoOrden, NEW m, CorridaSana(m, lote, grupo, op, guardas),
           NEW g \in RestoDe(m), g \notin EnManoDe(m), NEW i \in GuardasConGrupo(g)
    PROVE  /\ i \in DOMAIN guardas /\ guardas[i].fase = "cerrada_pre_arca"
           /\ guardas[i].intento[g] = "fallido_verificado"
<1>1. i \in DOMAIN guardas /\ g \in guardas[i].grupos
  BY DEF GuardasConGrupo
<1>2. Respetada(m, i, guardas[i], lote, grupo) /\ IntentoFirme(guardas[i], g, grupo)
  BY <1>1 DEF CorridaSana, InductivoOrden, TablasFirmes, GuardasFirmes
<1> QED BY <1>1, <1>2 DEF Respetada, IntentoFirme

\* The run learns what it may send
LEMMA OrdenCapacidad ==
    ASSUME InductivoLote, InductivoLote', InductivoOrden, NEW a \in Actores, Capacidad(a)
    PROVE  InductivoOrden'
<1> DEFINE m == mem[a]
           ya == IF a = Worker THEN {g \in m.mat : Respaldado(g)} ELSE {}
           k == K(a)
<1>1. m.pc = "capacidad" /\ op' = op /\ guardas' = guardas /\ EnCorrida(m)
      /\ m.pc \notin SinClave
  BY DEF Capacidad, En, EnCorrida, PasosDeCorrida, SinClave
<1>2. /\ Prevision(a, m, grupo) /\ CorridaSana(m, lote, grupo, op, guardas)
      /\ m.mat # {} /\ k \in Claves /\ m.mat \in SUBSET Grupos
      /\ lote \in FilasLote /\ grupo \in [Grupos -> EstadosGrupo] /\ m \in Memorias
      /\ mem \in [Actores -> Memorias]
  BY <1>1, Sabe, Consta, NoRecupera DEF Prevision, EnObra, Memorias
<1>3. /\ RestoDe(m) = m.mat /\ EnManoDe(m) = {} /\ PorEnviarDe(m) = m.mat
  BY <1>1 DEF RestoDe, PorEnviarDe, EnManoDe
<1>4. ya = {}
  <2>1. ASSUME NEW g \in m.mat, Respaldado(g)
        PROVE  FALSE
    <3>1. PICK i \in GuardasConGrupo(g) : guardas[i].intento[g] = "autorizado"
      BY <2>1 DEF Respaldado
    <3>2. guardas[i].intento[g] = "fallido_verificado"
      BY <1>2, <1>3, NadaAutorizado
    <3> QED BY <3>1, <3>2
  <2> QED BY <2>1
<1>5. PICK c \in {1, Chunk} :
        mem' = [mem EXCEPT ![a].chunk = c, ![a].pend = m.mat \ ya, ![a].sel = m.mat \ ya,
                           ![a].pc = IF m.mat \ ya = {} THEN "terminar" ELSE "verificar"]
  BY DEF Capacidad
<1>6. mem' = [mem EXCEPT ![a].chunk = c, ![a].pend = m.mat, ![a].sel = m.mat,
                         ![a].pc = "verificar"]
  <2>1. m.mat \ ya = m.mat
    BY <1>4
  <2> HIDE DEF ya, m
  <2> QED BY <1>2, <1>5, <2>1
<1>7. /\ SoloMueve(a) /\ mem'[a].pc = "verificar" /\ mem'[a].op = m.op
      /\ mem'[a].mat = m.mat /\ mem'[a].guarda = m.guarda /\ mem'[a].chunk = c
      /\ mem'[a].pend = m.mat /\ mem'[a].vista = m.vista
  BY <1>2, <1>6 DEF SoloMueve, Memorias
<1>8. lote'.estado = lote.estado /\ lote'.dueno = m.op /\ lote'.material = m.mat
  <2> DEFINE mt == m.mat
  <2>1. lote' = [lote EXCEPT !.dueno = k, !.material = mt, !.vieja = FALSE]
    BY DEF Capacidad
  <2> HIDE DEF k, mt
  <2>2. lote'.estado = lote.estado /\ lote'.dueno = k /\ lote'.material = mt
    BY <1>2, <2>1 DEF FilasLote
  <2> QED BY <2>2 DEF k, mt, K
<1>9. grupo' = grupo
  <2>1. grupo' = [g \in Grupos |-> IF g \in ya THEN "autorizado" ELSE grupo[g]]
    BY DEF Capacidad
  <2> HIDE DEF ya
  <2> QED BY <1>2, <1>4, <2>1
<1> HIDE DEF ya, m
<1>10. \A i \in DOMAIN guardas : Respetada(m, i, guardas[i], lote, grupo)
  BY <1>2 DEF CorridaSana
<1>11. ASSUME NEW i \in DOMAIN guardas
       PROVE  LoteRetenido(guardas[i], lote', grupo', op')
  <2>1. LoteRetenido(guardas[i], lote, grupo, op) /\ Respetada(m, i, guardas[i], lote, grupo)
    BY <1>10 DEF InductivoOrden, TablasFirmes, GuardasFirmes
  <2> QED BY <1>8, <1>9, <2>1 DEF LoteRetenido, Respetada, DuenoEs
<1>12. ValidadosBajan /\ Con(grupo', "fallido") \subseteq Con(grupo, "fallido")
       /\ grupo' \in [Grupos -> EstadosGrupo]
  BY <1>2, <1>9 DEF ValidadosBajan
<1>13. TablasFirmes'
  <2>1. GuardasFirmes' /\ CrucesDisjuntos'
    BY <1>1, <1>11, <1>12, GuardasRetenidas
  <2>2. AutorizadosFirmes' /\ DuenoConMaterial'
    BY <1>1, <1>2, <1>8, <1>9 DEF InductivoOrden, TablasFirmes, AutorizadosFirmes, DuenoConMaterial
  <2> QED BY <2>1, <2>2 DEF TablasFirmes
<1>14. Prevision(a, mem'[a], grupo')
  BY <1>2, <1>7, LoteAssumption DEF Prevision, SinGuarda
<1>15. CorridaSana(mem'[a], lote', grupo', op', guardas')
  <2>1. RestoDe(mem'[a]) = m.mat /\ EnManoDe(mem'[a]) = {} /\ PorEnviarDe(mem'[a]) = m.mat
    BY <1>7 DEF RestoDe, PorEnviarDe, EnManoDe
  <2>2. LoteDeCorrida(mem'[a], lote', grupo', op')
    BY <1>1, <1>2, <1>7, <1>8, <1>9 DEF CorridaSana, LoteDeCorrida, DuenoEs
  <2>3. GruposDeCorrida(mem'[a], grupo', guardas') /\ AplicacionSana(mem'[a], guardas')
    BY <1>1, <1>2, <1>3, <1>7, <1>9, <2>1 DEF CorridaSana, GruposDeCorrida, AplicacionSana
  <2>4. \A i \in DOMAIN guardas' : Respetada(mem'[a], i, guardas'[i], lote', grupo')
    BY <1>1, <1>3, <1>7, <1>8, <1>9, <1>10, <2>1 DEF Respetada
  <2> QED BY <2>2, <2>3, <2>4 DEF CorridaSana
<1> QED BY <1>1, <1>7, <1>12, <1>13, <1>14, <1>15, SigueCorrida DEF m

----------------------------------------------------------------------------
(* Sublotes.                                                                *)

\* A set of groups has a first one: the sets of smaller groups are finite, and
\* strict inclusion between finite sets is well founded
LEMMA HayPrimero ==
    ASSUME NEW S \in SUBSET Grupos, S # {}
    PROVE  \E g \in S : \A h \in S : g <= h
<1> DEFINE Previos(g) == {h \in S : h < g}
           T == {Previos(g) : g \in S}
<1>1. S \subseteq Nat /\ IsFiniteSet(S)
  BY FS_Subset, LoteAssumption
<1>2. IsWellFoundedOn(StrictSubsetOrdering(S), FiniteSubsetsOf(S))
  BY <1>1, FS_StrictSubsetOrderingWellFounded
<1>3. T \subseteq FiniteSubsetsOf(S)
  <2>1. \A g \in S : Previos(g) \in SUBSET S /\ IsFiniteSet(Previos(g))
    BY <1>1, FS_Subset
  <2> QED BY <2>1 DEF FiniteSubsetsOf
<1>4. T # {}
  <2>1. PICK g \in S : TRUE
    OBVIOUS
  <2>2. Previos(g) \in T
    BY <2>1
  <2> QED BY <2>2
<1>5. PICK x \in T : \A y \in T : ~(<<y, x>> \in StrictSubsetOrdering(S))
  <2> HIDE DEF T
  <2> QED BY <1>2, <1>3, <1>4, WFMin
<1>6. PICK f \in S : x = Previos(f)
  OBVIOUS
<1>7. ASSUME NEW g \in S, ~(f <= g)
      PROVE  FALSE
  <2>1. g < f /\ ~(g < g) /\ \A h \in S : h < g => h < f
    BY <1>1, <1>7
  <2>2. Previos(g) \subseteq Previos(f) /\ g \in Previos(f) /\ g \notin Previos(g)
    BY <2>1
  <2>3. Previos(g) \in SUBSET S /\ Previos(f) \in SUBSET S /\ Previos(g) # Previos(f)
    BY <2>2
  <2>4. <<Previos(g), Previos(f)>> \in StrictSubsetOrdering(S)
    <3> HIDE DEF Previos
    <3> QED BY <2>2, <2>3 DEF StrictSubsetOrdering
  <2>5. Previos(g) \in T
    OBVIOUS
  <2> HIDE DEF Previos, T
  <2> QED BY <1>5, <1>6, <2>4, <2>5
<1> QED BY <1>7

\* The next sublote has a group
LEMMA SubloteConGrupos ==
    ASSUME NEW S \in SUBSET Grupos, S # {}, NEW n \in Nat, n # 0
    PROVE  Primeros(S, n) # {} /\ Primeros(S, n) \subseteq S
<1>1. PICK g \in S : \A h \in S : g <= h
  BY HayPrimero
<1>2. {h \in S : h <= g} = {g}
  <2>1. S \subseteq Nat
    BY LoteAssumption
  <2>2. \A h \in S : h <= g => h = g
    BY <1>1, <2>1
  <2> QED BY <1>1, <2>1, <2>2
<1>3. Cardinality({h \in S : h <= g}) = 1
  BY <1>2, FS_Singleton
<1>4. g \in Primeros(S, n)
  BY <1>3 DEF Primeros
<1> QED BY <1>4 DEF Primeros

\* The sublote is part of what is to send, and not empty
LEMMA SubloteDeCorrida ==
    ASSUME InductivoLote, InductivoOrden, NEW a \in Actores,
           mem[a].pc \in {"verificar", "reservar"}
    PROVE  LET s == Primeros(mem[a].pend, mem[a].chunk) IN
              s # {} /\ s \subseteq mem[a].pend /\ s \in SUBSET Grupos
<1>1. EnCorrida(mem[a]) /\ EnObra(mem[a])
  BY DEF EnCorrida, EnObra, PasosDeCorrida
<1>2. mem[a].pend # {} /\ mem[a].chunk # 0
  BY <1>1, Sabe DEF Prevision, CorridaSana, GruposDeCorrida
<1>3. mem[a].pend \in SUBSET Grupos /\ mem[a].chunk \in Nat
  BY Consta DEF Memorias
<1> QED BY <1>2, <1>3, SubloteConGrupos

\* No guard that covers what the run has still to send went to ARCA, and its own,
\* over sublote s, is the only one that may be open
NadaEnviado(a, s) ==
    \A i \in DOMAIN guardas' :
        /\ \A g \in guardas'[i].grupos \cap RestoDe(mem[a]) :
              /\ guardas'[i].fase = "cerrada_pre_arca" \/ (i = mem[a].guarda /\ g \in s)
              /\ guardas'[i].intento[g] # "requiere_reconciliacion"
              /\ guardas'[i].arca = "no_enviada"
        /\ Pendiente(guardas'[i], grupo) /\ lote.estado = "procesando" =>
              guardas'[i].op = mem[a].op

\* A sublote that did not reach ARCA: its groups are to be marked fallido
LEMMA SinEnviarOrden ==
    ASSUME InductivoLote, InductivoLote', InductivoOrden, NEW a \in Actores,
           mem[a].pc \in {"verificar", "reservar", "marcar"},
           NEW s, s # {}, NEW c \in {"nada", "cerrada_pre_arca"}, NEW r \in BOOLEAN,
           SinEnviar(a, s, c, r), UNCHANGED <<lote, grupo, op>>, TablasFirmes',
           s \cup (mem[a].pend \ s) = RestoDe(mem[a]), NadaEnviado(a, s),
           c # "nada" => guardas'[mem[a].guarda].grupos = s
    PROVE  InductivoOrden'
<1> DEFINE m == mem[a]
           v == IF r THEN lote ELSE m.vista
<1>1. EnCorrida(m) /\ ValidadosBajan /\ m \in Memorias /\ mem \in [Actores -> Memorias]
  BY Consta DEF EnCorrida, PasosDeCorrida, ValidadosBajan
<1>2. CASE Fin(a, "error_interno")
  BY <1>1, <1>2, ClavesQuietas, FinDeCorrida
<1>3. CASE mem' = [mem EXCEPT ![a].pc = "aplicar", ![a].sub = s, ![a].aut = {},
                          ![a].pend = @ \ s, ![a].cierre = c,
                          ![a].vista = IF r THEN lote ELSE @]
  <2> DEFINE n == mem'[a]
             q == m.pend \ s
  <2>1. Prevision(a, m, grupo) /\ CorridaSana(m, lote, grupo, op, guardas)
    BY <1>1, Sabe
  <2>2. /\ SoloMueve(a) /\ n.pc = "aplicar" /\ n.op = m.op /\ n.sub = s /\ n.pend = q
        /\ n.aut = {} /\ n.cierre = c /\ n.vista = v /\ n.guarda = m.guarda
        /\ n.mat = m.mat /\ n.chunk = m.chunk
    <3>1. mem' = [mem EXCEPT ![a] = [m EXCEPT !.pc = "aplicar", !.sub = s, !.aut = {},
                          !.pend = q, !.cierre = c, !.vista = v]]
      BY <1>1, <1>3
    <3> HIDE DEF m, q, v
    <3> QED BY <1>1, <3>1 DEF SoloMueve, Memorias
  <2>3. RestoDe(n) = RestoDe(m) /\ EnManoDe(n) = s /\ PorEnviarDe(n) = q
    <3> HIDE DEF n, m, q
    <3>1. EnManoDe(n) = s /\ PorEnviarDe(n) = q
      BY <2>2 DEF PorEnviarDe, EnManoDe
    <3> QED BY <3>1 DEF RestoDe, m, q
  <2> HIDE DEF n
  <2>4. Prevision(a, n, grupo')
    BY <1>1, <2>1, <2>2 DEF Prevision, SinGuarda, EnObra
  <2>5. LoteDeCorrida(n, lote', grupo', op')
    BY <2>1, <2>2 DEF CorridaSana, LoteDeCorrida
  <2>6. GruposDeCorrida(n, grupo', guardas')
    <3> HIDE DEF v
    <3> QED BY <2>1, <2>2, <2>3 DEF CorridaSana, GruposDeCorrida
  <2>7. AplicacionSana(n, guardas')
    <3> HIDE DEF v
    <3> QED BY <2>2 DEF AplicacionSana
  <2>8. ASSUME NEW i \in DOMAIN guardas'
        PROVE  Respetada(n, i, guardas'[i], lote', grupo')
    <3>1. guardas'[i].arca # "procesada" => guardas'[i].aut = {}
      BY DEF InductivoLote, GuardasSanas, GuardaSana
    <3>2. \A g \in s : g \in RestoDe(m)
      OBVIOUS
    <3> HIDE DEF m, q, v
    <3> QED BY <2>2, <2>3, <3>1, <3>2 DEF Respetada, NadaEnviado, m
  <2>9. CorridaSana(n, lote', grupo', op', guardas')
    BY <2>5, <2>6, <2>7, <2>8 DEF CorridaSana
  <2> QED BY <1>1, <2>2, <2>4, <2>9, SigueCorrida DEF n
<1> QED BY <1>2, <1>3 DEF SinEnviar

\* What is yet to send, no guard ever sent
LEMMA RestoSinEnviar ==
    ASSUME InductivoLote, InductivoOrden, NEW a \in Actores,
           mem[a].pc \in {"verificar", "reservar", "marcar"}
    PROVE  \A i \in DOMAIN guardas :
              /\ \A g \in guardas[i].grupos \cap RestoDe(mem[a]) :
                    /\ \/ guardas[i].fase = "cerrada_pre_arca"
                       \/ i = mem[a].guarda /\ g \in mem[a].sub /\ mem[a].pc = "marcar"
                    /\ guardas[i].intento[g] # "requiere_reconciliacion"
                    /\ guardas[i].arca = "no_enviada"
              /\ Pendiente(guardas[i], grupo) /\ lote.estado = "procesando" =>
                    guardas[i].op = mem[a].op
<1>1. EnCorrida(mem[a])
  BY DEF EnCorrida, PasosDeCorrida
<1>2. CorridaSana(mem[a], lote, grupo, op, guardas)
  BY <1>1, Sabe
<1>3. \A i \in DOMAIN guardas : guardas[i].fase = "cerrada_pre_arca" => guardas[i].arca = "no_enviada"
  BY DEF InductivoLote, GuardasSanas, GuardaSana, FasesPrevias
<1>4. mem[a].pc = "marcar" => guardas[mem[a].guarda].arca = "no_enviada"
  BY Consta DEF MemoriaDe, PorEnviar
<1>5. EnManoDe(mem[a]) = IF mem[a].pc = "marcar" THEN mem[a].sub ELSE {}
  BY DEF EnManoDe
<1> QED BY <1>2, <1>3, <1>4, <1>5 DEF CorridaSana, Respetada

\* Tables that do not change stay firm
LEMMA TablasFirmesIguales ==
    ASSUME InductivoOrden, UNCHANGED tablas
    PROVE  TablasFirmes' /\ ValidadosBajan
<1>1. lote' = lote /\ grupo' = grupo /\ op' = op /\ guardas' = guardas
  BY DEF tablas
<1> QED BY <1>1 DEF InductivoOrden, TablasFirmes, GuardasFirmes, CrucesDisjuntos,
        AutorizadosFirmes, DuenoConMaterial, ValidadosBajan

\* Nothing of the sublote was sent: its groups wait to be marked
LEMMA SinEnviarEnCalma ==
    ASSUME InductivoLote, InductivoLote', InductivoOrden, NEW a \in Actores,
           mem[a].pc \in {"verificar", "reservar"}, NEW s,
           s = Primeros(mem[a].pend, mem[a].chunk), NEW r \in BOOLEAN,
           SinEnviar(a, s, "nada", r), UNCHANGED tablas
    PROVE  InductivoOrden'
<1>1. s # {} /\ s \subseteq mem[a].pend
  BY SubloteDeCorrida
<1>2. RestoDe(mem[a]) = mem[a].pend
  BY DEF RestoDe, PorEnviarDe, EnManoDe
<1>3. guardas' = guardas /\ UNCHANGED <<lote, grupo, op>>
  BY DEF tablas
<1>4. s \cup (mem[a].pend \ s) = RestoDe(mem[a])
  BY <1>1, <1>2
<1>5. TablasFirmes'
  BY TablasFirmesIguales
<1>6. NadaEnviado(a, s)
  BY <1>3, RestoSinEnviar DEF NadaEnviado
<1> QED BY <1>1, <1>3, <1>4, <1>5, <1>6, SinEnviarOrden

\* The numbers are verified before the reservation
LEMMA OrdenVerificar ==
    ASSUME InductivoLote, InductivoLote', InductivoOrden, NEW a \in Actores, Verificar(a)
    PROVE  InductivoOrden'
<1>1. mem[a].pc = "verificar" /\ UNCHANGED tablas /\ EnCorrida(mem[a])
  BY DEF Verificar, En, EnCorrida, PasosDeCorrida
<1>2. CASE SinEnviar(a, Primeros(mem[a].pend, mem[a].chunk), "nada", FALSE)
  BY <1>1, <1>2, SinEnviarEnCalma
<1>3. CASE Ir(a, "reservar")
  <2> DEFINE m == mem[a]
             n == mem'[a]
  <2>1. Prevision(a, m, grupo) /\ CorridaSana(m, lote, grupo, op, guardas)
    BY <1>1, Sabe
  <2>2. lote' = lote /\ grupo' = grupo /\ op' = op /\ guardas' = guardas
    BY <1>1 DEF tablas
  <2>3. TablasFirmes' /\ ValidadosBajan
    BY <1>1, TablasFirmesIguales
  <2>4. /\ SoloMueve(a) /\ n.pc = "reservar" /\ n.op = m.op /\ n.guarda = m.guarda
        /\ n.mat = m.mat /\ n.vista = m.vista /\ n.chunk = m.chunk /\ n.pend = m.pend
    BY <1>3, IrForma
  <2>5. RestoDe(n) = RestoDe(m) /\ EnManoDe(n) = EnManoDe(m) /\ PorEnviarDe(n) = PorEnviarDe(m)
    <3> HIDE DEF n
    <3> QED BY <1>1, <2>4 DEF RestoDe, EnManoDe, PorEnviarDe
  <2> HIDE DEF n, m
  <2>6. Prevision(a, n, grupo')
    BY <1>1, <2>1, <2>4 DEF Prevision, SinGuarda, EnObra, PasosDeCorrida, m, EnCorrida
  <2>7. CorridaSana(n, lote', grupo', op', guardas')
    <3>1. LoteDeCorrida(n, lote', grupo', op')
      BY <1>1, <2>1, <2>2, <2>4 DEF CorridaSana, LoteDeCorrida, m
    <3>2. GruposDeCorrida(n, grupo', guardas') /\ AplicacionSana(n, guardas')
      BY <1>1, <2>1, <2>2, <2>4, <2>5 DEF CorridaSana, GruposDeCorrida, AplicacionSana, m
    <3>3. \A i \in DOMAIN guardas' : Respetada(n, i, guardas'[i], lote', grupo')
      BY <1>1, <2>1, <2>2, <2>4, <2>5 DEF CorridaSana, Respetada, m
    <3> QED BY <3>1, <3>2, <3>3 DEF CorridaSana
  <2> QED BY <1>1, <2>2, <2>3, <2>4, <2>6, <2>7, SigueCorrida DEF n, m
<1> QED BY <1>2, <1>3 DEF Verificar

\* The reservation is lost before it commits
LEMMA OrdenReservarPerdida ==
    ASSUME InductivoLote, InductivoLote', InductivoOrden, NEW a \in Actores, ReservarPerdida(a)
    PROVE  InductivoOrden'
<1>1. mem[a].pc = "reservar" /\ UNCHANGED tablas /\ EnCorrida(mem[a])
  BY DEF ReservarPerdida, En, EnCorrida, PasosDeCorrida
<1>2. Prevision(a, mem[a], grupo)
  BY Sabe
<1>3. mem' = [mem EXCEPT ![a].pc = "recuperar", ![a].guarda = -1, ![a].iniciada = FALSE]
  BY DEF ReservarPerdida
<1>4. /\ SoloMueve(a) /\ mem'[a].pc = "recuperar" /\ mem'[a].guarda = -1
      /\ mem'[a].op = mem[a].op /\ mem'[a].chunk = mem[a].chunk
  BY <1>3, Consta DEF SoloMueve, Memorias
<1>5. ~EnCorrida(mem'[a]) /\ ~EnObra(mem'[a])
  BY <1>4 DEF EnCorrida, EnObra, PasosDeCorrida, AntesDeTomar
<1>6. Prevision(a, mem'[a], grupo')
  BY <1>2, <1>4, <1>5 DEF Prevision, SinGuarda
<1>7. op' = op
  BY <1>1 DEF tablas
<1> QED BY <1>1, <1>4, <1>5, <1>6, <1>7, TablasFirmesIguales, SigueCorrida

\* The guard of a sublote is new: nothing it covers was ever sent
LEMMA GuardaAgregada ==
    ASSUME InductivoLote, NEW k \in Claves, NEW s \in SUBSET Grupos,
           guardas' = Append(guardas, GuardaNueva(k, s)), NEW n, n = Len(guardas) + 1
    PROVE  /\ DOMAIN guardas' = DOMAIN guardas \cup {n} /\ n \notin DOMAIN guardas
           /\ n \in Nat /\ n > 0 /\ n \in DOMAIN guardas'
           /\ \A j \in DOMAIN guardas : guardas'[j] = guardas[j]
           /\ guardas'[n].op = k /\ guardas'[n].grupos = s /\ guardas'[n].fase = "pre_arca"
           /\ guardas'[n].arca = "no_enviada" /\ guardas'[n].aut = {}
           /\ \A g \in s : guardas'[n].intento[g] = "en_proceso"
<1> DEFINE t == [g \in s |-> "en_proceso"]
           x == [op |-> k, grupos |-> s, fase |-> "pre_arca", intento |-> t,
                 arca |-> "no_enviada", aut |-> {}]
<1>1. guardas' = Append(guardas, x) /\ \A g \in s : t[g] = "en_proceso"
  BY DEF GuardaNueva
<1> HIDE DEF t
<1>2. x.op = k /\ x.grupos = s /\ x.fase = "pre_arca" /\ x.intento = t
      /\ x.arca = "no_enviada" /\ x.aut = {}
  OBVIOUS
<1> HIDE DEF x
<1>3. \E T : guardas \in Seq(T)
  BY DEF InductivoLote, FilasEnForma
<1>4. Len(guardas) \in Nat /\ DOMAIN guardas = 1..Len(guardas)
  BY <1>3
<1>5. /\ DOMAIN guardas' = 1..n /\ guardas'[n] = x
      /\ \A j \in DOMAIN guardas : guardas'[j] = guardas[j]
  BY <1>1, <1>3, <1>4
<1>6. DOMAIN guardas' = DOMAIN guardas \cup {n} /\ n \notin DOMAIN guardas /\ n \in Nat /\ n > 0
  BY <1>4, <1>5
<1> QED BY <1>1, <1>2, <1>5, <1>6

\* The reservation adds a guard of groups that no other guard holds
LEMMA OrdenReservar ==
    ASSUME InductivoLote, InductivoLote', InductivoOrden, NEW a \in Actores, Reservar(a)
    PROVE  InductivoOrden'
<1> DEFINE m == mem[a]
           n == mem'[a]
           s == Primeros(m.pend, m.chunk)
           i == Len(guardas) + 1
           q == m.pend \ s
<1>1. m.pc = "reservar" /\ UNCHANGED <<lote, grupo, op>> /\ EnCorrida(m) /\ EnObra(m)
  BY DEF Reservar, En, EnCorrida, EnObra, PasosDeCorrida
<1>2. /\ Prevision(a, m, grupo) /\ CorridaSana(m, lote, grupo, op, guardas)
      /\ m.op \in Claves /\ m \in Memorias /\ mem \in [Actores -> Memorias]
      /\ s # {} /\ s \subseteq m.pend /\ s \in SUBSET Grupos
  BY <1>1, Sabe, Consta, ClaveDeObra, SubloteDeCorrida
<1>3. ASSUME NEW r \in BOOLEAN, SinEnviar(a, s, "nada", r), UNCHANGED guardas
      PROVE  InductivoOrden'
  <2>1. UNCHANGED tablas
    BY <1>1, <1>3 DEF tablas
  <2> QED BY <1>1, <1>3, <2>1, SinEnviarEnCalma
<1>4. CASE /\ guardas' = Append(guardas, GuardaNueva(K(a), s))
           /\ mem' = [mem EXCEPT ![a].pc = "marcar", ![a].sub = s, ![a].pend = @ \ s,
                                 ![a].guarda = Len(guardas) + 1, ![a].iniciada = FALSE]
  <2>1. RestoDe(m) = m.pend /\ EnManoDe(m) = {}
    BY <1>1 DEF RestoDe, PorEnviarDe, EnManoDe
  <2>2. \A j \in DOMAIN guardas : Respetada(m, j, guardas[j], lote, grupo)
    BY <1>2 DEF CorridaSana
  <2>3. LoteDeCorrida(m, lote, grupo, op)
    BY <1>2 DEF CorridaSana
  <2>4. GruposDeCorrida(m, grupo, guardas)
    BY <1>2 DEF CorridaSana
  <2> HIDE DEF s, m, n, q
  <2>5. /\ SoloMueve(a) /\ n.pc = "marcar" /\ n.op = m.op /\ n.sub = s /\ n.pend = q
        /\ n.guarda = i /\ n.mat = m.mat /\ n.vista = m.vista /\ n.chunk = m.chunk
    <3>1. mem' = [mem EXCEPT ![a] = [m EXCEPT !.pc = "marcar", !.sub = s, !.pend = q,
                                              !.guarda = i, !.iniciada = FALSE]]
      BY <1>2, <1>4 DEF m, q
    <3> HIDE DEF i
    <3> QED BY <1>2, <3>1 DEF SoloMueve, Memorias, n
  <2>6. /\ DOMAIN guardas' = DOMAIN guardas \cup {i} /\ i \notin DOMAIN guardas
        /\ i \in Nat /\ i > 0
        /\ \A j \in DOMAIN guardas : guardas'[j] = guardas[j]
        /\ guardas'[i].op = m.op /\ guardas'[i].grupos = s /\ guardas'[i].fase = "pre_arca"
        /\ guardas'[i].arca = "no_enviada" /\ guardas'[i].aut = {}
        /\ \A g \in s : guardas'[i].intento[g] = "en_proceso"
    BY <1>2, <1>4, GuardaAgregada DEF m, K
  <2> HIDE DEF i
  <2>7. RestoDe(n) = m.pend /\ EnManoDe(n) = s /\ PorEnviarDe(n) = q /\ q \cap s = {}
    <3>1. EnManoDe(n) = s /\ PorEnviarDe(n) = q
      BY <2>5 DEF EnManoDe, PorEnviarDe
    <3> QED BY <1>2, <3>1 DEF RestoDe, q
  <2>8. TablasFirmes'
    <3>1. ASSUME NEW j \in DOMAIN guardas'
          PROVE  LoteRetenido(guardas'[j], lote', grupo', op')
      <4>1. CASE j \in DOMAIN guardas
        BY <1>1, <2>6, <4>1 DEF InductivoOrden, TablasFirmes, GuardasFirmes
      <4>2. CASE j = i
        BY <1>1, <2>3, <2>6, <4>2 DEF LoteRetenido, LoteDeCorrida
      <4> QED BY <2>6, <4>1, <4>2
    <3>2. ASSUME NEW j \in DOMAIN guardas', NEW g \in guardas'[j].grupos
          PROVE  IntentoFirme(guardas'[j], g, grupo')
      <4>1. CASE j \in DOMAIN guardas
        BY <1>1, <2>6, <4>1 DEF InductivoOrden, TablasFirmes, GuardasFirmes
      <4>2. CASE j = i
        BY <1>1, <2>6, <4>2 DEF IntentoFirme
      <4> QED BY <2>6, <4>1, <4>2
    <3>3. CrucesDisjuntos'
      <4>1. ~Cruzo(guardas'[i])
        BY <2>6 DEF Cruzo, FasesPrevias
      <4> QED BY <2>6, <4>1 DEF CrucesDisjuntos, InductivoOrden, TablasFirmes
    <3>4. ASSUME NEW g \in Con(grupo, "autorizado")
          PROVE  UnicoCae(g, guardas')
      <4>1. UnicoCae(g, guardas)
        BY DEF InductivoOrden, TablasFirmes, AutorizadosFirmes
      <4>2. PICK j \in DOMAIN guardas :
               /\ g \in guardas[j].grupos /\ guardas[j].intento[g] = "autorizado"
               /\ \A h \in DOMAIN guardas \ {j} :
                     g \in guardas[h].grupos => guardas[h].intento[g] = "fallido_verificado"
        BY <4>1 DEF UnicoCae
      <4>3. g \notin s
        <5>1. SUFFICES ASSUME g \in s PROVE FALSE
          OBVIOUS
        <5>2. j \in GuardasConGrupo(g)
          BY <4>2 DEF GuardasConGrupo
        <5>3. g \in RestoDe(m) /\ g \notin EnManoDe(m)
          BY <1>2, <2>1, <5>1
        <5> QED BY <1>2, <4>2, <5>2, <5>3, NadaAutorizado
      <4> QED BY <2>6, <4>2, <4>3 DEF UnicoCae
    <3>5. AutorizadosFirmes' /\ DuenoConMaterial'
      BY <1>1, <3>4 DEF InductivoOrden, TablasFirmes, AutorizadosFirmes, DuenoConMaterial
    <3> QED BY <3>1, <3>2, <3>3, <3>5 DEF TablasFirmes, GuardasFirmes
  <2>9. Prevision(a, n, grupo')
    BY <1>1, <1>2, <2>5 DEF Prevision, SinGuarda
  <2>10. CorridaSana(n, lote', grupo', op', guardas')
    <3>1. LoteDeCorrida(n, lote', grupo', op')
      BY <1>1, <2>3, <2>5 DEF LoteDeCorrida
    <3>2. GruposDeCorrida(n, grupo', guardas')
      <4>1. Con(grupo', "validado") \subseteq RestoDe(n)
        BY <1>1, <2>1, <2>4, <2>7 DEF GruposDeCorrida
      <4> QED BY <1>2, <2>5, <2>6, <2>7, <4>1 DEF GruposDeCorrida
    <3>3. AplicacionSana(n, guardas')
      BY <2>5 DEF AplicacionSana
    <3>4. ASSUME NEW j \in DOMAIN guardas'
          PROVE  Respetada(n, j, guardas'[j], lote', grupo')
      <4>1. CASE j \in DOMAIN guardas
        BY <1>1, <2>1, <2>2, <2>5, <2>6, <2>7, <4>1 DEF Respetada
      <4>2. CASE j = i
        BY <1>1, <2>5, <2>6, <2>7, <4>2 DEF Respetada
      <4> QED BY <2>6, <4>1, <4>2
    <3> QED BY <3>1, <3>2, <3>3, <3>4 DEF CorridaSana
  <2>11. ValidadosBajan
    BY <1>1 DEF ValidadosBajan
  <2> QED BY <1>1, <2>5, <2>8, <2>9, <2>10, <2>11, SigueCorrida DEF m, n
<1> QED BY <1>3, <1>4 DEF Reservar

----------------------------------------------------------------------------
(* The crossing to ARCA.                                                    *)

\* A step that changes only guard i of the run: the rest of it does not notice
LEMMA CorridaConGuarda ==
    ASSUME InductivoOrden, NEW m, CorridaSana(m, lote, grupo, op, guardas),
           m.pc \in {"marcar", "solicitar", "esperar"}, m.guarda \in DOMAIN guardas,
           UnaCambia(m.guarda), UNCHANGED <<lote, grupo, op>>,
           guardas'[m.guarda].op = guardas[m.guarda].op,
           guardas'[m.guarda].intento = guardas[m.guarda].intento
    PROVE  CorridaSana(m, lote', grupo', op', guardas')
<1> DEFINE i == m.guarda
<1>1. LoteDeCorrida(m, lote', grupo', op') /\ AplicacionSana(m, guardas')
  BY DEF CorridaSana, AplicacionSana
<1>2. guardas[i].grupos = m.sub /\ guardas[i].op = m.op /\ EnManoDe(m) = m.sub
  BY DEF CorridaSana, GruposDeCorrida, EnManoDe
<1>3. GruposDeCorrida(m, grupo', guardas')
  BY <1>2 DEF CorridaSana, GruposDeCorrida, UnaCambia
<1>4. ASSUME NEW j \in DOMAIN guardas'
      PROVE  Respetada(m, j, guardas'[j], lote', grupo')
  <2>1. j \in DOMAIN guardas /\ Respetada(m, j, guardas[j], lote, grupo)
    BY DEF UnaCambia, CorridaSana
  <2>2. CASE j # i
    BY <2>1, <2>2 DEF UnaCambia
  <2>3. CASE j = i
    BY <1>2, <2>1, <2>3 DEF UnaCambia, Respetada
  <2> QED BY <2>2, <2>3
<1> QED BY <1>1, <1>3, <1>4 DEF CorridaSana

\* The guard of the run, and what it covers
LEMMA PropiaEnMano ==
    ASSUME InductivoLote, InductivoOrden, NEW a \in Actores,
           mem[a].pc \in {"marcar", "solicitar", "esperar"}
    PROVE  /\ EnCorrida(mem[a]) /\ EnObra(mem[a]) /\ mem[a].guarda \in DOMAIN guardas
           /\ mem[a].guarda > 0 /\ Prevision(a, mem[a], grupo)
           /\ CorridaSana(mem[a], lote, grupo, op, guardas)
           /\ guardas[mem[a].guarda].grupos = mem[a].sub
           /\ guardas[mem[a].guarda].op = mem[a].op
           /\ mem[a].op \in Claves /\ mem[a].sub # {}
           /\ EnManoDe(mem[a]) = mem[a].sub /\ PorEnviarDe(mem[a]) = mem[a].pend
           /\ RestoDe(mem[a]) = mem[a].pend \cup mem[a].sub
           /\ mem[a].pend \cap mem[a].sub = {}
<1>1. EnCorrida(mem[a]) /\ EnObra(mem[a])
  BY DEF EnCorrida, EnObra, PasosDeCorrida
<1>2. Prevision(a, mem[a], grupo) /\ CorridaSana(mem[a], lote, grupo, op, guardas)
  BY <1>1, Sabe
<1>3. mem[a].guarda \in DOMAIN guardas /\ mem[a].guarda > 0 /\ mem[a].op \in Claves
  BY <1>1, PropiaExiste, ClaveDeObra DEF PorEnviar
<1>4. EnManoDe(mem[a]) = mem[a].sub /\ PorEnviarDe(mem[a]) = mem[a].pend
  BY DEF EnManoDe, PorEnviarDe
<1>5. RestoDe(mem[a]) = mem[a].pend \cup mem[a].sub
  BY <1>4 DEF RestoDe
<1>6. /\ guardas[mem[a].guarda].grupos = mem[a].sub
      /\ guardas[mem[a].guarda].op = mem[a].op /\ mem[a].sub # {}
      /\ mem[a].pend \cap mem[a].sub = {}
  BY <1>2, <1>4 DEF CorridaSana, GruposDeCorrida
<1> QED BY <1>1, <1>2, <1>3, <1>4, <1>5, <1>6

\* The same guards but i, whose intentos do not change
LEMMA AutorizadosSiguen ==
    ASSUME InductivoOrden, NEW i \in DOMAIN guardas, UnaCambia(i), UNCHANGED <<lote, grupo>>,
           guardas'[i].intento = guardas[i].intento
    PROVE  AutorizadosFirmes' /\ DuenoConMaterial'
<1>1. \A g \in Con(grupo, "autorizado") : UnicoCae(g, guardas')
  BY UnicoSigue DEF InductivoOrden, TablasFirmes, AutorizadosFirmes
<1> QED BY <1>1 DEF InductivoOrden, TablasFirmes, AutorizadosFirmes, DuenoConMaterial

\* The guard of the run crosses: nothing it covers crossed before
LEMMA Cruce ==
    ASSUME InductivoLote, InductivoOrden, NEW a \in Actores, mem[a].pc = "marcar",
           Marcable(a), NEW i, i = mem[a].guarda,
           guardas' = [guardas EXCEPT ![i].fase = "arca_iniciada"],
           UNCHANGED <<lote, grupo, op>>
    PROVE  /\ TablasFirmes' /\ ValidadosBajan
           /\ CorridaSana(mem[a], lote', grupo', op', guardas')
           /\ mem[a].sub \cap Con(grupo, "fallido") = {}
<1> DEFINE m == mem[a]
<1>1. /\ i \in DOMAIN guardas /\ guardas[i].grupos = m.sub /\ guardas[i].op = m.op
      /\ CorridaSana(m, lote, grupo, op, guardas) /\ RestoDe(m) = m.pend \cup m.sub
      /\ guardas \in Seq(FilasGuarda) /\ guardas[i] \in FilasGuarda
      /\ grupo \in [Grupos -> EstadosGrupo]
  BY PropiaEnMano, GuardaEnForma, Consta
<1>2. /\ \A g \in m.sub : guardas[i].intento[g] = "en_proceso"
      /\ m.sub \subseteq Con(grupo, "validado")
  BY DEF Marcable
<1>3. m.sub \cap Con(grupo, "fallido") = {}
  BY <1>2 DEF Con
<1> HIDE DEF m
<1>4. /\ UnaCambia(i) /\ guardas'[i].fase = "arca_iniciada" /\ guardas'[i].op = guardas[i].op
      /\ guardas'[i].intento = guardas[i].intento /\ guardas'[i].arca = guardas[i].arca
      /\ guardas'[i].aut = guardas[i].aut
  BY <1>1 DEF UnaCambia, FilasGuarda
<1>5. LoteDeCorrida(m, lote, grupo, op)
  BY <1>1 DEF CorridaSana
<1>6. \A j \in DOMAIN guardas : LoteRetenido(guardas[j], lote', grupo', op')
  BY DEF InductivoOrden, TablasFirmes, GuardasFirmes
<1>7. LoteRetenido(guardas'[i], lote', grupo', op')
  BY <1>1, <1>4, <1>5 DEF LoteRetenido, LoteDeCorrida
<1>8. \A g \in guardas[i].grupos : IntentoFirme(guardas'[i], g, grupo')
  BY <1>1, <1>2, <1>4 DEF IntentoFirme, Con
<1>9. ASSUME NEW j \in DOMAIN guardas, j # i, Cruzo(guardas[j])
      PROVE  guardas[i].grupos \cap guardas[j].grupos = {}
  <2>1. Respetada(m, j, guardas[j], lote, grupo)
    BY <1>1 DEF CorridaSana
  <2> QED BY <1>1, <1>9, <2>1 DEF Respetada, Cruzo, FasesPrevias, m
<1>10. ValidadosBajan /\ Con(grupo', "fallido") \ Con(grupo, "fallido") = {}
  BY DEF ValidadosBajan
<1>11. GuardasFirmes' /\ CrucesDisjuntos'
  <2>1. \A g \in Con(grupo', "fallido") \ Con(grupo, "fallido") : \A j \in DOMAIN guardas :
              j # i /\ g \in guardas[j].grupos =>
                 g \notin guardas[j].aut /\ guardas[j].arca # "en_vuelo"
    BY <1>10
  <2>2. grupo' \in [Grupos -> EstadosGrupo]
    BY <1>1
  <2> QED BY <1>1, <1>4, <1>6, <1>7, <1>8, <1>9, <1>10, <2>1, <2>2, UnaGuardaFirme
<1>12. AutorizadosFirmes' /\ DuenoConMaterial'
  BY <1>1, <1>4, AutorizadosSiguen
<1>13. CorridaSana(m, lote', grupo', op', guardas')
  BY <1>1, <1>4, CorridaConGuarda DEF m
<1> QED BY <1>3, <1>10, <1>11, <1>12, <1>13 DEF TablasFirmes, m

\* The mark commits and the run does not learn it
LEMMA OrdenMarcarAmbigua ==
    ASSUME InductivoLote, InductivoLote', InductivoOrden, NEW a \in Actores, MarcarAmbigua(a)
    PROVE  InductivoOrden'
<1>1. /\ mem[a].pc = "marcar" /\ Marcable(a) /\ UNCHANGED <<lote, grupo, op>>
      /\ guardas' = [guardas EXCEPT ![mem[a].guarda].fase = "arca_iniciada"]
      /\ Ir(a, "recuperar")
  BY DEF MarcarAmbigua, En
<1>2. /\ TablasFirmes' /\ ValidadosBajan
      /\ CorridaSana(mem[a], lote', grupo', op', guardas')
  BY <1>1, Cruce
<1>3. EnCorrida(mem[a]) /\ EnObra(mem[a]) /\ Prevision(a, mem[a], grupo)
  BY <1>1, PropiaEnMano
<1>4. /\ SoloMueve(a) /\ mem'[a].pc = "recuperar" /\ mem'[a].op = mem[a].op
      /\ mem'[a].guarda = mem[a].guarda /\ mem'[a].mat = mem[a].mat
      /\ mem'[a].vista = mem[a].vista /\ mem'[a].chunk = mem[a].chunk
  BY <1>1, IrForma
<1>5. CorridaSana(mem'[a], lote', grupo', op', guardas')
  BY <1>1, <1>2, <1>4, RecuperaSana
<1>6. Prevision(a, mem'[a], grupo')
  BY <1>3, <1>4 DEF Prevision, SinGuarda
<1> QED BY <1>1, <1>2, <1>3, <1>4, <1>5, <1>6, SigueCorrida

\* The mark takes the guard to ARCA, closes it, or is not known
LEMMA OrdenMarcar ==
    ASSUME InductivoLote, InductivoLote', InductivoOrden, NEW a \in Actores, Marcar(a)
    PROVE  InductivoOrden'
<1> DEFINE m == mem[a]
           n == mem'[a]
           i == m.guarda
           s == m.sub
<1>1. m.pc = "marcar" /\ UNCHANGED <<lote, grupo, op>>
  BY DEF Marcar, En
<1>2. /\ EnCorrida(m) /\ EnObra(m) /\ i \in DOMAIN guardas /\ i > 0 /\ Prevision(a, m, grupo)
      /\ guardas[i].grupos = s /\ s # {} /\ RestoDe(m) = m.pend \cup s /\ m.pend \cap s = {}
  BY <1>1, PropiaEnMano
<1>3. CASE /\ Marcable(a) /\ guardas' = [guardas EXCEPT ![i].fase = "arca_iniciada"]
           /\ mem' = [mem EXCEPT ![a].pc = "solicitar", ![a].iniciada = TRUE]
  <2>1. /\ TablasFirmes' /\ ValidadosBajan /\ CorridaSana(m, lote', grupo', op', guardas')
        /\ s \cap Con(grupo, "fallido") = {}
    BY <1>1, <1>3, Cruce
  <2>2. /\ SoloMueve(a) /\ n.pc = "solicitar" /\ n.op = m.op /\ n.sub = s /\ n.pend = m.pend
        /\ n.guarda = i /\ n.mat = m.mat /\ n.vista = m.vista /\ n.chunk = m.chunk
    BY <1>3, Consta DEF SoloMueve, Memorias
  <2> HIDE DEF n, m, i, s
  <2>3. RestoDe(n) = RestoDe(m) /\ EnManoDe(n) = EnManoDe(m) /\ PorEnviarDe(n) = PorEnviarDe(m)
    BY <1>1, <2>2 DEF RestoDe, EnManoDe, PorEnviarDe, s
  <2>4. Prevision(a, n, grupo')
    BY <1>2, <2>2 DEF Prevision, SinGuarda
  <2>5. LoteDeCorrida(n, lote', grupo', op')
    BY <1>1, <2>1, <2>2 DEF CorridaSana, LoteDeCorrida
  <2>6. GruposDeCorrida(n, grupo', guardas') /\ AplicacionSana(n, guardas')
    BY <1>1, <2>1, <2>2, <2>3 DEF CorridaSana, GruposDeCorrida, AplicacionSana, s, i
  <2>7. \A j \in DOMAIN guardas' : Respetada(n, j, guardas'[j], lote', grupo')
    BY <1>1, <2>1, <2>2, <2>3 DEF CorridaSana, Respetada, i
  <2>8. CorridaSana(n, lote', grupo', op', guardas')
    BY <2>5, <2>6, <2>7 DEF CorridaSana
  <2> QED BY <1>1, <1>2, <2>1, <2>2, <2>4, <2>8, SigueCorrida DEF n, m
<1>4. \A j \in DOMAIN guardas :
              /\ \A g \in guardas[j].grupos \cap RestoDe(m) :
                    /\ guardas[j].fase = "cerrada_pre_arca" \/ (j = i /\ g \in s)
                    /\ guardas[j].intento[g] # "requiere_reconciliacion"
                    /\ guardas[j].arca = "no_enviada"
              /\ Pendiente(guardas[j], grupo) /\ lote.estado = "procesando" =>
                    guardas[j].op = m.op
  BY <1>1, RestoSinEnviar
<1>5. s \cup (m.pend \ s) = RestoDe(m)
  BY <1>2
<1>6. CASE \E r \in BOOLEAN : /\ SinEnviar(a, s, "cerrada_pre_arca", r) /\ UNCHANGED guardas
  <2>1. PICK r \in BOOLEAN : SinEnviar(a, s, "cerrada_pre_arca", r)
    BY <1>6
  <2>2. UNCHANGED tablas
    BY <1>1, <1>6 DEF tablas
  <2>3. TablasFirmes'
    BY <2>2, TablasFirmesIguales
  <2>4. guardas' = guardas
    BY <1>6
  <2>5. NadaEnviado(a, s)
    BY <1>4, <2>4 DEF NadaEnviado
  <2>6. /\ mem[a].pc \in {"verificar", "reservar", "marcar"} /\ s # {}
        /\ s \cup (mem[a].pend \ s) = RestoDe(mem[a])
        /\ SinEnviar(a, s, "cerrada_pre_arca", r)
    BY <1>1, <1>2, <1>5, <2>1
  <2>7. guardas'[mem[a].guarda].grupos = s
    BY <1>2, <2>4
  <2>8. UNCHANGED <<lote, grupo, op>> /\ "cerrada_pre_arca" \in {"nada", "cerrada_pre_arca"}
    BY <1>1
  <2> HIDE DEF s, m, n, i
  <2> DEFINE c == "cerrada_pre_arca"
  <2>9. /\ SinEnviar(a, s, c, r) /\ c \in {"nada", "cerrada_pre_arca"}
        /\ c # "nada" => guardas'[mem[a].guarda].grupos = s
    BY <2>6, <2>7
  <2> HIDE DEF c
  <2> QED BY <2>3, <2>5, <2>6, <2>8, <2>9, SinEnviarOrden
<1>7. CASE /\ guardas' = GuardaCerrada(i, "cerrada_pre_arca", {})
           /\ \E r \in BOOLEAN : SinEnviar(a, s, "nada", r)
  <2>1. PICK r \in BOOLEAN : SinEnviar(a, s, "nada", r)
    BY <1>7
  <2>2. guardas[i].arca = "no_enviada"
    BY <1>1, Consta DEF MemoriaDe, PorEnviar
  <2>3. guardas[i].aut = {} /\ grupo \in [Grupos -> EstadosGrupo] /\ guardas[i] \in FilasGuarda
    BY <1>2, <2>2, GuardaEnForma, Consta DEF GuardaSana
  <2> HIDE DEF s, i, m
  <2>4. /\ UnaCambia(i) /\ guardas'[i].fase = "cerrada_pre_arca"
        /\ guardas'[i].op = guardas[i].op /\ guardas'[i].arca = guardas[i].arca
        /\ guardas'[i].aut = guardas[i].aut
        /\ \A g \in guardas[i].grupos : guardas'[i].intento[g] = "fallido_verificado"
    BY <1>2, <1>7, CerradaCampos
  <2>5. TablasFirmes'
    <3>1. \A j \in DOMAIN guardas : LoteRetenido(guardas[j], lote', grupo', op')
      BY <1>1 DEF InductivoOrden, TablasFirmes, GuardasFirmes
    <3>2. LoteRetenido(guardas'[i], lote', grupo', op')
      BY <2>4 DEF LoteRetenido, Pendiente, FasesActivas
    <3>3. \A g \in guardas[i].grupos : IntentoFirme(guardas'[i], g, grupo')
      BY <2>2, <2>3, <2>4 DEF IntentoFirme
    <3>4. \A g \in Con(grupo', "fallido") \ Con(grupo, "fallido") : \A j \in DOMAIN guardas :
              j # i /\ g \in guardas[j].grupos =>
                 g \notin guardas[j].aut /\ guardas[j].arca # "en_vuelo"
      BY <1>1
    <3>5. ~Cruzo(guardas'[i]) /\ ValidadosBajan /\ grupo' \in [Grupos -> EstadosGrupo]
      BY <1>1, <2>3, <2>4 DEF Cruzo, FasesPrevias, ValidadosBajan
    <3>6. GuardasFirmes' /\ CrucesDisjuntos'
      BY <1>2, <2>4, <3>1, <3>2, <3>3, <3>4, <3>5, UnaGuardaFirme
    <3>7. ASSUME NEW g \in Con(grupo, "autorizado")
          PROVE  UnicoCae(g, guardas')
      <4>1. PICK j \in DOMAIN guardas :
               /\ g \in guardas[j].grupos /\ guardas[j].intento[g] = "autorizado"
               /\ \A h \in DOMAIN guardas \ {j} :
                     g \in guardas[h].grupos => guardas[h].intento[g] = "fallido_verificado"
        BY DEF InductivoOrden, TablasFirmes, AutorizadosFirmes, UnicoCae
      <4>2. j # i
        BY <2>3, <4>1 DEF InductivoOrden, TablasFirmes, GuardasFirmes, IntentoFirme
      <4> QED BY <2>4, <4>1, <4>2 DEF UnicoCae, UnaCambia
    <3>8. AutorizadosFirmes' /\ DuenoConMaterial'
      BY <1>1, <3>7 DEF InductivoOrden, TablasFirmes, AutorizadosFirmes, DuenoConMaterial
    <3> QED BY <3>6, <3>8 DEF TablasFirmes
  <2>6. \A j \in DOMAIN guardas' :
              /\ \A g \in guardas'[j].grupos \cap RestoDe(m) :
                    /\ guardas'[j].fase = "cerrada_pre_arca" \/ (j = i /\ g \in s)
                    /\ guardas'[j].intento[g] # "requiere_reconciliacion"
                    /\ guardas'[j].arca = "no_enviada"
              /\ Pendiente(guardas'[j], grupo) /\ lote.estado = "procesando" =>
                    guardas'[j].op = m.op
    <3> SUFFICES ASSUME NEW j \in DOMAIN guardas
                 PROVE  /\ \A g \in guardas'[j].grupos \cap RestoDe(m) :
                            /\ guardas'[j].fase = "cerrada_pre_arca" \/ (j = i /\ g \in s)
                            /\ guardas'[j].intento[g] # "requiere_reconciliacion"
                            /\ guardas'[j].arca = "no_enviada"
                        /\ Pendiente(guardas'[j], grupo) /\ lote.estado = "procesando" =>
                            guardas'[j].op = m.op
      BY <2>4 DEF UnaCambia
    <3>1. CASE j # i
      BY <1>4, <2>4, <3>1 DEF UnaCambia
    <3>2. CASE j = i
      <4>1. ~Pendiente(guardas'[i], grupo)
        BY <2>4 DEF Pendiente, FasesActivas
      <4> QED BY <2>2, <2>4, <3>2, <4>1 DEF UnaCambia
    <3> QED BY <3>1, <3>2
  <2>7. NadaEnviado(a, s)
    BY <2>6 DEF NadaEnviado, m, i
  <2>8. /\ mem[a].pc \in {"verificar", "reservar", "marcar"} /\ s # {}
        /\ s \cup (mem[a].pend \ s) = RestoDe(mem[a])
        /\ SinEnviar(a, s, "nada", r)
    BY <1>1, <1>2, <1>5, <2>1 DEF m
  <2>9. UNCHANGED <<lote, grupo, op>> /\ TablasFirmes' /\ r \in BOOLEAN
    BY <1>1, <2>1, <2>5
  <2> HIDE DEF m, i, s
  <2> QED BY <2>7, <2>8, <2>9, SinEnviarOrden
<1> QED BY <1>3, <1>6, <1>7 DEF Marcar

\* The request goes to ARCA: no other guard of its groups was sent
LEMMA OrdenSolicitar ==
    ASSUME InductivoLote, InductivoLote', InductivoOrden, NEW a \in Actores, Solicitar(a)
    PROVE  InductivoOrden'
<1> DEFINE m == mem[a]
           n == mem'[a]
           i == m.guarda
<1>1. /\ m.pc = "solicitar" /\ UNCHANGED <<lote, grupo, op>> /\ Ir(a, "esperar")
      /\ guardas' = [guardas EXCEPT ![i].arca = "en_vuelo"]
  BY DEF Solicitar, En
<1>2. /\ EnCorrida(m) /\ EnObra(m) /\ i \in DOMAIN guardas /\ Prevision(a, m, grupo)
      /\ CorridaSana(m, lote, grupo, op, guardas) /\ guardas[i].grupos = m.sub
      /\ guardas \in Seq(FilasGuarda) /\ guardas[i] \in FilasGuarda
      /\ grupo \in [Grupos -> EstadosGrupo] /\ m.sub \subseteq Grupos
      /\ guardas[i].fase \in FasesCruzadas
  BY <1>1, PropiaEnMano, GuardaEnForma, Consta DEF MemoriaDe, PorEnviar, Memorias
<1>3. m.sub \cap Con(grupo, "fallido") = {}
  BY <1>1, <1>2 DEF CorridaSana, GruposDeCorrida
<1>4. /\ SoloMueve(a) /\ n.pc = "esperar" /\ n.op = m.op /\ n.sub = m.sub /\ n.pend = m.pend
      /\ n.guarda = i /\ n.mat = m.mat /\ n.vista = m.vista /\ n.chunk = m.chunk
  BY <1>1, IrForma
<1> HIDE DEF m, n, i
<1>5. /\ UnaCambia(i) /\ guardas'[i].fase = guardas[i].fase /\ guardas'[i].op = guardas[i].op
      /\ guardas'[i].intento = guardas[i].intento /\ guardas'[i].arca = "en_vuelo"
      /\ guardas'[i].aut = guardas[i].aut
  BY <1>1, <1>2 DEF UnaCambia, FilasGuarda
<1>6. TablasFirmes'
  <2>1. \A j \in DOMAIN guardas : LoteRetenido(guardas[j], lote', grupo', op')
    BY <1>1 DEF InductivoOrden, TablasFirmes, GuardasFirmes
  <2>2. LoteRetenido(guardas'[i], lote', grupo', op')
    BY <1>2, <1>5, <2>1 DEF LoteRetenido, Pendiente, UnaCambia
  <2>3. \A g \in guardas[i].grupos : IntentoFirme(guardas'[i], g, grupo')
    <3>1. \A g \in guardas[i].grupos : IntentoFirme(guardas[i], g, grupo)
      BY <1>2 DEF InductivoOrden, TablasFirmes, GuardasFirmes
    <3> QED BY <1>1, <1>2, <1>3, <1>5, <3>1 DEF IntentoFirme, Con
  <2>4. \A g \in Con(grupo', "fallido") \ Con(grupo, "fallido") : \A j \in DOMAIN guardas :
              j # i /\ g \in guardas[j].grupos =>
                 g \notin guardas[j].aut /\ guardas[j].arca # "en_vuelo"
    BY <1>1
  <2>5. Cruzo(guardas[i]) /\ ValidadosBajan /\ grupo' \in [Grupos -> EstadosGrupo]
    BY <1>1, <1>2 DEF Cruzo, FasesPrevias, FasesCruzadas, ValidadosBajan
  <2>6. GuardasFirmes' /\ CrucesDisjuntos'
    BY <1>2, <1>5, <2>1, <2>2, <2>3, <2>4, <2>5, UnaGuardaFirme
  <2>7. AutorizadosFirmes' /\ DuenoConMaterial'
    BY <1>1, <1>2, <1>5, AutorizadosSiguen
  <2> QED BY <2>6, <2>7 DEF TablasFirmes
<1>7. CorridaSana(m, lote', grupo', op', guardas')
  BY <1>1, <1>2, <1>5, CorridaConGuarda DEF i
<1>8. RestoDe(n) = RestoDe(m) /\ EnManoDe(n) = EnManoDe(m) /\ PorEnviarDe(n) = PorEnviarDe(m)
  BY <1>1, <1>4 DEF RestoDe, EnManoDe, PorEnviarDe
<1>9. CorridaSana(n, lote', grupo', op', guardas')
  <2>1. LoteDeCorrida(n, lote', grupo', op')
    BY <1>1, <1>4, <1>7 DEF CorridaSana, LoteDeCorrida
  <2>2. GruposDeCorrida(n, grupo', guardas') /\ AplicacionSana(n, guardas')
    BY <1>1, <1>4, <1>7, <1>8 DEF CorridaSana, GruposDeCorrida, AplicacionSana, i
  <2>3. \A j \in DOMAIN guardas' : Respetada(n, j, guardas'[j], lote', grupo')
    BY <1>1, <1>4, <1>7, <1>8 DEF CorridaSana, Respetada, i
  <2> QED BY <2>1, <2>2, <2>3 DEF CorridaSana
<1>10. Prevision(a, n, grupo') /\ ValidadosBajan
  BY <1>1, <1>2, <1>4 DEF Prevision, SinGuarda, ValidadosBajan
<1> QED BY <1>1, <1>2, <1>4, <1>6, <1>9, <1>10, SigueCorrida DEF n, m

----------------------------------------------------------------------------
(* Answers of ARCA.                                                         *)

\* Another guard over what the run holds was never sent
LEMMA AjenaSinCae ==
    ASSUME InductivoLote, NEW m, CorridaSana(m, lote, grupo, op, guardas),
           NEW j \in DOMAIN guardas, j # m.guarda, NEW g \in RestoDe(m), g \in guardas[j].grupos
    PROVE  /\ guardas[j].arca = "no_enviada" /\ guardas[j].aut = {}
           /\ guardas[j].fase = "cerrada_pre_arca"
<1>1. guardas[j].fase = "cerrada_pre_arca"
  BY DEF CorridaSana, Respetada
<1> QED BY <1>1 DEF InductivoLote, GuardasSanas, GuardaSana, FasesPrevias

\* ARCA's answer reaches the run
LEMMA OrdenRecibir ==
    ASSUME InductivoLote, InductivoLote', InductivoOrden, NEW a \in Actores,
           RecibirResultado(a)
    PROVE  InductivoOrden'
<1> DEFINE m == mem[a]
           n == mem'[a]
           i == m.guarda
           u == guardas[i].aut
<1>1. /\ m.pc = "esperar" /\ UNCHANGED tablas /\ guardas[i].arca = "procesada"
      /\ mem' = [mem EXCEPT ![a].pc = "aplicar", ![a].aut = guardas[i].aut,
                            ![a].cierre = "cerrada_terminal"]
  BY DEF RecibirResultado, En
<1>2. /\ EnCorrida(m) /\ EnObra(m) /\ i \in DOMAIN guardas /\ Prevision(a, m, grupo)
      /\ CorridaSana(m, lote, grupo, op, guardas) /\ guardas[i].grupos = m.sub
      /\ EnManoDe(m) = m.sub /\ PorEnviarDe(m) = m.pend /\ m \in Memorias
      /\ mem \in [Actores -> Memorias]
  BY <1>1, PropiaEnMano, Consta
<1>3. /\ lote' = lote /\ grupo' = grupo /\ op' = op /\ guardas' = guardas
      /\ TablasFirmes' /\ ValidadosBajan
  BY <1>1, TablasFirmesIguales DEF tablas
<1>4. /\ SoloMueve(a) /\ n.pc = "aplicar" /\ n.op = m.op /\ n.sub = m.sub /\ n.pend = m.pend
      /\ n.guarda = i /\ n.mat = m.mat /\ n.vista = m.vista /\ n.chunk = m.chunk
      /\ n.aut = u /\ n.cierre = "cerrada_terminal"
  BY <1>1, <1>2 DEF SoloMueve, Memorias
<1> HIDE DEF m, n, i
<1>5. EnManoDe(n) = EnManoDe(m) /\ PorEnviarDe(n) = PorEnviarDe(m) /\ RestoDe(n) = RestoDe(m)
  BY <1>1, <1>4 DEF RestoDe, EnManoDe, PorEnviarDe
<1>6. CorridaSana(n, lote', grupo', op', guardas')
  <2>1. LoteDeCorrida(n, lote', grupo', op')
    BY <1>1, <1>2, <1>3, <1>4 DEF CorridaSana, LoteDeCorrida
  <2>2. GruposDeCorrida(n, grupo', guardas')
    BY <1>1, <1>2, <1>3, <1>4, <1>5 DEF CorridaSana, GruposDeCorrida
  <2>3. AplicacionSana(n, guardas')
    BY <1>2, <1>3, <1>4 DEF AplicacionSana
  <2>4. ASSUME NEW j \in DOMAIN guardas'
        PROVE  Respetada(n, j, guardas'[j], lote', grupo')
    <3>1. j \in DOMAIN guardas /\ Respetada(m, j, guardas[j], lote, grupo)
      BY <1>2, <1>3 DEF CorridaSana
    <3>2. \A g \in guardas[j].grupos \cap m.sub :
             guardas[j].arca # "en_vuelo" /\ (g \in guardas[j].aut => g \in u)
      <4>1. CASE j = i
        BY <1>1, <4>1
      <4>2. CASE j # i
        <5>1. \A g \in m.sub : g \in RestoDe(m)
          BY <1>2 DEF RestoDe
        <5> QED BY <1>2, <3>1, <4>2, <5>1, AjenaSinCae DEF i
      <4> QED BY <4>1, <4>2
    <3> HIDE DEF u
    <3> QED BY <1>2, <1>3, <1>4, <1>5, <3>1, <3>2 DEF Respetada, i
  <2> QED BY <2>1, <2>2, <2>3, <2>4 DEF CorridaSana
<1>7. Prevision(a, n, grupo')
  BY <1>2, <1>3, <1>4 DEF Prevision, SinGuarda
<1> QED BY <1>2, <1>3, <1>4, <1>6, <1>7, SigueCorrida DEF n, m

\* ARCA rejects the whole request
LEMMA OrdenRechazo ==
    ASSUME InductivoLote, InductivoLote', InductivoOrden, NEW a \in Actores,
           CerrarRechazoGlobal(a)
    PROVE  InductivoOrden'
<1> DEFINE m == mem[a]
           i == m.guarda
           T == m.sub \cup m.pend
           gr == [g \in Grupos |-> IF g \in T THEN "fallido" ELSE grupo[g]]
<1>1. m.pc = "esperar" /\ guardas[i].arca = "rechazo_global"
  BY DEF CerrarRechazoGlobal, En
<1>2. /\ EnCorrida(m) /\ EnObra(m) /\ i \in DOMAIN guardas
      /\ CorridaSana(m, lote, grupo, op, guardas) /\ guardas[i].grupos = m.sub
      /\ RestoDe(m) = m.pend \cup m.sub /\ m.op \in Claves
  BY <1>1, PropiaEnMano
<1>3. CASE AnteCorte(a) /\ UNCHANGED tablas
  BY <1>1, <1>3, TablasIguales, CorteEnCalma
<1>4. CASE /\ grupo' = gr /\ guardas' = GuardaCerrada(i, "cerrada_terminal", {})
           /\ lote' = [lote EXCEPT !.estado = EstadoLote(gr), !.vieja = FALSE]
           /\ ResponderOperacion(K(a), "rechazado_arca", "final") /\ Fin(a, "final")
  <2> DEFINE e == EstadoLote(gr)
             k == K(a)
  <2>1. /\ guardas[i].aut = {} /\ Cruzo(guardas[i]) /\ lote \in FilasLote
        /\ grupo \in [Grupos -> EstadosGrupo]
    BY <1>1, <1>2, GuardaEnForma, Consta DEF GuardaSana, Cruzo
  <2>2. e \in EstadosLote \ Activos /\ k \in Claves
    BY <1>2, EstadoLoteForma DEF K
  <2>3. e = "completado" => Con(gr, "autorizado") = Grupos
    BY CompletadoPorGrupos
  <2>4. CierresFirmes /\ ClavesSalvo(a)
    <3> HIDE DEF k
    <3> QED BY <1>4, <2>2, OperacionCierra DEF EstadosCerrados, k
  <2>5. /\ grupo' = gr /\ \A g \in Grupos : gr[g] = IF g \in T THEN "fallido" ELSE grupo[g]
    BY <1>4
  <2>6. lote'.estado = e /\ lote'.dueno = lote.dueno /\ lote'.material = lote.material
    <3> HIDE DEF e
    <3> QED BY <1>4, <2>1, <2>2 DEF FilasLote, e
  <2>7. /\ UnaCambia(i) /\ guardas'[i].fase = "cerrada_terminal"
        /\ guardas'[i].arca = guardas[i].arca /\ guardas'[i].aut = guardas[i].aut
        /\ \A g \in guardas[i].grupos : guardas'[i].intento[g] = "rechazado_arca"
    BY <1>2, <1>4, CerradaCampos
  <2>8. grupo' \in [Grupos -> EstadosGrupo]
    BY DEF InductivoLote, FilasEnForma
  <2> HIDE DEF e, gr, T, m, i
  <2>9. Con(grupo', "validado") = {} /\ ValidadosBajan
    <3>1. Con(grupo, "validado") \subseteq T
      BY <1>1, <1>2 DEF CorridaSana, GruposDeCorrida, T
    <3> QED BY <2>5, <3>1 DEF Con, ValidadosBajan
  <2>10. \A x : LoteRetenido(x, lote', grupo', op')
    BY <2>2, <2>6, <2>9, RetenidoFacil DEF Activos
  <2>11. \A g \in guardas[i].grupos : IntentoFirme(guardas'[i], g, grupo')
    BY <1>1, <2>1, <2>7 DEF IntentoFirme
  <2>12. \A g \in Con(grupo', "fallido") \ Con(grupo, "fallido") : \A j \in DOMAIN guardas :
              j # i /\ g \in guardas[j].grupos =>
                 g \notin guardas[j].aut /\ guardas[j].arca # "en_vuelo"
    <3>1. \A g \in Con(grupo', "fallido") \ Con(grupo, "fallido") : g \in RestoDe(m)
      BY <1>2, <2>5 DEF Con, T
    <3> QED BY <1>2, <3>1, AjenaSinCae DEF i
  <2>13. GuardasFirmes' /\ CrucesDisjuntos'
    BY <1>2, <2>1, <2>7, <2>8, <2>9, <2>10, <2>11, <2>12, UnaGuardaFirme
  <2>14. ASSUME NEW g \in Con(grupo', "autorizado")
         PROVE  UnicoCae(g, guardas')
    <3>1. g \in Con(grupo, "autorizado") /\ g \notin T
      BY <2>5 DEF Con
    <3>2. g \notin guardas[i].grupos
      BY <1>2, <3>1 DEF T
    <3>3. UnicoCae(g, guardas)
      BY <3>1 DEF InductivoOrden, TablasFirmes, AutorizadosFirmes
    <3> QED BY <1>2, <2>7, <3>2, <3>3, UnicoSigue
  <2>15. AutorizadosFirmes' /\ DuenoConMaterial'
    BY <2>3, <2>5, <2>6, <2>14 DEF AutorizadosFirmes, DuenoConMaterial, InductivoOrden, TablasFirmes
  <2> QED BY <1>2, <1>4, <2>4, <2>9, <2>13, <2>15, FinDeCorrida DEF TablasFirmes, m
<1> QED BY <1>3, <1>4 DEF CerrarRechazoGlobal

\* The fields of a guard whose intentos become uncertain
LEMMA InciertaCampos ==
    ASSUME InductivoLote, NEW k, NEW S, guardas' = GuardasInciertas(k, S), NEW j \in DOMAIN guardas
    PROVE  /\ DOMAIN guardas' = DOMAIN guardas
           /\ guardas'[j].grupos = guardas[j].grupos /\ guardas'[j].arca = guardas[j].arca
           /\ guardas'[j].aut = guardas[j].aut
           /\ \/ guardas'[j].fase = guardas[j].fase
              \/ /\ guardas[j].fase = "arca_iniciada"
                 /\ guardas'[j].fase = "requiere_reconciliacion"
           /\ \A g \in guardas[j].grupos :
                 guardas'[j].intento[g] \in {guardas[j].intento[g]} \cup
                                            (IF g \in S THEN {"requiere_reconciliacion"} ELSE {})
<1> DEFINE y == guardas[j]
           f == IF y.fase = "arca_iniciada" THEN "requiere_reconciliacion" ELSE y.fase
           t == [g \in y.grupos |-> IF g \in S THEN "requiere_reconciliacion" ELSE y.intento[g]]
           x == [y EXCEPT !.fase = f, !.intento = t]
<1>1. y \in FilasGuarda
  BY GuardaEnForma
<1>2. DOMAIN guardas' = DOMAIN guardas
      /\ guardas'[j] = IF j \notin GuardasDe(k) THEN y ELSE x
  BY DEF GuardasInciertas
<1>3. \A g \in y.grupos : t[g] = IF g \in S THEN "requiere_reconciliacion" ELSE y.intento[g]
  OBVIOUS
<1>4. f = y.fase \/ (y.fase = "arca_iniciada" /\ f = "requiere_reconciliacion")
  OBVIOUS
<1> HIDE DEF t, f, y
<1>5. x.fase = f /\ x.intento = t /\ x.arca = y.arca /\ x.aut = y.aut /\ x.grupos = y.grupos
  BY <1>1 DEF FilasGuarda
<1> HIDE DEF x
<1> QED BY <1>2, <1>3, <1>4, <1>5 DEF y

\* Nobody answers: the guard stays uncertain, its groups to reconcile
LEMMA OrdenIncertidumbre ==
    ASSUME InductivoLote, InductivoLote', InductivoOrden, NEW a \in Actores,
           CerrarIncertidumbre(a)
    PROVE  InductivoOrden'
<1> DEFINE m == mem[a]
           k == K(a)
           S == m.sub \cup m.pend
<1>1. m.pc = "esperar"
  BY DEF CerrarIncertidumbre, En
<1>2. /\ EnCorrida(m) /\ EnObra(m) /\ CorridaSana(m, lote, grupo, op, guardas)
      /\ RestoDe(m) = m.pend \cup m.sub /\ m.op \in Claves
  BY <1>1, PropiaEnMano
<1>3. CASE AnteCorte(a) /\ UNCHANGED tablas
  BY <1>1, <1>3, TablasIguales, CorteEnCalma
<1>4. CASE /\ guardas' = GuardasInciertas(k, S) /\ Inmovilizar(S)
           /\ ResponderOperacion(k, "requiere_reconciliacion", "final") /\ Fin(a, "final")
  <2>1. Con(grupo, "validado") \subseteq S
    BY <1>1, <1>2 DEF CorridaSana, GruposDeCorrida
  <2>2. CierresFirmes /\ ClavesSalvo(a)
    <3>1. k \in Claves
      BY <1>2 DEF K
    <3> HIDE DEF k
    <3> QED BY <1>4, <3>1, OperacionCierra DEF EstadosCerrados
  <2> HIDE DEF k, S, m
  <2>3. /\ lote'.estado = "requiere_reconciliacion" /\ lote'.dueno = lote.dueno
        /\ lote'.material = lote.material
        /\ \A g \in Grupos : grupo'[g] = IF g \in S THEN "requiere_reconciliacion" ELSE grupo[g]
        /\ ValidadosBajan /\ Con(grupo', "autorizado") = Con(grupo, "autorizado") \ S
    BY <1>4, Inmovilizados
  <2>4. DOMAIN guardas' = DOMAIN guardas
    BY <1>4 DEF GuardasInciertas
  <2>5. ASSUME NEW j \in DOMAIN guardas
        PROVE  LoteRetenido(guardas'[j], lote', grupo', op')
    BY <2>3, RetenidoFacil
  <2>6. ASSUME NEW j \in DOMAIN guardas, NEW g \in guardas[j].grupos
        PROVE  IntentoFirme(guardas'[j], g, grupo')
    <3>1. IntentoFirme(guardas[j], g, grupo) /\ g \in Grupos
      BY GuardaEnForma DEF InductivoOrden, TablasFirmes, GuardasFirmes, FilasGuarda
    <3>2. /\ guardas'[j].arca = guardas[j].arca /\ guardas'[j].aut = guardas[j].aut
          /\ \/ guardas'[j].fase = guardas[j].fase
             \/ guardas[j].fase = "arca_iniciada" /\ guardas'[j].fase = "requiere_reconciliacion"
          /\ guardas'[j].intento[g] \in {guardas[j].intento[g]} \cup
                                        (IF g \in S THEN {"requiere_reconciliacion"} ELSE {})
      BY <1>4, InciertaCampos
    <3> QED BY <2>3, <3>1, <3>2 DEF IntentoFirme
  <2>7. GuardasFirmes'
    <3>1. \A j \in DOMAIN guardas : guardas'[j].grupos = guardas[j].grupos
      BY <1>4, InciertaCampos
    <3> QED BY <2>4, <2>5, <2>6, <3>1 DEF GuardasFirmes
  <2>8. CrucesDisjuntos'
    <3>1. \A j \in DOMAIN guardas :
             guardas'[j].grupos = guardas[j].grupos /\ (Cruzo(guardas'[j]) => Cruzo(guardas[j]))
      BY <1>4, InciertaCampos DEF Cruzo, FasesPrevias
    <3>2. CrucesDisjuntos
      BY DEF InductivoOrden, TablasFirmes
    <3> QED BY <2>4, <3>1, <3>2 DEF CrucesDisjuntos
  <2>9. ASSUME NEW g \in Con(grupo', "autorizado")
        PROVE  UnicoCae(g, guardas')
    <3>1. UnicoCae(g, guardas) /\ g \notin S
      BY <2>3 DEF InductivoOrden, TablasFirmes, AutorizadosFirmes
    <3>2. \A j \in DOMAIN guardas :
             /\ guardas'[j].grupos = guardas[j].grupos
             /\ g \in guardas[j].grupos => guardas'[j].intento[g] = guardas[j].intento[g]
      BY <1>4, <3>1, InciertaCampos
    <3> QED BY <2>4, <3>1, <3>2 DEF UnicoCae
  <2>10. AutorizadosFirmes' /\ DuenoConMaterial'
    BY <2>3, <2>9 DEF AutorizadosFirmes, DuenoConMaterial, InductivoOrden, TablasFirmes
  <2> QED BY <1>2, <1>4, <2>2, <2>3, <2>7, <2>8, <2>10, FinDeCorrida DEF TablasFirmes, m
<1> QED BY <1>3, <1>4 DEF CerrarIncertidumbre

----------------------------------------------------------------------------
(* The application of an answer.                                            *)

\* Row j after the closure m carries, if any: m's guard, of the groups to apply
Aplicada(m, j) ==
    \/ guardas'[j] = guardas[j] /\ (j = m.guarda => m.cierre = "nada")
    \/ /\ j = m.guarda /\ guardas[j].grupos = m.sub /\ guardas'[j].grupos = m.sub
       /\ guardas'[j].op = guardas[j].op /\ guardas'[j].arca = guardas[j].arca
       /\ guardas'[j].aut = guardas[j].aut
       /\ \/ /\ m.cierre = "cerrada_pre_arca" /\ m.sub \cap m.aut = {}
             /\ guardas'[j].fase = "cerrada_pre_arca"
             /\ \A h \in m.sub : guardas'[j].intento[h] = "fallido_verificado"
          \/ /\ m.cierre = "cerrada_terminal" /\ guardas[j].aut = m.aut
             /\ Cruzo(guardas[j]) /\ guardas'[j].fase = "cerrada_terminal"
             /\ \A h \in m.sub : guardas'[j].intento[h] =
                   IF h \in m.aut THEN "autorizado" ELSE "rechazado_arca"

\* The guards after a sublote is applied
LEMMA AplicaGuardas ==
    ASSUME InductivoLote, InductivoOrden, NEW a \in Actores, NEW m, m = mem[a],
           m.pc = "aplicar", CorridaSana(m, lote, grupo, op, guardas),
           guardas' = IF m.cierre = "nada" THEN guardas
                      ELSE GuardaCerrada(m.guarda, m.cierre, m.aut)
    PROVE  DOMAIN guardas' = DOMAIN guardas /\ \A j \in DOMAIN guardas : Aplicada(m, j)
<1>1. CASE m.cierre = "nada"
  BY <1>1 DEF Aplicada
<1>2. CASE m.cierre # "nada"
  <2> DEFINE i == m.guarda
             c == m.cierre
  <2>1. i \in DOMAIN guardas /\ guardas' = GuardaCerrada(i, c, m.aut)
    BY <1>2, PropiaExiste
  <2>2. guardas[i].grupos = m.sub
    BY <1>2 DEF CorridaSana, AplicacionSana
  <2>3. c \in {"cerrada_pre_arca", "cerrada_terminal"}
    BY <1>2, Consta DEF Memorias
  <2>4. c = "cerrada_pre_arca" => m.sub \cap m.aut = {}
    BY DEF CorridaSana, AplicacionSana
  <2>5. c = "cerrada_terminal" => guardas[i].aut = m.aut /\ Cruzo(guardas[i])
    <3>1. ASSUME c = "cerrada_terminal"
          PROVE  guardas[i].arca = "procesada" /\ guardas[i].aut = m.aut
      BY <3>1, Consta DEF MemoriaDe
    <3> QED BY <2>1, <3>1, GuardaEnForma DEF GuardaSana, Cruzo
  <2> HIDE DEF i, c
  <2>6. /\ UnaCambia(i) /\ guardas'[i].fase = c /\ guardas'[i].op = guardas[i].op
        /\ guardas'[i].arca = guardas[i].arca /\ guardas'[i].aut = guardas[i].aut
        /\ \A h \in guardas[i].grupos :
              guardas'[i].intento[h] =
                 IF c = "cerrada_pre_arca" THEN "fallido_verificado"
                 ELSE IF h \in m.aut THEN "autorizado" ELSE "rechazado_arca"
    BY <2>1, CerradaCampos
  <2>7. Aplicada(m, i)
    BY <2>2, <2>3, <2>4, <2>5, <2>6 DEF Aplicada, UnaCambia, i, c
  <2>8. \A j \in DOMAIN guardas : j # i => Aplicada(m, j)
    BY <2>6 DEF Aplicada, UnaCambia, i
  <2> QED BY <2>6, <2>7, <2>8 DEF UnaCambia
<1> QED BY <1>1, <1>2

\* What both have in common
LEMMA AplicadaCampos ==
    ASSUME InductivoLote, NEW m, NEW j \in DOMAIN guardas, Aplicada(m, j), ValidadosBajan
    PROVE  /\ guardas'[j].op = guardas[j].op /\ guardas'[j].arca = guardas[j].arca
           /\ guardas'[j].aut = guardas[j].aut /\ guardas'[j].grupos = guardas[j].grupos
           /\ Pendiente(guardas'[j], grupo') => Pendiente(guardas[j], grupo)
           /\ Cruzo(guardas'[j]) => Cruzo(guardas[j])
<1>1. CASE guardas'[j] = guardas[j]
  BY <1>1, PendienteBaja
<1>2. CASE guardas'[j].fase = "cerrada_pre_arca" /\ guardas'[j] # guardas[j]
  BY <1>2 DEF Aplicada, Pendiente, Cruzo, FasesActivas, FasesPrevias
<1>3. CASE guardas'[j].fase = "cerrada_terminal" /\ guardas'[j] # guardas[j]
  <2>1. Cruzo(guardas[j]) /\ guardas'[j].grupos = guardas[j].grupos
    BY <1>3 DEF Aplicada
  <2>2. Pendiente(guardas'[j], grupo') => Pendiente(guardas[j], grupo)
    <3>1. guardas[j].fase \in FasesPrevias \cup FasesCruzadas \cup {"cerrada_terminal"}
      BY GuardaEnForma DEF FilasGuarda
    <3> QED BY <1>3, <2>1, <3>1
          DEF Pendiente, Cruzo, ValidadosBajan, FasesActivas, FasesPrevias, FasesCruzadas
  <2> QED BY <1>3, <2>1, <2>2 DEF Aplicada
<1> QED BY <1>1, <1>2, <1>3 DEF Aplicada

\* A group to apply that is authorised already was so by the guard of the run
LEMMA AutorizadoEnResto ==
    ASSUME InductivoOrden, NEW m, m.pc = "aplicar", CorridaSana(m, lote, grupo, op, guardas),
           NEW h \in m.sub, h \in Con(grupo, "autorizado")
    PROVE  /\ m.guarda \in DOMAIN guardas /\ h \in m.aut
           /\ h \in guardas[m.guarda].grupos /\ guardas[m.guarda].intento[h] = "autorizado"
<1>1. PICK j \in DOMAIN guardas :
         h \in guardas[j].grupos /\ guardas[j].intento[h] = "autorizado"
  BY DEF InductivoOrden, TablasFirmes, AutorizadosFirmes, UnicoCae
<1>2. guardas[j].fase = "cerrada_terminal" /\ h \in guardas[j].aut
  BY <1>1 DEF InductivoOrden, TablasFirmes, GuardasFirmes, IntentoFirme
<1>3. h \in RestoDe(m)
  BY DEF RestoDe, EnManoDe
<1>4. j = m.guarda /\ h \in m.aut
  BY <1>1, <1>2, <1>3 DEF CorridaSana, Respetada
<1> QED BY <1>1, <1>4

\* What the commit of group g, with lote state e, does to the run of m, n after it
Aplica(m, n, g, e) ==
    /\ g \in m.sub /\ n.sub = m.sub \ {g} /\ n.cierre = "nada" /\ n.aut = m.aut
    /\ n.pend = m.pend /\ n.op = m.op /\ n.guarda = m.guarda /\ n.mat = m.mat
    /\ n.chunk = m.chunk /\ n.vista.estado = e
    /\ n.pc = IF m.sub # {g} THEN "aplicar"
              ELSE IF m.pend # {} THEN "verificar" ELSE "terminar"
    /\ \A h \in Grupos :
          grupo'[h] = IF h = g THEN (IF g \in m.aut THEN "autorizado" ELSE "fallido")
                      ELSE grupo[h]
    /\ e = Recalculado(m.vista.estado, grupo')
    /\ lote'.estado = (IF m.vista.estado = e THEN lote.estado ELSE e)
    /\ lote'.dueno = lote.dueno /\ lote'.material = lote.material

\* The groups and the lote after a sublote is applied
LEMMA AplicaForma ==
    ASSUME InductivoLote, InductivoOrden, NEW a \in Actores, AplicarGrupo(a),
           CorridaSana(mem[a], lote, grupo, op, guardas)
    PROVE  \E g \in Grupos, e \in EstadosLote : Aplica(mem[a], mem'[a], g, e)
<1> DEFINE m == mem[a]
           g == CHOOSE h \in m.sub : \A j \in m.sub : h <= j
           gr == [grupo EXCEPT ![g] = IF g \in m.aut THEN "autorizado" ELSE "fallido"]
           v == m.vista
           e == Recalculado(v.estado, gr)
           q == m.sub \ {g}
           p == IF m.sub # {g} THEN "aplicar"
                ELSE IF m.pend # {} THEN "verificar" ELSE "terminar"
<1>1. /\ m.pc = "aplicar" /\ grupo' = gr /\ lote' = Escribir(lote, v, e)
      /\ mem' = [mem EXCEPT ![a].sub = @ \ {g}, ![a].cierre = "nada",
                   ![a].vista.estado = e, ![a].pc = p]
  BY DEF AplicarGrupo, En
<1>2. m \in Memorias /\ mem \in [Actores -> Memorias] /\ v \in FilasLote /\ lote \in FilasLote
      /\ grupo \in [Grupos -> EstadosGrupo]
  BY Consta DEF Memorias
<1>3. m.sub # {} /\ m.sub \in SUBSET Grupos
  BY <1>1, <1>2 DEF CorridaSana, GruposDeCorrida, Memorias
<1>4. g \in m.sub /\ g \in Grupos
  BY <1>3, HayPrimero
<1>5. e \in EstadosLote
  BY <1>2, RecalculadoForma DEF FilasLote
<1>6. mem'[a] = [m EXCEPT !.sub = q, !.cierre = "nada", !.vista = [v EXCEPT !.estado = e],
                          !.pc = p]
  <2> HIDE DEF e, p, g
  <2> QED BY <1>1, <1>2
<1>7. \A h \in Grupos :
          grupo'[h] = IF h = g THEN (IF g \in m.aut THEN "autorizado" ELSE "fallido")
                      ELSE grupo[h]
  <2> HIDE DEF g
  <2> QED BY <1>1, <1>2, <1>4
<1>8. e = Recalculado(v.estado, grupo')
  BY <1>1
<1> HIDE DEF e, gr, g, p
<1>9. lote'.estado = (IF v.estado = e THEN lote.estado ELSE e)
      /\ lote'.dueno = lote.dueno /\ lote'.material = lote.material
  BY <1>1, <1>2 DEF Escribir, FilasLote
<1>10. [v EXCEPT !.estado = e].estado = e
  BY <1>2 DEF FilasLote
<1> DEFINE w == [v EXCEPT !.estado = e]
<1> HIDE DEF w
<1>11. mem'[a] = [m EXCEPT !.sub = q, !.cierre = "nada", !.vista = w, !.pc = p]
       /\ w.estado = e
  BY <1>6, <1>10 DEF w
<1> DEFINE n == mem'[a]
<1>12. /\ n.sub = q /\ n.cierre = "nada" /\ n.vista = w /\ n.pc = p /\ n.aut = m.aut
       /\ n.pend = m.pend /\ n.op = m.op /\ n.guarda = m.guarda /\ n.mat = m.mat
       /\ n.chunk = m.chunk
  <2> HIDE DEF m, q, v
  <2> QED BY <1>2, <1>11 DEF Memorias
<1> HIDE DEF n
<1>13. Aplica(m, n, g, e)
  BY <1>4, <1>7, <1>8, <1>9, <1>11, <1>12 DEF Aplica, p
<1> QED BY <1>4, <1>5, <1>13 DEF n

\* The lote after the commit
LEMMA AplicaLote ==
    ASSUME InductivoLote, InductivoOrden, NEW m, NEW n, NEW g \in Grupos, NEW e,
           Aplica(m, n, g, e), m.pc = "aplicar", CorridaSana(m, lote, grupo, op, guardas)
    PROVE  /\ ValidadosBajan /\ g \notin Con(grupo', "validado")
           /\ lote'.estado # "en_cola"
           /\ Con(grupo', "validado") # {} => lote'.estado = "procesando" /\ e = "procesando"
           /\ lote'.estado = "procesando" => lote.estado = "procesando"
           /\ lote'.estado = "completado" => Con(grupo', "autorizado") = Grupos
<1>1. ValidadosBajan /\ g \notin Con(grupo', "validado")
  BY DEF Aplica, ValidadosBajan, Con
<1>2. e \in Activos => e = m.vista.estado
  BY EstadoLoteForma DEF Aplica, Recalculado
<1>3. Con(grupo', "validado") # {} => lote'.estado = "procesando" /\ e = "procesando"
  BY <1>1 DEF Aplica, ValidadosBajan, CorridaSana, LoteDeCorrida, Recalculado
<1>4. lote'.estado # "en_cola" /\ (lote'.estado = "procesando" => lote.estado = "procesando")
  BY <1>2 DEF Aplica, CorridaSana, LoteDeCorrida, Activos
<1>5. ASSUME lote'.estado = "completado"
      PROVE  Con(grupo', "autorizado") = Grupos
  <2>1. CASE e = "completado"
    <3>1. CASE e = EstadoLote(grupo')
      BY <2>1, <3>1, CompletadoPorGrupos
    <3>2. CASE e # EstadoLote(grupo')
      BY <2>1, <3>2 DEF Aplica, Recalculado
    <3> QED BY <3>1, <3>2
  <2>2. CASE e # "completado"
    <3>1. Con(grupo, "autorizado") = Grupos
      BY <1>5, <2>2 DEF Aplica, InductivoOrden, TablasFirmes, AutorizadosFirmes
    <3>2. g \in m.aut
      BY <3>1, AutorizadoEnResto DEF Aplica
    <3> QED BY <3>1, <3>2 DEF Aplica, Con
  <2> QED BY <2>1, <2>2
<1> QED BY <1>1, <1>3, <1>4, <1>5

\* The tables after the commit
LEMMA AplicaTablas ==
    ASSUME InductivoLote, InductivoOrden, NEW m, NEW n, NEW g \in Grupos, NEW e,
           Aplica(m, n, g, e), m.pc = "aplicar", CorridaSana(m, lote, grupo, op, guardas),
           op' = op, DOMAIN guardas' = DOMAIN guardas, \A j \in DOMAIN guardas : Aplicada(m, j)
    PROVE  TablasFirmes'
<1>1. /\ ValidadosBajan /\ lote'.estado # "en_cola"
      /\ Con(grupo', "validado") # {} => lote'.estado = "procesando"
      /\ lote'.estado = "procesando" => lote.estado = "procesando"
      /\ lote'.estado = "completado" => Con(grupo', "autorizado") = Grupos
  BY AplicaLote
<1>2. \A j \in DOMAIN guardas :
           /\ guardas'[j].op = guardas[j].op /\ guardas'[j].arca = guardas[j].arca
           /\ guardas'[j].aut = guardas[j].aut /\ guardas'[j].grupos = guardas[j].grupos
           /\ Pendiente(guardas'[j], grupo') => Pendiente(guardas[j], grupo)
           /\ Cruzo(guardas'[j]) => Cruzo(guardas[j])
  BY <1>1, AplicadaCampos
<1>3. \A h \in Grupos :
          grupo'[h] = IF h = g THEN (IF g \in m.aut THEN "autorizado" ELSE "fallido")
                      ELSE grupo[h]
  BY DEF Aplica
<1>4. g \in m.sub /\ g \in RestoDe(m) /\ g \in EnManoDe(m)
  BY DEF Aplica, RestoDe, EnManoDe
<1>5. ASSUME NEW j \in DOMAIN guardas
      PROVE  LoteRetenido(guardas'[j], lote', grupo', op')
  <2>1. LoteRetenido(guardas[j], lote, grupo, op)
    BY DEF InductivoOrden, TablasFirmes, GuardasFirmes
  <2>2. lote'.dueno = lote.dueno
    BY DEF Aplica
  <2> QED BY <1>1, <1>2, <2>1, <2>2 DEF LoteRetenido, DuenoEs
<1>6. ASSUME NEW j \in DOMAIN guardas, NEW h \in guardas[j].grupos
      PROVE  IntentoFirme(guardas'[j], h, grupo')
  <2>1. IntentoFirme(guardas[j], h, grupo) /\ h \in Grupos
    BY GuardaEnForma DEF InductivoOrden, TablasFirmes, GuardasFirmes, FilasGuarda
  <2>2. grupo'[h] = "fallido" => h \notin guardas[j].aut /\ guardas[j].arca # "en_vuelo"
    <3>1. CASE h = g
      BY <1>3, <1>4, <2>1, <3>1 DEF CorridaSana, Respetada
    <3>2. CASE h # g
      BY <1>3, <2>1, <3>2 DEF IntentoFirme
    <3> QED BY <3>1, <3>2
  <2>3. grupo'[h] = "validado" => grupo[h] = "validado"
    BY <1>3, <2>1
  <2>4. CASE guardas'[j] = guardas[j]
    BY <2>1, <2>2, <2>3, <2>4 DEF IntentoFirme
  <2>5. CASE guardas'[j] # guardas[j]
    BY <1>2, <2>2, <2>5 DEF Aplicada, IntentoFirme
  <2> QED BY <2>4, <2>5
<1>7. GuardasFirmes'
  BY <1>2, <1>5, <1>6 DEF GuardasFirmes
<1>8. CrucesDisjuntos'
  <2>1. CrucesDisjuntos
    BY DEF InductivoOrden, TablasFirmes
  <2> QED BY <1>2, <2>1 DEF CrucesDisjuntos
<1>9. UnicoCae(g, guardas') \/ g \notin m.aut
  <2> SUFFICES ASSUME g \in m.aut PROVE UnicoCae(g, guardas')
    OBVIOUS
  <2>1. /\ m.cierre # "cerrada_pre_arca" /\ m.guarda \in DOMAIN guardas
        /\ g \in guardas[m.guarda].grupos
        /\ m.cierre = "nada" => guardas[m.guarda].intento[g] = "autorizado"
    BY <1>4 DEF CorridaSana, AplicacionSana
  <2>2. guardas'[m.guarda].intento[g] = "autorizado"
    BY <1>4, <2>1 DEF Aplicada
  <2>3. ASSUME NEW j \in DOMAIN guardas, j # m.guarda, g \in guardas[j].grupos
        PROVE  guardas'[j].intento[g] = "fallido_verificado"
    <3>1. guardas[j].fase = "cerrada_pre_arca"
          /\ guardas[j].intento[g] # "requiere_reconciliacion"
      BY <1>4, <2>3 DEF CorridaSana, Respetada
    <3>2. guardas[j].intento[g] = "fallido_verificado"
      BY <2>3, <3>1 DEF InductivoOrden, TablasFirmes, GuardasFirmes, IntentoFirme
    <3> QED BY <2>3, <3>2 DEF Aplicada
  <2> QED BY <1>2, <2>1, <2>2, <2>3 DEF UnicoCae
<1>10. ASSUME NEW h \in Con(grupo', "autorizado"), h # g
       PROVE  UnicoCae(h, guardas')
  <2>1. h \in Con(grupo, "autorizado") /\ UnicoCae(h, guardas)
    BY <1>3, <1>10 DEF Con, InductivoOrden, TablasFirmes, AutorizadosFirmes
  <2>2. ASSUME NEW j \in DOMAIN guardas, h \in guardas[j].grupos
        PROVE  guardas'[j].intento[h] = guardas[j].intento[h]
    <3>1. CASE guardas'[j] = guardas[j]
      BY <3>1
    <3>2. CASE guardas'[j] # guardas[j]
      <4>1. j = m.guarda /\ h \in m.sub
        BY <2>2, <3>2 DEF Aplicada
      <4>2. h \in m.aut /\ guardas[j].intento[h] = "autorizado"
        BY <2>1, <4>1, AutorizadoEnResto
      <4> QED BY <3>2, <4>1, <4>2 DEF Aplicada
    <3> QED BY <3>1, <3>2
  <2> QED BY <1>2, <2>1, <2>2 DEF UnicoCae
<1>11. AutorizadosFirmes'
  <2>1. g \in Con(grupo', "autorizado") => g \in m.aut
    BY <1>3 DEF Con
  <2> QED BY <1>1, <1>9, <1>10, <2>1 DEF AutorizadosFirmes
<1>12. DuenoConMaterial'
  BY DEF Aplica, InductivoOrden, TablasFirmes, DuenoConMaterial
<1> QED BY <1>7, <1>8, <1>11, <1>12 DEF TablasFirmes

\* A sublote is applied and its guard closed in one commit
LEMMA OrdenAplicar ==
    ASSUME InductivoLote, InductivoLote', InductivoOrden, NEW a \in Actores, AplicarGrupo(a)
    PROVE  InductivoOrden'
<1> DEFINE m == mem[a]
           n == mem'[a]
<1>1. /\ m.pc = "aplicar" /\ op' = op
      /\ guardas' = IF m.cierre = "nada" THEN guardas
                    ELSE GuardaCerrada(m.guarda, m.cierre, m.aut)
  BY DEF AplicarGrupo, En
<1>2. EnCorrida(m) /\ EnObra(m)
  BY <1>1 DEF EnCorrida, EnObra, PasosDeCorrida
<1>3. CorridaSana(m, lote, grupo, op, guardas) /\ Prevision(a, m, grupo)
  BY <1>2, Sabe
<1>4. PICK g \in Grupos, e \in EstadosLote : Aplica(m, n, g, e)
  BY <1>3, AplicaForma
<1>5. SoloMueve(a)
  BY Consta DEF AplicarGrupo, SoloMueve
<1> HIDE DEF n
<1>6. DOMAIN guardas' = DOMAIN guardas /\ \A j \in DOMAIN guardas : Aplicada(m, j)
  <2> HIDE DEF m
  <2> QED BY <1>1, <1>3, AplicaGuardas DEF m
<1> HIDE DEF m
<1>7. TablasFirmes'
  BY <1>1, <1>3, <1>4, <1>6, AplicaTablas
<1>8. /\ ValidadosBajan /\ g \notin Con(grupo', "validado") /\ lote'.estado # "en_cola"
      /\ Con(grupo', "validado") # {} => lote'.estado = "procesando" /\ e = "procesando"
      /\ lote'.estado = "procesando" => lote.estado = "procesando"
  BY <1>1, <1>3, <1>4, AplicaLote
<1>9. /\ g \in m.sub /\ n.sub = m.sub \ {g} /\ n.cierre = "nada" /\ n.aut = m.aut
      /\ n.pend = m.pend /\ n.op = m.op /\ n.guarda = m.guarda /\ n.mat = m.mat
      /\ n.chunk = m.chunk /\ n.vista.estado = e
      /\ n.pc = (IF m.sub # {g} THEN "aplicar"
                 ELSE IF m.pend # {} THEN "verificar" ELSE "terminar")
  BY <1>4 DEF Aplica
<1>10. m.pend \cap m.sub = {} /\ PorEnviarDe(m) = m.pend /\ EnManoDe(m) = m.sub
  BY <1>1, <1>3 DEF CorridaSana, GruposDeCorrida, PorEnviarDe, EnManoDe
<1>11. PorEnviarDe(n) = m.pend /\ EnManoDe(n) = m.sub \ {g}
       /\ RestoDe(n) = RestoDe(m) \ {g}
  <2>1. PorEnviarDe(n) = m.pend
    BY <1>9 DEF PorEnviarDe
  <2>2. EnManoDe(n) = m.sub \ {g}
    BY <1>9 DEF EnManoDe
  <2> QED BY <1>9, <1>10, <2>1, <2>2 DEF RestoDe
<1>12. \A j \in DOMAIN guardas :
           /\ guardas'[j].op = guardas[j].op /\ guardas'[j].arca = guardas[j].arca
           /\ guardas'[j].aut = guardas[j].aut /\ guardas'[j].grupos = guardas[j].grupos
           /\ Pendiente(guardas'[j], grupo') => Pendiente(guardas[j], grupo)
  BY <1>6, <1>8, AplicadaCampos
<1>13. LoteDeCorrida(n, lote', grupo', op')
  <2>1. lote'.dueno = lote.dueno
    BY <1>4 DEF Aplica
  <2> QED BY <1>1, <1>3, <1>8, <1>9, <2>1 DEF CorridaSana, LoteDeCorrida, DuenoEs
<1>14. GruposDeCorrida(n, grupo', guardas')
  <2>1. Con(grupo', "validado") \subseteq RestoDe(n)
    BY <1>1, <1>3, <1>8, <1>11 DEF CorridaSana, GruposDeCorrida, ValidadosBajan
  <2> QED BY <1>9, <1>10, <1>11, <2>1 DEF GruposDeCorrida
<1>15. AplicacionSana(n, guardas')
  <2> SUFFICES ASSUME NEW h \in n.sub \cap n.aut
               PROVE  /\ n.guarda \in DOMAIN guardas' /\ h \in guardas'[n.guarda].grupos
                      /\ guardas'[n.guarda].intento[h] = "autorizado"
    BY <1>9 DEF AplicacionSana
  <2>1. h \in m.sub \cap m.aut
    BY <1>9
  <2>2. /\ m.cierre # "cerrada_pre_arca" /\ m.guarda \in DOMAIN guardas
        /\ h \in guardas[m.guarda].grupos
        /\ m.cierre = "nada" => guardas[m.guarda].intento[h] = "autorizado"
    BY <1>1, <1>3, <2>1 DEF CorridaSana, AplicacionSana
  <2>3. guardas'[m.guarda].intento[h] = "autorizado"
    BY <1>6, <2>1, <2>2 DEF Aplicada
  <2> QED BY <1>6, <1>9, <1>12, <2>2, <2>3
<1>16. ASSUME NEW j \in DOMAIN guardas'
       PROVE  Respetada(n, j, guardas'[j], lote', grupo')
  <2>1. j \in DOMAIN guardas /\ Respetada(m, j, guardas[j], lote, grupo) /\ Aplicada(m, j)
    BY <1>3, <1>6, <1>16 DEF CorridaSana
  <2>2. ASSUME NEW h \in guardas[j].grupos \cap RestoDe(n)
        PROVE  /\ guardas'[j].fase = "cerrada_pre_arca" \/ (j = n.guarda /\ h \in EnManoDe(n))
               /\ guardas'[j].intento[h] # "requiere_reconciliacion"
    <3>1. h \in RestoDe(m) /\ h # g
      BY <1>11
    <3>2. CASE guardas'[j] = guardas[j]
      BY <1>9, <1>10, <1>11, <2>1, <3>1, <3>2 DEF Respetada
    <3>3. CASE guardas'[j] # guardas[j]
      BY <1>9, <1>11, <2>1, <2>2, <3>1, <3>3 DEF Aplicada
    <3> QED BY <3>2, <3>3
  <2>3. n.pc = "aplicar" =>
          \A h \in guardas'[j].grupos \cap n.sub :
             guardas'[j].arca # "en_vuelo" /\ (h \in guardas'[j].aut => h \in n.aut)
    BY <1>1, <1>9, <1>12, <2>1 DEF Respetada
  <2>4. Pendiente(guardas'[j], grupo') /\ lote'.estado = "procesando" =>
           guardas'[j].op = n.op
    BY <1>8, <1>9, <1>12, <2>1 DEF Respetada
  <2> QED BY <1>12, <2>1, <2>2, <2>3, <2>4 DEF Respetada
<1>17. CorridaSana(n, lote', grupo', op', guardas')
  BY <1>13, <1>14, <1>15, <1>16 DEF CorridaSana
<1>18. Prevision(a, n, grupo')
  <2>1. n.pc \in {"aplicar", "verificar", "terminar"} /\ m.mat # {}
    BY <1>2, <1>3, <1>9 DEF Prevision
  <2> QED BY <1>3, <1>9, <2>1 DEF Prevision, SinGuarda
<1> QED BY <1>1, <1>2, <1>5, <1>7, <1>8, <1>9, <1>17, <1>18, SigueCorrida DEF m, n

----------------------------------------------------------------------------
(* The end of the run.                                                      *)

\* Nothing is left to emit and the lote gets the state of its groups
LEMMA CierreEnCalma ==
    ASSUME InductivoLote, InductivoOrden, NEW v \in FilasLote, NEW e, e = EstadoLote(grupo),
           Con(grupo, "validado") = {}, UNCHANGED <<grupo, guardas>>, CierresFirmes,
           lote' = Escribir(lote, v, e)
    PROVE  TablasCalmas /\ RestoFirme
<1>1. e \notin Activos /\ e \in EstadosLote /\ lote \in FilasLote
  BY EstadoLoteForma DEF InductivoLote, FilasEnForma
<1>2. lote'.estado = (IF v.estado = e THEN lote.estado ELSE e)
      /\ lote'.dueno = lote.dueno /\ lote'.material = lote.material
  BY <1>1 DEF Escribir, FilasLote
<1>3. TablasCalmas
  BY <1>1, <1>2 DEF TablasCalmas, LoteCalmo, ValidadosBajan, Activos
<1>4. lote'.estado = "completado" => lote.estado = "completado" \/ e = "completado"
  BY <1>2
<1>5. e = "completado" => Con(grupo, "autorizado") = Grupos
  BY CompletadoPorGrupos
<1>6. RestoFirme
  BY <1>2, <1>4, <1>5 DEF RestoFirme, InductivoOrden, TablasFirmes, AutorizadosFirmes,
                           DuenoConMaterial
<1> QED BY <1>3, <1>6

\* A run ends when it has nothing to send
LEMMA OrdenTerminar ==
    ASSUME InductivoLote, InductivoLote', InductivoOrden, NEW a \in Actores, Terminar(a)
    PROVE  InductivoOrden'
<1> DEFINE m == mem[a]
           n == mem'[a]
           v == m.vista
           e == EstadoLote(grupo)
           f == EstadoPublicado(e)
           k == K(a)
<1>1. m.pc = "terminar" /\ UNCHANGED <<grupo, guardas>>
  BY DEF Terminar, En
<1>2. EnCorrida(m) /\ EnObra(m) /\ v \in FilasLote /\ m \in Memorias
  BY <1>1, Consta DEF EnCorrida, EnObra, PasosDeCorrida, Memorias
<1>3. CorridaSana(m, lote, grupo, op, guardas) /\ Prevision(a, m, grupo)
  BY <1>2, Sabe
<1>4. Con(grupo, "validado") = {}
  BY <1>1, <1>3 DEF CorridaSana, GruposDeCorrida, RestoDe, PorEnviarDe, EnManoDe
<1>5. CASE Fin(a, "error") /\ UNCHANGED <<lote, op>>
  BY <1>1, <1>5, SoloTerminaOrden DEF tablas
<1>6. CASE lote' = Escribir(lote, v, e) /\ ResponderOperacion(k, f, "final") /\ Fin(a, "final")
  <2>1. f \in EstadosCerrados
    <3>1. e \notin Activos
      BY EstadoLoteForma
    <3> HIDE DEF e
    <3> QED BY <3>1 DEF EstadoPublicado, EstadosCerrados, Activos
  <2>2. k \in Claves
    BY <1>2, ClaveDeObra DEF K
  <2>3. CierresFirmes /\ ClavesSalvo(a)
    <3> HIDE DEF f, k
    <3> QED BY <1>6, <2>1, <2>2, OperacionCierra DEF EstadosCerrados
  <2>4. TablasCalmas /\ RestoFirme
    <3> HIDE DEF e, v, m
    <3> QED BY <1>1, <1>2, <1>4, <1>6, <2>3, CierreEnCalma DEF e
  <2> QED BY <1>6, <2>3, <2>4, FinEnCalma
<1>7. CASE /\ a # Worker /\ lote' = Escribir(lote, v, e) /\ op' = op
           /\ mem' = [mem EXCEPT ![a].pc = "publicar", ![a].vista.estado = e]
  <2>1. CierresFirmes /\ ClavesSalvo(a) /\ ConClave(op'[k])
    BY <1>2, <1>7, ClavesQuietas DEF CierresFirmes
  <2>2. TablasCalmas /\ RestoFirme
    <3> HIDE DEF e, v, m
    <3> QED BY <1>1, <1>2, <1>4, <1>7, <2>1, CierreEnCalma DEF e
  <2>3. SoloMueve(a) /\ n.pc = "publicar" /\ n.op = m.op /\ n.guarda = m.guarda
        /\ n.mat = m.mat /\ n.chunk = m.chunk
    <3> HIDE DEF e
    <3> QED BY <1>7, Consta DEF SoloMueve, Memorias
  <2> HIDE DEF n
  <2>4. CorridaSana(m, lote', grupo', op', guardas')
    BY <1>3, <2>2, CorridaCalma
  <2> HIDE DEF m
  <2>5. RestoDe(n) = {} /\ PorEnviarDe(n) = {} /\ EnManoDe(n) = {}
    BY <2>3 DEF RestoDe, PorEnviarDe, EnManoDe
  <2>6. LoteDeCorrida(n, lote', grupo', op')
    BY <1>1, <1>4, <2>3, <2>4 DEF CorridaSana, LoteDeCorrida
  <2>7. GruposDeCorrida(n, grupo', guardas') /\ AplicacionSana(n, guardas')
    BY <1>1, <1>4, <2>3, <2>5 DEF GruposDeCorrida, AplicacionSana
  <2>8. \A j \in DOMAIN guardas' : Respetada(n, j, guardas'[j], lote', grupo')
    BY <2>3, <2>4, <2>5 DEF CorridaSana, Respetada
  <2>9. CorridaSana(n, lote', grupo', op', guardas')
    BY <2>6, <2>7, <2>8 DEF CorridaSana
  <2>10. Prevision(a, n, grupo')
    BY <1>2, <1>3, <1>7, <2>3 DEF Prevision, SinGuarda
  <2>11. ActorSano(a, n, lote', grupo', op', guardas')
    BY <2>1, <2>3, <2>9, <2>10 DEF ActorSano, K, m
  <2> QED BY <1>2, <2>1, <2>2, <2>3, <2>11, AvanzaEnCalma DEF m, n
<1> QED BY <1>5, <1>6, <1>7 DEF Terminar

\* An outage cuts a run
LEMMA OrdenCorte ==
    ASSUME InductivoLote, InductivoLote', InductivoOrden, NEW a \in Actores, CorteDeBase(a)
    PROVE  InductivoOrden'
<1>1. mem[a].pc # "recuperar" /\ AnteCorte(a) /\ UNCHANGED tablas
  BY DEF CorteDeBase, PasosConBase
<1> QED BY <1>1, TablasIguales, CorteEnCalma

\* Every step of a run
LEMMA CorridaEnOrden ==
    ASSUME InductivoLote, InductivoLote', InductivoOrden, NEW a \in Actores, PasoCorrida(a)
    PROVE  InductivoOrden'
BY OrdenTomar, OrdenReleer, OrdenCapacidad, OrdenVerificar, OrdenReservar,
   OrdenReservarPerdida, OrdenMarcar, OrdenMarcarAmbigua, OrdenSolicitar, OrdenRecibir,
   OrdenRechazo, OrdenIncertidumbre, OrdenAplicar, OrdenTerminar, OrdenCorte
   DEF PasoCorrida

----------------------------------------------------------------------------
(* The worker.                                                              *)

LEMMA OrdenListar ==
    ASSUME InductivoLote, InductivoLote', InductivoOrden, Listar
    PROVE  InductivoOrden'
<1> USE WorkerEsActor
<1> DEFINE a == Worker
<1>1. mem[a].pc = "inicio" /\ Ir(a, "en_curso") /\ UNCHANGED tablas
  BY DEF Listar, En
<1>2. Prevision(a, mem[a], grupo)
  BY Sabe
<1>3. /\ SoloMueve(a) /\ mem'[a].pc = "en_curso" /\ mem'[a].guarda = mem[a].guarda
      /\ mem'[a].chunk = mem[a].chunk
  BY <1>1, IrForma
<1> HIDE DEF a
<1>4. ~EnObra(mem'[a]) /\ Prevision(a, mem'[a], grupo)
  BY <1>1, <1>2, <1>3 DEF EnObra, EnCorrida, PasosDeCorrida, AntesDeTomar, Prevision, SinGuarda
<1> QED BY <1>1, <1>3, <1>4, LeeOrden DEF a

\* What is in the queue has groups to emit, and sets out without a guard
LEMMA OrdenLeerEnCola ==
    ASSUME InductivoLote, InductivoLote', InductivoOrden, LeerEnCola
    PROVE  InductivoOrden'
<1> USE WorkerEsActor
<1> DEFINE a == Worker
           n == mem'[a]
<1>1. mem[a].pc = "en_curso" /\ UNCHANGED tablas
  BY DEF LeerEnCola, En
<1>2. Prevision(a, mem[a], grupo)
  BY Sabe
<1>3. lote.dueno \in Claves
  BY <1>1, Consta DEF MemoriaDe
<1>4. /\ SoloMueve(a) /\ n.pc = "tomar" /\ n.guarda = mem[a].guarda
      /\ n.chunk = mem[a].chunk /\ n.mat = lote.material
  BY Consta DEF LeerEnCola, SoloMueve, Memorias
<1> HIDE DEF n
<1>5. ~EnCorrida(n)
  BY <1>4 DEF EnCorrida, PasosDeCorrida
<1>6. lote.material # {}
  BY <1>3 DEF InductivoOrden, TablasFirmes, DuenoConMaterial
<1>7. Prevision(a, n, grupo')
  BY <1>1, <1>2, <1>4, <1>6 DEF Prevision, SinGuarda
<1>8. ActorSano(a, n, lote', grupo', op', guardas')
  BY <1>5, <1>7 DEF ActorSano
<1>9. TablasFirmes' /\ ValidadosBajan /\ TablasCalmas /\ ClavesSalvo(a)
  BY <1>1, TablasFirmesIguales, TablasIguales
<1>10. ASSUME NEW b \in Actores, b # a
       PROVE  ActorSano(b, mem[b], lote', grupo', op', guardas')
  <2>1. EnCorrida(mem[b]) => CorridaSana(mem[b], lote', grupo', op', guardas')
    BY <1>9, CorridaCalma DEF InductivoOrden, ActoresSanos, ActorSano
  <2> QED BY <1>9, <1>10, <2>1, OtroSano DEF ClavesSalvo
<1> QED BY <1>4, <1>5, <1>8, <1>9, <1>10, AvanzaOrden DEF n

\* The worker locks the lote it found in the queue
LEMMA OrdenBloquearInicio ==
    ASSUME InductivoLote, InductivoLote', InductivoOrden, BloquearInicio
    PROVE  InductivoOrden'
<1> USE WorkerEsActor
<1> DEFINE a == Worker
           n == mem'[a]
           V == Con(grupo, "validado")
           I == Intactos(grupo)
           d == lote.dueno
<1>1. mem[a].pc = "inicio" /\ UNCHANGED tablas
  BY DEF BloquearInicio, En
<1>2. PICK p \in {"ok", "error", "no"} :
         /\ p = "ok" => I = V
         /\ mem' = [mem EXCEPT ![Worker].pc = "bloquear", ![Worker].op = d,
                       ![Worker].mat = I, ![Worker].preflight = p]
  BY DEF BloquearInicio
<1>3. Prevision(a, mem[a], grupo)
  BY Sabe
<1> HIDE DEF I, V, d
<1>4. /\ SoloMueve(a) /\ n.pc = "bloquear" /\ n.guarda = mem[a].guarda
      /\ n.chunk = mem[a].chunk /\ n.mat = I /\ n.preflight = p
  BY <1>2, Consta DEF SoloMueve, Memorias
<1> HIDE DEF n, a
<1>5. ~EnObra(n) /\ Prevision(a, n, grupo)
  BY <1>1, <1>2, <1>3, <1>4
     DEF EnObra, EnCorrida, PasosDeCorrida, AntesDeTomar, Prevision, SinGuarda, V
<1> QED BY <1>1, <1>4, <1>5, LeeOrden, WorkerEsActor DEF a, n

\* A group with one authorised intento, and none uncertain, has one request
LEMMA VinculadoUnico ==
    ASSUME InductivoLote, InductivoOrden, NEW g, Respaldado(g)
    PROVE  UnicoCae(g, guardas)
<1>1. PICK i \in GuardasConGrupo(g) :
         {j \in GuardasConGrupo(g) : guardas[j].intento[g] = "autorizado"} = {i}
  BY DEF Respaldado
<1>2. i \in DOMAIN guardas /\ g \in guardas[i].grupos /\ guardas[i].intento[g] = "autorizado"
  BY <1>1 DEF GuardasConGrupo
<1>3. Cruzo(guardas[i])
  BY <1>2 DEF InductivoOrden, TablasFirmes, GuardasFirmes, IntentoFirme, Cruzo, FasesPrevias
<1>4. ASSUME NEW j \in DOMAIN guardas, j # i, g \in guardas[j].grupos
      PROVE  guardas[j].intento[g] = "fallido_verificado"
  <2>1. j \in GuardasConGrupo(g) /\ guardas[j].intento[g] # "autorizado"
    BY <1>1, <1>4 DEF GuardasConGrupo
  <2>2. guardas[j].intento[g] \notin {"en_proceso", "requiere_reconciliacion"}
    BY <2>1 DEF Respaldado, EstadosIntento, EstadosInciertos
  <2>3. guardas[j].intento[g] # "rechazado_arca"
    <3>1. guardas[j].intento[g] = "rechazado_arca" => Cruzo(guardas[j])
      BY <1>4 DEF InductivoOrden, TablasFirmes, GuardasFirmes, IntentoFirme, Cruzo, FasesPrevias
    <3> QED BY <1>2, <1>3, <1>4, <3>1 DEF InductivoOrden, TablasFirmes, CrucesDisjuntos
  <2>4. guardas[j].intento[g] \in EstadosIntentoLote
    BY <1>4, GuardaEnForma DEF GuardaSana
  <2> QED BY <2>1, <2>2, <2>3, <2>4 DEF EstadosIntentoLote
<1> QED BY <1>2, <1>4 DEF UnicoCae

\* A lote whose open operation is its owner's is run, and held back, by it alone
LEMMA DelDueno ==
    ASSUME InductivoOrden, NEW k, lote.estado = "procesando", lote.dueno = k,
           op[k].estado = "en_proceso"
    PROVE  /\ \A b \in Actores : EnCorrida(mem[b]) => K(b) = k
           /\ \A j \in DOMAIN guardas : Pendiente(guardas[j], grupo) => guardas[j].op = k
<1>1. \A x : DuenoEs(x, lote, op) => x = k
  BY DEF DuenoEs, EstadosCerrados
<1>2. \A b \in Actores : EnCorrida(mem[b]) => K(b) = k
  BY <1>1, Sabe DEF CorridaSana, LoteDeCorrida, K
<1>3. \A j \in DOMAIN guardas : Pendiente(guardas[j], grupo) => guardas[j].op = k
  BY <1>1 DEF InductivoOrden, TablasFirmes, GuardasFirmes, LoteRetenido
<1> QED BY <1>2, <1>3

\* The groups after linking what ARCA authorised
LEMMA VinculadosFirmes ==
    ASSUME InductivoLote, InductivoOrden
    PROVE  /\ \A g \in Grupos : \/ Vinculados[g] = grupo[g]
                                \/ /\ grupo[g] = "validado" /\ Vinculados[g] = "autorizado"
                                   /\ UnicoCae(g, guardas) /\ ~Intacto(g)
           /\ Con(Vinculados, "validado") \subseteq Con(grupo, "validado")
           /\ Con(Vinculados, "fallido") = Con(grupo, "fallido")
           /\ \A g \in Con(Vinculados, "autorizado") : UnicoCae(g, guardas)
           /\ Con(grupo, "autorizado") \subseteq Con(Vinculados, "autorizado")
<1>1. \A g \in Grupos : \/ Vinculados[g] = grupo[g]
                        \/ /\ grupo[g] = "validado" /\ Vinculados[g] = "autorizado"
                           /\ Respaldado(g)
  BY DEF Vinculados
<1>2. \A g : Respaldado(g) => UnicoCae(g, guardas) /\ ~Intacto(g)
  BY VinculadoUnico DEF Respaldado, Intacto
<1>3. \A g \in Con(grupo, "autorizado") : UnicoCae(g, guardas)
  BY DEF InductivoOrden, TablasFirmes, AutorizadosFirmes
<1> QED BY <1>1, <1>2, <1>3 DEF Con

\* What the decision on a stale lote may do
LEMMA CasosBloquear ==
    ASSUME BloquearFin, NEW k, k = mem[Worker].op, NEW v, v = Reclamada(k),
           NEW p, p = mem[Worker].preflight, NEW M, M = Intactos(Vinculados)
    PROVE  /\ mem[Worker].pc = "bloquear" /\ Fin(Worker, "final")
           /\ \/ UNCHANGED tablas
              \/ /\ lote.estado = "procesando" /\ ~HayGuardaActivaDe(k) /\ guardas' = guardas
                 /\ \/ /\ EstadoLote(Vinculados) \in Cerrados /\ grupo' = Vinculados
                       /\ lote' = [lote EXCEPT !.estado = EstadoLote(Vinculados),
                                               !.vieja = FALSE]
                       /\ IF v THEN ResponderOperacion(k, "finalizado", "final")
                          ELSE op' = op
                    \/ /\ v /\ p = "ok" /\ M = mem[Worker].mat /\ grupo' = Vinculados
                       /\ lote' = [lote EXCEPT !.estado = "en_cola", !.async = TRUE,
                                               !.vieja = FALSE]
                       /\ op' = op
                    \/ \E R : /\ v \/ R = Con(Vinculados, "validado")
                              /\ R \subseteq Con(Vinculados, "validado")
                              /\ grupo' = [g \in Grupos |-> IF g \in R
                                              THEN "requiere_reconciliacion" ELSE Vinculados[g]]
                              /\ lote' = [lote EXCEPT !.estado = "requiere_reconciliacion",
                                                      !.vieja = FALSE]
                              /\ IF v THEN ResponderOperacion(k, "requiere_reconciliacion",
                                                              "final")
                                 ELSE op' = op
<1> DEFINE gr == Vinculados
           mismos == M = mem[Worker].mat
           V == Con(gr, "validado")
           R == IF v /\ p # "error" /\ mismos THEN V \ M ELSE V
           publica(e) == IF v THEN ResponderOperacion(k, e, "final") ELSE UNCHANGED op
           C == ~Stale \/ HayGuardaActivaDe(k)
           D == Stale /\ ~HayGuardaActivaDe(k) /\ EstadoLote(gr) \in Cerrados /\ Coherente(gr)
           PC == UNCHANGED tablas
           PD == /\ grupo' = gr
                 /\ lote' = [lote EXCEPT !.estado = EstadoLote(gr), !.vieja = FALSE]
                 /\ publica("finalizado") /\ UNCHANGED guardas
           PO == IF v /\ p = "ok" /\ mismos
                 THEN /\ grupo' = gr
                      /\ lote' = [lote EXCEPT !.estado = "en_cola", !.async = TRUE,
                                              !.vieja = FALSE]
                      /\ UNCHANGED <<op, guardas>>
                 ELSE /\ grupo' = [g \in Grupos |-> IF g \in R
                                    THEN "requiere_reconciliacion" ELSE gr[g]]
                      /\ lote' = [lote EXCEPT !.estado = "requiere_reconciliacion",
                                              !.vieja = FALSE]
                      /\ publica("requiere_reconciliacion") /\ UNCHANGED guardas
<1>1. /\ mem[Worker].pc = "bloquear" /\ Fin(Worker, "final")
      /\ (CASE C -> PC [] D -> PD [] OTHER -> PO)
  BY DEF BloquearFin, En
<1>2. PC \/ (D /\ PD) \/ (PO /\ ~C)
  <2>1. /\ C \in BOOLEAN /\ D \in BOOLEAN /\ PC \in BOOLEAN /\ PD \in BOOLEAN
        /\ PO \in BOOLEAN
    BY DEF Stale, HayGuardaActivaDe, Reclamada
  <2>2. ~(C /\ D)
    OBVIOUS
  <2> HIDE DEF C, D, PC, PD, PO
  <2>3. C /\ ~D => PC
    BY <1>1, <2>1
  <2>4. ~C /\ D => PD
    BY <1>1, <2>1
  <2>5. ~C /\ ~D => PO
    BY <1>1, <2>1
  <2> QED BY <2>1, <2>2, <2>3, <2>4, <2>5
<1>3. ~C \/ D => lote.estado = "procesando" /\ ~HayGuardaActivaDe(k)
  BY DEF Stale
<1>4. R \subseteq V /\ (v \/ R = V)
  OBVIOUS
<1> HIDE DEF gr, R, V, C
<1> QED BY <1>1, <1>2, <1>3, <1>4 DEF gr, V

\* A closed lote has no group to emit
LEMMA CerradosSinValidados ==
    ASSUME NEW gr, EstadoLote(gr) \in Cerrados
    PROVE  Con(gr, "validado") = {}
<1> DEFINE R == Con(gr, "requiere_reconciliacion")
           A == Con(gr, "autorizado")
           D == Con(gr, "descartado")
           V == Con(gr, "validado")
<1>1. V \cap A = {} /\ V \cap D = {} /\ V \subseteq Grupos
  BY DEF Con
<1> HIDE DEF R, A, D, V
<1>2. EstadoLote(gr) =
        CASE R # {} -> "requiere_reconciliacion"
          [] A = Grupos -> "completado"
          [] A \cup D = Grupos -> "cerrado_con_descartes"
          [] A # {} -> "autorizado_parcial"
          [] V # {} -> "validado"
          [] OTHER -> "fallido"
  BY DEF EstadoLote, R, A, D, V
<1>3. EstadoLote(gr) = "completado" \/ EstadoLote(gr) = "cerrado_con_descartes"
  BY DEF Cerrados
<1>4. A = Grupos \/ A \cup D = Grupos
  <2>1. EstadoLote(gr) = "completado" => A = Grupos
    BY <1>2
  <2>2. EstadoLote(gr) = "cerrado_con_descartes" => A \cup D = Grupos
    BY <1>2
  <2> QED BY <1>3, <2>1, <2>2
<1> QED BY <1>1, <1>4 DEF V

\* What the worker does with the lote it locked: process it, queue it again, or stop
LEMMA OrdenBloquearFin ==
    ASSUME InductivoLote, InductivoLote', InductivoOrden, BloquearFin
    PROVE  InductivoOrden'
<1> USE WorkerEsActor
<1> DEFINE a == Worker
           k == mem[Worker].op
           v == Reclamada(k)
           p == mem[Worker].preflight
           M == Intactos(Vinculados)
           gr == Vinculados
           e == EstadoLote(gr)
<1>1. /\ mem[Worker].pc = "bloquear" /\ Fin(Worker, "final")
      /\ \/ UNCHANGED tablas
         \/ /\ lote.estado = "procesando" /\ ~HayGuardaActivaDe(k) /\ guardas' = guardas
            /\ \/ /\ e \in Cerrados /\ grupo' = gr
                  /\ lote' = [lote EXCEPT !.estado = e, !.vieja = FALSE]
                  /\ IF v THEN ResponderOperacion(k, "finalizado", "final") ELSE op' = op
               \/ /\ v /\ p = "ok" /\ M = mem[Worker].mat /\ grupo' = gr
                  /\ lote' = [lote EXCEPT !.estado = "en_cola", !.async = TRUE,
                                          !.vieja = FALSE]
                  /\ op' = op
               \/ \E R : /\ v \/ R = Con(gr, "validado")
                         /\ R \subseteq Con(gr, "validado")
                         /\ grupo' = [g \in Grupos |-> IF g \in R
                                         THEN "requiere_reconciliacion" ELSE gr[g]]
                         /\ lote' = [lote EXCEPT !.estado = "requiere_reconciliacion",
                                                 !.vieja = FALSE]
                         /\ IF v THEN ResponderOperacion(k, "requiere_reconciliacion", "final")
                            ELSE op' = op
  <2> HIDE DEF k, v, p, M
  <2>1. k = mem[Worker].op /\ v = Reclamada(k) /\ p = mem[Worker].preflight
        /\ M = Intactos(Vinculados)
    BY DEF k, v, p, M
  <2> QED BY <2>1, CasosBloquear
<1>2. CASE UNCHANGED tablas
  BY <1>1, <1>2, SoloTerminaOrden
<1> SUFFICES ASSUME lote.estado = "procesando", ~HayGuardaActivaDe(k), guardas' = guardas
             PROVE  InductivoOrden'
  BY <1>1, <1>2
<1>3. lote \in FilasLote /\ op \in [Claves -> FilasOperacion] /\ lote.dueno \in Claves
      /\ grupo' \in [Grupos -> EstadosGrupo]
  BY DEF InductivoLote, FilasEnForma, ColaConDueno, Activos
<1>4. v => k \in Claves /\ lote.dueno = k /\ op[k].estado = "en_proceso" /\ op[k].resp = "progreso"
  BY <1>3 DEF Reclamada, Conserva, ProgresoValido
<1>5. v => /\ \A b \in Actores : ~EnCorrida(mem[b])
           /\ \A j \in DOMAIN guardas : Pendiente(guardas[j], grupo) => guardas[j].op = k
  <2> SUFFICES ASSUME v
               PROVE  /\ \A b \in Actores : ~EnCorrida(mem[b])
                      /\ \A j \in DOMAIN guardas : Pendiente(guardas[j], grupo) => guardas[j].op = k
    OBVIOUS
  <2> HIDE DEF v, k
  <2>1. /\ \A b \in Actores : EnCorrida(mem[b]) => K(b) = k
        /\ \A j \in DOMAIN guardas : Pendiente(guardas[j], grupo) => guardas[j].op = k
    BY <1>4, DelDueno
  <2>2. ~EnCorrida(mem[Worker])
    BY <1>1 DEF EnCorrida, PasosDeCorrida
  <2>3. ASSUME NEW b \in Actores, EnCorrida(mem[b])
        PROVE  FALSE
    <3>1. b # Worker /\ EnObra(mem[b]) /\ K(b) = k
      BY <2>1, <2>2, <2>3 DEF EnObra
    <3>2. ConClave(op[K(b)])
      BY <3>1, Sabe
    <3> QED BY <1>4, <3>1, <3>2 DEF ConClave
  <2> QED BY <2>1, <2>3
<1>6. /\ \A g \in Grupos : \/ gr[g] = grupo[g]
                           \/ /\ grupo[g] = "validado" /\ gr[g] = "autorizado"
                              /\ UnicoCae(g, guardas) /\ ~Intacto(g)
      /\ Con(gr, "validado") \subseteq Con(grupo, "validado")
      /\ Con(gr, "fallido") = Con(grupo, "fallido")
      /\ \A g \in Con(gr, "autorizado") : UnicoCae(g, guardas)
  BY VinculadosFirmes
<1>7. ASSUME NEW x \in EstadosCerrados,
             IF v THEN ResponderOperacion(k, x, "final") ELSE op' = op
      PROVE  CierresFirmes /\ ClavesSalvo(a)
  <2>1. CASE v
    <3> HIDE DEF v, k
    <3> QED BY <1>4, <1>7, <2>1, OperacionCierra DEF EstadosCerrados
  <2>2. CASE ~v
    BY <1>7, <2>2, ClavesQuietas DEF CierresFirmes
  <2> QED BY <2>1, <2>2
<1>8. CASE /\ e \in Cerrados /\ grupo' = gr
           /\ lote' = [lote EXCEPT !.estado = e, !.vieja = FALSE]
           /\ IF v THEN ResponderOperacion(k, "finalizado", "final") ELSE op' = op
  <2>1. CierresFirmes /\ ClavesSalvo(a)
    BY <1>7, <1>8 DEF EstadosCerrados
  <2>2. Con(gr, "validado") = {} /\ (e = "completado" => Con(gr, "autorizado") = Grupos)
    BY <1>8, CerradosSinValidados, CompletadoPorGrupos
  <2> HIDE DEF e, gr
  <2>3. lote'.estado = e /\ lote'.dueno = lote.dueno /\ lote'.material = lote.material
    BY <1>3, <1>8 DEF FilasLote, Cerrados, EstadosLote, Terminales
  <2>4. TablasCalmas
    BY <1>6, <1>8, <2>1, <2>2, <2>3 DEF TablasCalmas, LoteCalmo, ValidadosBajan, Cerrados
  <2>5. RestoFirme
    BY <1>6, <1>8, <2>2, <2>3
       DEF RestoFirme, AutorizadosFirmes, InductivoOrden, TablasFirmes, DuenoConMaterial
  <2> QED BY <1>1, <2>1, <2>4, <2>5, FinEnCalma
<1>9. CASE /\ v /\ p = "ok" /\ M = mem[Worker].mat /\ grupo' = gr
           /\ lote' = [lote EXCEPT !.estado = "en_cola", !.async = TRUE, !.vieja = FALSE]
           /\ op' = op
  <2>1. Con(grupo, "validado") \subseteq M
    BY <1>1, <1>9, Sabe DEF Prevision
  <2>2. \A g \in Con(grupo, "validado") : Intacto(g)
    BY <2>1 DEF Intactos
  <2> HIDE DEF gr, v, M, k, p
  <2>3. ValidadosBajan /\ Con(grupo', "fallido") \subseteq Con(grupo, "fallido")
        /\ Con(grupo', "autorizado") = Con(grupo, "autorizado")
    BY <1>6, <1>9, <2>2 DEF ValidadosBajan, Con
  <2>4. \A j \in DOMAIN guardas : ~Pendiente(guardas[j], grupo)
    <3> SUFFICES ASSUME NEW j \in DOMAIN guardas, Pendiente(guardas[j], grupo) PROVE FALSE
      OBVIOUS
    <3>1. guardas[j].op = k
      BY <1>5, <1>9
    <3>2. guardas[j].fase \notin FasesActivas
      BY <3>1 DEF HayGuardaActivaDe, GuardasDe, Activa
    <3>3. PICK g \in Con(grupo, "validado") : g \in guardas[j].grupos
      BY <3>2 DEF Pendiente
    <3> QED BY <2>2, <3>3 DEF Intacto, GuardasConGrupo
  <2>5. GuardasFirmes' /\ CrucesDisjuntos'
    BY <1>3, <2>3, <2>4, GuardasSueltas
  <2>6. lote'.estado = "en_cola" /\ lote'.dueno = lote.dueno /\ lote'.material = lote.material
    BY <1>3, <1>9 DEF FilasLote
  <2>7. RestoFirme
    BY <2>3, <2>6
       DEF RestoFirme, AutorizadosFirmes, InductivoOrden, TablasFirmes, DuenoConMaterial
  <2>8. ClavesSalvo(a)
    BY <1>9, ClavesQuietas
  <2> QED BY <1>1, <1>5, <1>9, <2>3, <2>5, <2>7, <2>8, Suelta
<1>10. CASE \E R : /\ v \/ R = Con(gr, "validado")
                   /\ R \subseteq Con(gr, "validado")
                   /\ grupo' = [g \in Grupos |-> IF g \in R
                                   THEN "requiere_reconciliacion" ELSE gr[g]]
                   /\ lote' = [lote EXCEPT !.estado = "requiere_reconciliacion",
                                           !.vieja = FALSE]
                   /\ IF v THEN ResponderOperacion(k, "requiere_reconciliacion", "final")
                      ELSE op' = op
  <2>1. PICK R : /\ v \/ R = Con(gr, "validado")
                 /\ R \subseteq Con(gr, "validado")
                 /\ grupo' = [g \in Grupos |-> IF g \in R
                                 THEN "requiere_reconciliacion" ELSE gr[g]]
    BY <1>10
  <2>2. CierresFirmes /\ ClavesSalvo(a)
    BY <1>7, <1>10 DEF EstadosCerrados
  <2>3. /\ lote'.estado = "requiere_reconciliacion" /\ lote'.dueno = lote.dueno
        /\ lote'.material = lote.material
    BY <1>3, <1>10 DEF FilasLote
  <2> HIDE DEF gr, v, k
  <2>4. ValidadosBajan /\ Con(grupo', "fallido") \subseteq Con(grupo, "fallido")
        /\ Con(grupo', "autorizado") = Con(gr, "autorizado")
    BY <1>6, <2>1 DEF ValidadosBajan, Con
  <2>5. RestoFirme
    BY <1>6, <2>3, <2>4
       DEF RestoFirme, AutorizadosFirmes, InductivoOrden, TablasFirmes, DuenoConMaterial
  <2>6. GuardasFirmes' /\ CrucesDisjuntos'
    BY <1>3, <2>3, <2>4, RetenidoFacil, GuardasRetenidas
  <2>7. CASE v
    BY <1>1, <1>5, <2>2, <2>4, <2>5, <2>6, <2>7, Suelta
  <2>8. CASE ~v
    <3>1. Con(grupo', "validado") = {}
      BY <2>1, <2>8 DEF Con
    <3>2. TablasCalmas
      BY <2>2, <2>3, <2>4, <3>1 DEF TablasCalmas, LoteCalmo
    <3> QED BY <1>1, <2>2, <2>5, <3>2, FinEnCalma
  <2> QED BY <2>7, <2>8
<1> HIDE DEF k, v, p, M, gr, e
<1> QED BY <1>1, <1>2, <1>8, <1>9, <1>10

\* What the recovery of the worker may do
LEMMA CasosRecuperarWorker ==
    ASSUME InductivoLote, RecuperarWorker, NEW k, k = lote.dueno,
           NEW i, i = mem[Worker].guarda, NEW r, r = ResultadoGuarda(k, i, "nula")
    PROVE  /\ mem[Worker].pc = "recuperar" /\ Fin(Worker, "error")
           /\ \/ UNCHANGED tablas
              \/ /\ i = 0 /\ GuardasDe(k) = {} /\ lote.estado \in Activos
                 /\ Reencolar /\ UNCHANGED <<grupo, op, guardas>>
              \/ /\ i > 0 /\ op[k].estado = "en_proceso" /\ r \in {"ambigua", "reconciliacion"}
                 /\ guardas' = GuardaRecuperada(i, r)
                 /\ ResponderOperacion(k, "requiere_reconciliacion", "nula")
                 /\ Inmovilizar(guardas[i].grupos)
              \/ /\ i > 0 /\ op[k].estado = "en_proceso" /\ r = "recuperada"
                 /\ lote.estado \in Activos /\ guardas[i].grupos \subseteq Con(grupo, "validado")
                 /\ Reencolar /\ guardas' = GuardaRecuperada(i, r) /\ UNCHANGED <<grupo, op>>
<1> USE WorkerEsActor
<1> DEFINE propia == i > 0 /\ op[k].estado = "en_proceso" /\ ProgresoValido(k, lote.material)
           A == i = 0 /\ GuardasDe(k) = {} /\ lote.estado \in Activos
           B == propia /\ r \in {"ambigua", "reconciliacion"}
           C == /\ propia /\ r = "recuperada" /\ lote.estado \in Activos
                /\ guardas[i].grupos \subseteq Con(grupo, "validado")
           PA == Reencolar /\ UNCHANGED <<grupo, op, guardas>>
           PB == /\ guardas' = GuardaRecuperada(i, r)
                 /\ ResponderOperacion(k, "requiere_reconciliacion", "nula")
                 /\ Inmovilizar(guardas[i].grupos)
           PC == Reencolar /\ guardas' = GuardaRecuperada(i, r) /\ UNCHANGED <<grupo, op>>
           PO == UNCHANGED tablas
<1>1. mem[Worker].pc = "recuperar" /\ Fin(Worker, "error")
  BY DEF RecuperarWorker, En
<1>2. (CASE A -> PA [] B -> PB [] C -> PC [] OTHER -> PO)
  BY DEF RecuperarWorker
<1>3. /\ A \in BOOLEAN /\ B \in BOOLEAN /\ C \in BOOLEAN
      /\ PA \in BOOLEAN /\ PB \in BOOLEAN /\ PC \in BOOLEAN /\ PO \in BOOLEAN
  BY DEF Reencolar
<1>4. i \in Int
  BY Consta DEF Memorias
<1>5. ~(A /\ B) /\ ~(A /\ C) /\ ~(B /\ C)
  BY <1>4
<1>6. PO \/ (A /\ PA) \/ (B /\ PB) \/ (C /\ PC)
  <2> HIDE DEF A, B, C, PA, PB, PC, PO
  <2>1. ~A /\ ~B /\ ~C => PO
    BY <1>2, <1>3
  <2>2. A /\ ~B /\ ~C => PA
    BY <1>2, <1>3
  <2>3. ~A /\ B /\ ~C => PB
    BY <1>2, <1>3
  <2>4. ~A /\ ~B /\ C => PC
    BY <1>2, <1>3
  <2> QED BY <1>3, <1>5, <2>1, <2>2, <2>3, <2>4
<1> QED BY <1>1, <1>6

\* The worker recovers: with its guard, or the lote of its operation
LEMMA OrdenRecuperarWorker ==
    ASSUME InductivoLote, InductivoLote', InductivoOrden, Ordenado, RecuperarWorker
    PROVE  InductivoOrden'
<1> USE WorkerEsActor
<1> DEFINE a == Worker
           k == lote.dueno
           i == mem[Worker].guarda
           z == "nula"
           r == ResultadoGuarda(k, i, z)
<1>1. /\ mem[Worker].pc = "recuperar" /\ Fin(Worker, "error")
      /\ \/ UNCHANGED tablas
         \/ /\ i = 0 /\ GuardasDe(k) = {} /\ lote.estado \in Activos
            /\ Reencolar /\ UNCHANGED <<grupo, op, guardas>>
         \/ /\ i > 0 /\ op[k].estado = "en_proceso" /\ r \in {"ambigua", "reconciliacion"}
            /\ guardas' = GuardaRecuperada(i, r)
            /\ ResponderOperacion(k, "requiere_reconciliacion", "nula")
            /\ Inmovilizar(guardas[i].grupos)
         \/ /\ i > 0 /\ op[k].estado = "en_proceso" /\ r = "recuperada"
            /\ lote.estado \in Activos /\ guardas[i].grupos \subseteq Con(grupo, "validado")
            /\ Reencolar /\ guardas' = GuardaRecuperada(i, r) /\ UNCHANGED <<grupo, op>>
  <2>1. r = ResultadoGuarda(k, i, "nula")
    OBVIOUS
  <2> HIDE DEF r
  <2> QED BY <2>1, CasosRecuperarWorker
<1>2. k \in Claves /\ lote \in FilasLote /\ op \in [Claves -> FilasOperacion]
  BY <1>1, Consta DEF MemoriaDe
<1>3. i > 0 => EnCorrida(mem[a])
  BY <1>1 DEF EnCorrida
<1>4. CASE UNCHANGED tablas
  BY <1>1, <1>4, SoloTerminaOrden
<1>5. Reencolar => /\ lote'.estado = "en_cola" /\ lote'.dueno = lote.dueno
                   /\ lote'.material = lote.material
  BY <1>2 DEF Reencolar, FilasLote
<1>6. CASE /\ i = 0 /\ GuardasDe(k) = {} /\ lote.estado \in Activos
           /\ Reencolar /\ UNCHANGED <<grupo, op, guardas>>
  <2>1. CierresFirmes /\ ClavesSalvo(a)
    BY <1>6, ClavesQuietas DEF CierresFirmes
  <2>2. CASE lote.estado = "en_cola"
    <3>1. TablasCalmas /\ RestoFirme
      BY <1>5, <1>6, <2>1, <2>2, CalmaConLote
         DEF InductivoOrden, TablasFirmes, DuenoConMaterial
    <3> QED BY <1>1, <2>1, <3>1, FinEnCalma
  <2>3. CASE lote.estado = "procesando"
    <3>1. lote' # lote
      BY <1>5, <1>6, <2>3
    <3>2. SueltaLoSuyo(a)
      BY <1>6, <3>1 DEF Ordenado, SueltaPropia
    <3>3. k = K(a) /\ op[k].estado = "en_proceso"
      BY <2>3, <3>1, <3>2 DEF SueltaLoSuyo
    <3>4. /\ \A b \in Actores : EnCorrida(mem[b]) => K(b) = k
          /\ \A j \in DOMAIN guardas : Pendiente(guardas[j], grupo) => guardas[j].op = k
      <4>1. k = lote.dueno
        OBVIOUS
      <4> HIDE DEF k
      <4> QED BY <2>3, <3>3, <4>1, DelDueno
    <3>5. \A b \in Actores : b # a => ~EnCorrida(mem[b])
      BY <3>2, <3>3, <3>4 DEF SueltaLoSuyo, EnObra
    <3>6. \A j \in DOMAIN guardas : ~Pendiente(guardas[j], grupo)
      BY <1>6, <3>4 DEF GuardasDe
    <3>7. ValidadosBajan /\ Con(grupo', "fallido") \subseteq Con(grupo, "fallido")
          /\ grupo' \in [Grupos -> EstadosGrupo]
      BY <1>6 DEF ValidadosBajan, InductivoLote, FilasEnForma
    <3>8. GuardasFirmes' /\ CrucesDisjuntos'
      BY <1>6, <3>6, <3>7, GuardasSueltas
    <3>9. RestoFirme
      BY <1>5, <1>6
         DEF RestoFirme, InductivoOrden, TablasFirmes, AutorizadosFirmes, DuenoConMaterial
    <3> QED BY <1>1, <2>1, <3>5, <3>7, <3>8, <3>9, Suelta
  <2> QED BY <1>6, <2>2, <2>3 DEF Activos
<1>7. CASE /\ i > 0 /\ op[k].estado = "en_proceso" /\ r \in {"ambigua", "reconciliacion"}
           /\ guardas' = GuardaRecuperada(i, r)
           /\ ResponderOperacion(k, "requiere_reconciliacion", "nula")
           /\ Inmovilizar(guardas[i].grupos)
  <2>1. TablasFirmes' /\ ValidadosBajan
    <3> HIDE DEF i, k, z
    <3> QED BY <1>7, DudaFirme
  <2>2. ClavesSalvo(a)
    <3> HIDE DEF k
    <3> QED BY <1>2, <1>7, OperacionCierra DEF EstadosCerrados
  <2> QED BY <1>1, <1>3, <1>7, <2>1, <2>2, FinDeCorrida
<1>8. CASE /\ i > 0 /\ op[k].estado = "en_proceso" /\ r = "recuperada"
           /\ lote.estado \in Activos /\ guardas[i].grupos \subseteq Con(grupo, "validado")
           /\ Reencolar /\ guardas' = GuardaRecuperada(i, r) /\ UNCHANGED <<grupo, op>>
  <2>1. lote.estado = "procesando"
    BY <1>3, <1>8, Sabe DEF CorridaSana, LoteDeCorrida, Activos
  <2>2. \A j \in DOMAIN guardas : Pendiente(guardas[j], grupo) => guardas[j].op = k
    <3>1. k = lote.dueno
      OBVIOUS
    <3> HIDE DEF k
    <3> QED BY <1>8, <2>1, <3>1, DelDueno
  <2>3. TablasFirmes' /\ ValidadosBajan
    <3>1. ResultadoGuarda(k, i, z) = "recuperada"
          /\ guardas' = GuardaRecuperada(i, "recuperada") /\ grupo' = grupo
          /\ lote'.estado \in {"en_cola", "validado"}
      BY <1>5, <1>8
    <3> HIDE DEF i, k, r, z
    <3> QED BY <1>5, <1>8, <2>2, <3>1, RecuperadaFirme
  <2>4. ClavesSalvo(a)
    BY <1>8, ClavesQuietas
  <2> QED BY <1>1, <1>3, <1>8, <2>3, <2>4, FinDeCorrida
<1> HIDE DEF k, i, r
<1> QED BY <1>1, <1>4, <1>6, <1>7, <1>8

\* Every step of the worker
LEMMA WorkerEnOrden ==
    ASSUME InductivoLote, InductivoLote', InductivoOrden, Ordenado, PasoWorker
    PROVE  InductivoOrden'
<1>1. CASE PasoCorrida(Worker)
  <2> DEFINE a == Worker
  <2>1. a \in Actores /\ PasoCorrida(a)
    BY <1>1, WorkerEsActor
  <2> HIDE DEF a
  <2> QED BY <2>1, CorridaEnOrden
<1>2. CASE RecuperarWorkerSinBase
  BY <1>2, WorkerEsActor, SoloTerminaOrden DEF RecuperarWorkerSinBase
<1> QED BY <1>1, <1>2, OrdenListar, OrdenLeerEnCola, OrdenBloquearInicio, OrdenBloquearFin,
           OrdenRecuperarWorker DEF PasoWorker

----------------------------------------------------------------------------
(* ARCA, restarts and time.                                                 *)

\* Nobody moves and nobody notices
LEMMA QuietoEnCalma ==
    ASSUME InductivoLote, InductivoLote', InductivoOrden, mem' = mem, op' = op,
           TablasCalmas, RestoFirme
    PROVE  InductivoOrden'
<1> DEFINE a == Worker
<1>1. a \in Actores
  BY WorkerEsActor
<1> HIDE DEF a
<1>2. ClavesSalvo(a) /\ (a # Worker /\ EnObra(mem[a]) => ConClave(op'[K(a)]))
  BY <1>1, ClavesQuietas
<1>3. SoloMueve(a)
  BY DEF SoloMueve
<1>4. EnCorrida(mem[a]) => CorridaSana(mem[a], lote', grupo', op', guardas')
  BY <1>1, Sabe, CorridaCalma
<1>5. ValidadosBajan
  BY DEF TablasCalmas, LoteCalmo
<1>6. ActorSano(a, mem[a], lote', grupo', op', guardas')
  BY <1>1, <1>2, <1>4, <1>5, OtroSano, SolicitudNoEsWorker
<1> QED BY <1>1, <1>2, <1>3, <1>6, AvanzaEnCalma

\* An answer of ARCA: nobody was told of it before
LEMMA OrdenArca ==
    ASSUME InductivoLote, InductivoLote', InductivoOrden, NEW i \in DOMAIN guardas,
           ArcaProcesa(i)
    PROVE  InductivoOrden'
<1>1. guardas[i].arca = "en_vuelo" /\ UNCHANGED <<lote, grupo, op>> /\ mem' = mem
  BY DEF ArcaProcesa
<1>2. /\ guardas[i] \in FilasGuarda /\ guardas[i].fase \in FasesCruzadas
      /\ guardas \in Seq(FilasGuarda) /\ grupo' \in [Grupos -> EstadosGrupo]
  BY <1>1, GuardaEnForma DEF GuardaSana, InductivoLote, FilasEnForma
<1>3. /\ UnaCambia(i) /\ guardas'[i].fase = guardas[i].fase /\ guardas'[i].op = guardas[i].op
      /\ guardas'[i].intento = guardas[i].intento /\ guardas'[i].arca # "en_vuelo"
  <2>1. CASE \E s \in SUBSET guardas[i].grupos :
                guardas' = [guardas EXCEPT ![i].arca = "procesada", ![i].aut = s]
    BY <1>2, <2>1 DEF UnaCambia, FilasGuarda
  <2>2. CASE guardas' = [guardas EXCEPT ![i].arca = "rechazo_global"]
    BY <1>2, <2>2 DEF UnaCambia, FilasGuarda
  <2> QED BY <2>1, <2>2 DEF ArcaProcesa
<1>4. TablasFirmes'
  <2>1. \A j \in DOMAIN guardas : LoteRetenido(guardas[j], lote', grupo', op')
    BY <1>1 DEF InductivoOrden, TablasFirmes, GuardasFirmes
  <2>2. LoteRetenido(guardas'[i], lote', grupo', op')
    BY <1>3, <2>1 DEF LoteRetenido, Pendiente, UnaCambia
  <2>3. ASSUME NEW g \in guardas[i].grupos
        PROVE  IntentoFirme(guardas'[i], g, grupo')
    <3>1. IntentoFirme(guardas[i], g, grupo)
      BY DEF InductivoOrden, TablasFirmes, GuardasFirmes
    <3>2. grupo'[g] # "fallido"
      BY <1>1, <3>1 DEF IntentoFirme
    <3>3. guardas[i].intento[g] # "autorizado"
      BY <1>2, <3>1 DEF IntentoFirme, FasesCruzadas
    <3> QED BY <1>1, <1>3, <3>1, <3>2, <3>3 DEF IntentoFirme
  <2>4. \A g \in Con(grupo', "fallido") \ Con(grupo, "fallido") : \A j \in DOMAIN guardas :
              j # i /\ g \in guardas[j].grupos =>
                 g \notin guardas[j].aut /\ guardas[j].arca # "en_vuelo"
    BY <1>1
  <2>5. Cruzo(guardas[i]) /\ ValidadosBajan
    BY <1>1, <1>2 DEF Cruzo, FasesPrevias, FasesCruzadas, ValidadosBajan
  <2>6. GuardasFirmes' /\ CrucesDisjuntos'
    BY <1>2, <1>3, <2>1, <2>2, <2>3, <2>4, <2>5, UnaGuardaFirme
  <2>7. AutorizadosFirmes' /\ DuenoConMaterial'
    BY <1>1, <1>3, AutorizadosSiguen
  <2> QED BY <2>6, <2>7 DEF TablasFirmes
<1>5. ASSUME NEW m, CorridaSana(m, lote, grupo, op, guardas),
             \/ m.guarda \in DOMAIN guardas
             \/ /\ m.pc \notin {"marcar", "solicitar", "esperar"}
                /\ m.pc = "aplicar" => m.cierre = "nada"
      PROVE  CorridaSana(m, lote', grupo', op', guardas')
  <2>1. LoteDeCorrida(m, lote', grupo', op')
    BY <1>1, <1>5 DEF CorridaSana
  <2>2. \A j \in DOMAIN guardas :
           /\ guardas'[j].grupos = guardas[j].grupos /\ guardas'[j].op = guardas[j].op
           /\ guardas'[j].intento = guardas[j].intento /\ guardas'[j].fase = guardas[j].fase
    BY <1>3 DEF UnaCambia
  <2>3. DOMAIN guardas' = DOMAIN guardas
    BY <1>3 DEF UnaCambia
  <2>4. GruposDeCorrida(m, grupo', guardas')
    BY <1>1, <1>5, <2>2 DEF CorridaSana, GruposDeCorrida
  <2>5. AplicacionSana(m, guardas')
    <3>1. m.pc = "aplicar" /\ m.cierre # "nada" => guardas'[m.guarda].grupos = m.sub
      BY <1>5, <2>2 DEF CorridaSana, AplicacionSana
    <3> QED BY <1>5, <2>2, <2>3, <3>1 DEF CorridaSana, AplicacionSana
  <2>6. ASSUME NEW j \in DOMAIN guardas'
        PROVE  Respetada(m, j, guardas'[j], lote', grupo')
    <3>1. j \in DOMAIN guardas /\ Respetada(m, j, guardas[j], lote, grupo)
      BY <1>5, <2>3, <2>6 DEF CorridaSana
    <3>2. Pendiente(guardas'[j], grupo') => Pendiente(guardas[j], grupo)
      BY <1>1, <2>2, <3>1 DEF Pendiente
    <3>3. CASE j # i
      BY <1>1, <1>3, <3>1, <3>3 DEF UnaCambia
    <3>4. CASE j = i
      BY <1>1, <1>3, <2>2, <3>1, <3>2, <3>4 DEF Respetada
    <3> QED BY <3>3, <3>4
  <2> QED BY <2>1, <2>4, <2>5, <2>6 DEF CorridaSana
<1>6. ASSUME NEW b \in Actores
      PROVE  ActorSano(b, mem[b], lote', grupo', op', guardas')
  <2>1. \/ mem[b].pc \in {"marcar", "solicitar", "esperar"}
        \/ mem[b].pc = "aplicar" /\ mem[b].cierre # "nada"
        => mem[b].guarda \in DOMAIN guardas
    BY PropiaExiste DEF PorEnviar
  <2>2. EnCorrida(mem[b]) => CorridaSana(mem[b], lote', grupo', op', guardas')
    BY <1>5, <2>1, Sabe
  <2>3. ValidadosBajan /\ op' = op
    BY <1>1 DEF ValidadosBajan
  <2>4. b \in Solicitudes /\ EnObra(mem[b]) => ConClave(op'[K(b)])
    BY <2>3, Sabe, SolicitudNoEsWorker
  <2> QED BY <2>2, <2>3, <2>4, OtroSano
<1>7. ActoresSanos' /\ SolaCorrida' /\ ClaveDeUno'
  BY <1>1, <1>6 DEF ActoresSanos, InductivoOrden, SolaCorrida, ClaveDeUno, K
<1> QED BY <1>4, <1>7 DEF InductivoOrden

\* A restart: nobody has anything in hand
LEMMA OrdenCaida ==
    ASSUME InductivoLote, InductivoLote', InductivoOrden, Caida
    PROVE  InductivoOrden'
<1> DEFINE n(a) == IF a = Worker \/ mem[a].pc = "inicio" THEN Inicial("inicio")
                   ELSE IF mem[a].pc = "fin" THEN mem[a]
                   ELSE [Inicial("fin") EXCEPT !.resp = "cortada"]
<1>1. UNCHANGED tablas /\ mem' = [a \in Actores |-> n(a)]
  BY DEF Caida
<1>2. TablasFirmes'
  BY <1>1, TablasFirmesIguales
<1>3. ASSUME NEW a \in Actores
      PROVE  /\ ~EnObra(mem'[a]) /\ ~EnCorrida(mem'[a])
             /\ ActorSano(a, mem'[a], lote', grupo', op', guardas')
  <2>1. mem'[a].pc \in {"inicio", "fin"} /\ mem'[a].guarda = 0 /\ mem'[a].chunk # 0
    <3>1. CASE mem'[a] = Inicial("inicio")
      BY <3>1 DEF Inicial
    <3>2. CASE mem'[a] = mem[a] /\ mem[a].pc = "fin"
      BY <3>2, Sabe DEF Prevision, SinGuarda
    <3>3. CASE mem'[a] = [Inicial("fin") EXCEPT !.resp = "cortada"]
      BY <3>3 DEF Inicial
    <3> QED BY <1>1, <3>1, <3>2, <3>3
  <2>2. ~EnObra(mem'[a]) /\ ~EnCorrida(mem'[a])
    BY <2>1 DEF EnObra, EnCorrida, AntesDeTomar, PasosDeCorrida
  <2> QED BY <2>1, <2>2 DEF ActorSano, Prevision
<1>4. ActoresSanos' /\ SolaCorrida'
  BY <1>3 DEF ActoresSanos, SolaCorrida
<1>5. ClaveDeUno'
  BY <1>3, SolicitudNoEsWorker DEF ClaveDeUno
<1> QED BY <1>2, <1>4, <1>5 DEF InductivoOrden

\* A lote grows old
LEMMA OrdenEnvejecer ==
    ASSUME InductivoLote, InductivoLote', InductivoOrden, Envejecer
    PROVE  InductivoOrden'
<1>1. /\ lote' = [lote EXCEPT !.vieja = TRUE] /\ UNCHANGED <<grupo, guardas>>
      /\ op' = op /\ mem' = mem
  BY DEF Envejecer
<1>2. lote'.estado = lote.estado /\ lote'.dueno = lote.dueno /\ lote'.material = lote.material
  BY <1>1 DEF InductivoLote, FilasEnForma, FilasLote
<1>3. TablasCalmas /\ RestoFirme
  BY <1>1, <1>2, CalmaConLote
     DEF CierresFirmes, InductivoOrden, TablasFirmes, DuenoConMaterial
<1> QED BY <1>1, <1>3, QuietoEnCalma

----------------------------------------------------------------------------
(* The theorems.                                                            *)

LEMMA InicioOrden == Init => InductivoOrden
<1> SUFFICES ASSUME Init PROVE InductivoOrden
  OBVIOUS
<1>1. /\ guardas = <<>> /\ DOMAIN guardas = {} /\ lote.estado = "validado" /\ lote.dueno = Nadie
      /\ Con(grupo, "autorizado") = {}
  BY DEF Init, LoteValidado, Con
<1>2. Nadie \notin Claves
  BY LoteAssumption
<1>3. TablasFirmes
  BY <1>1, <1>2 DEF TablasFirmes, GuardasFirmes, CrucesDisjuntos, AutorizadosFirmes,
                    DuenoConMaterial
<1>4. ASSUME NEW a \in Actores
      PROVE  ~EnObra(mem[a]) /\ ~EnCorrida(mem[a]) /\ Prevision(a, mem[a], grupo)
  <2>1. mem[a].pc = "inicio" /\ mem[a].guarda = 0 /\ mem[a].chunk = 1
    BY DEF Init, Inicial
  <2> QED BY <2>1 DEF EnObra, EnCorrida, AntesDeTomar, PasosDeCorrida, Prevision
<1>5. ActoresSanos /\ SolaCorrida
  BY <1>4 DEF ActoresSanos, ActorSano, SolaCorrida
<1>6. ClaveDeUno
  BY <1>4, SolicitudNoEsWorker DEF ClaveDeUno
<1> QED BY <1>3, <1>5, <1>6 DEF InductivoOrden

\* The invariant is inductive, next to InductivoLote
LEMMA PasoOrden ==
    InductivoLote /\ InductivoLote' /\ InductivoOrden /\ [Next]_vars /\ [Ordenado]_vars
        => InductivoOrden'
<1> SUFFICES ASSUME InductivoLote, InductivoLote', InductivoOrden, [Next]_vars, [Ordenado]_vars
             PROVE  InductivoOrden'
  OBVIOUS
<1>1. CASE UNCHANGED vars
  <2>1. UNCHANGED tablas /\ mem' = mem /\ op' = op
    BY <1>1 DEF vars, tablas
  <2> QED BY <2>1, TablasIguales, QuietoEnCalma
<1>2. CASE Ordenado /\ \E a \in Solicitudes : PasoSolicitud(a) \/ PasoCorrida(a)
  BY <1>2, SolicitudEnOrden, CorridaEnOrden, SolicitudNoEsWorker
<1>3. CASE Ordenado /\ PasoWorker
  BY <1>3, WorkerEnOrden
<1>4. CASE Entorno
  BY <1>4, OrdenArca, OrdenCaida, OrdenEnvejecer DEF Entorno
<1> QED BY <1>1, <1>2, <1>3, <1>4 DEF Next

\* What the invariant of order says of the four properties of LoteWorker.
LEMMA UnEnvioEnOrden ==
    InductivoLote /\ InductivoOrden => UnEnvioPorGrupo
<1> SUFFICES ASSUME InductivoLote, InductivoOrden PROVE UnEnvioPorGrupo
  OBVIOUS
<1>1. \A i \in DOMAIN guardas : Enviada(i) => Cruzo(guardas[i])
  BY DEF InductivoLote, GuardasSanas, GuardaSana, Enviada, Cruzo
<1> QED BY <1>1 DEF InductivoOrden, TablasFirmes, CrucesDisjuntos, UnEnvioPorGrupo

LEMMA FallidoEnOrden == InductivoOrden => FallidoSinCae
BY DEF InductivoOrden, TablasFirmes, GuardasFirmes, IntentoFirme, FallidoSinCae,
       GuardasConGrupo, Con

LEMMA CompletadoEnOrden == InductivoOrden => CompletadoVeraz
<1> SUFFICES ASSUME InductivoOrden, lote.estado = "completado", NEW g \in Grupos
             PROVE  \E i \in GuardasConGrupo(g) : g \in guardas[i].aut /\ Respaldado(g)
  BY DEF CompletadoVeraz
<1>1. UnicoCae(g, guardas)
  BY DEF InductivoOrden, TablasFirmes, AutorizadosFirmes
<1>2. PICK i \in DOMAIN guardas :
        /\ g \in guardas[i].grupos /\ guardas[i].intento[g] = "autorizado"
        /\ \A j \in DOMAIN guardas \ {i} :
              g \in guardas[j].grupos => guardas[j].intento[g] = "fallido_verificado"
  BY <1>1 DEF UnicoCae
<1>3. i \in GuardasConGrupo(g) /\ g \in guardas[i].aut
  BY <1>2 DEF GuardasConGrupo, InductivoOrden, TablasFirmes, GuardasFirmes, IntentoFirme
<1>4. EstadosIntento(g) \cap EstadosInciertos = {}
  BY <1>2 DEF EstadosIntento, EstadosInciertos, GuardasConGrupo
<1>5. {j \in GuardasConGrupo(g) : guardas[j].intento[g] = "autorizado"} = {i}
  BY <1>2, <1>3 DEF GuardasConGrupo
<1> QED BY <1>3, <1>4, <1>5 DEF Respaldado

LEMMA ColaEnOrden == TypeOK /\ InductivoOrden => ColaCoherente
BY DEF InductivoOrden, TablasFirmes, GuardasFirmes, LoteRetenido, ColaSinGuarda,
       HayGuardaActivaDe, GuardasDe, Activa, ColaCoherente

----------------------------------------------------------------------------
(* One client: there are no two requests under way, and then the checks     *)
(* would have passed.                                                       *)

\* With one key, what is said of an operation is said of every other
LEMMA LaClave ==
    ASSUME Turnos, NEW j \in Claves, NEW k \in Claves
    PROVE  j = k
BY DEF Turnos, ClaveUnica

\* A request under way has its key
LEMMA ClaveDeSolicitud ==
    ASSUME InductivoLote, NEW a \in Actores, mem[a].pc \notin SinClave,
           a # Worker \/ mem[a].pc # "en_curso"
    PROVE  K(a) \in Claves
BY Consta DEF MemoriaDe, K

\* While the worker has the lote, or the lote waits for it, no request works on it
LEMMA WorkerSinCompania ==
    ASSUME InductivoLote, InductivoOrden, Turnos, NEW a \in Solicitudes, EnObra(mem[a])
    PROVE  ~EnCurso
<1>1. a \in Actores /\ a # Worker
  BY SolicitudNoEsWorker
<1>2. ConClave(op[K(a)]) /\ K(a) \in Claves
  BY <1>1, Sabe, ClaveDeObra DEF K
<1> QED BY <1>2 DEF Turnos, ConMarca, ConClave

\* The worker at work has the lote in the state that says so
LEMMA EnCursoActivo ==
    ASSUME Turnos, EnCurso
    PROVE  lote.estado \in Activos
BY DEF Turnos, LoteDelWorker, EnCurso, Activos

\* An actor that gives up its step
LEMMA SaleForma ==
    ASSUME InductivoLote, NEW a \in Actores,
           \/ \E r : Fin(a, r)
           \/ AnteCorte(a)
    PROVE  /\ SoloMueve(a) /\ mem'[a].pc \in {"inicio", "fin", "recuperar"}
           /\ a = Worker => mem'[a].pc # "fin"
<1>1. mem \in [Actores -> Memorias]
  BY Consta
<1>2. ASSUME NEW r, Fin(a, r)
      PROVE  /\ SoloMueve(a)
             /\ mem'[a].pc = IF a = Worker THEN "inicio" ELSE "fin"
  <2>1. mem'[a] = IF a = Worker THEN Inicial("inicio") ELSE [Inicial("fin") EXCEPT !.resp = r]
    BY <1>1, <1>2 DEF Fin
  <2>2. SoloMueve(a)
    BY <1>1, <1>2 DEF Fin, SoloMueve
  <2> QED BY <2>1, <2>2 DEF Inicial
<1>3. CASE \E r : Fin(a, r)
  BY <1>2, <1>3
<1>4. CASE Ir(a, "recuperar")
  <2>1. SoloMueve(a) /\ mem'[a].pc = "recuperar"
    BY <1>1, <1>4 DEF Ir, SoloMueve, Memorias
  <2> QED BY <2>1
<1> QED BY <1>3, <1>4 DEF AnteCorte

\* An error of a request or of the worker
LEMMA ErrorForma ==
    ASSUME InductivoLote, NEW a \in Actores, NEW l, ConError(a, l), l.estado = lote.estado,
           mem[a].pc \notin SinClave, a # Worker \/ mem[a].pc # "en_curso"
    PROVE  /\ SoloMueve(a) /\ mem'[a].pc \in {"inicio", "fin", "recuperar"}
           /\ a = Worker => mem'[a].pc # "fin"
           /\ lote'.estado = lote.estado
           /\ op' = op \/ op[K(a)].resp = "nula"
           /\ a = Worker => op' = op
BY SaleForma DEF ConError, Publicable

----------------------------------------------------------------------------
(* Ordenado.                                                                *)

\* A copy that encolar_lote or the discard writes over is still the lote
LEMMA TurnosCopia ==
    ASSUME InductivoLote, InductivoOrden, Turnos
    PROVE  CopiaAlDia
<1> SUFFICES ASSUME NEW a \in Solicitudes
             PROVE  /\ Encolar(a) /\ op' # op =>
                          mem[a].vista.estado = lote.estado /\ mem[a].mat = Con(grupo, "validado")
                    /\ Descartar(a) /\ lote'.estado # lote.estado =>
                          mem[a].vista.estado = lote.estado
  BY DEF CopiaAlDia
<1>1. CopiaFresca(mem[a]) /\ a \in Actores
  BY SolicitudNoEsWorker DEF Turnos
<1>2. ASSUME Encolar(a), op' # op
      PROVE  mem[a].vista.estado = lote.estado /\ mem[a].mat = Con(grupo, "validado")
  <2>1. mem[a].pc = "encolar" /\ Encolable(mem[a].vista)
    BY <1>2 DEF Encolar, En
  <2>2. mem[a].vista.estado \notin Activos
    BY <1>1, <2>1 DEF CopiaFresca, Encolable, AntesDeTomar, Activos
  <2> QED BY <1>1, <2>1, <2>2 DEF CopiaFresca, ConCopia
<1>3. ASSUME Descartar(a)
      PROVE  mem[a].vista.estado = lote.estado
  <2>1. mem[a].pc = "descartar"
    BY <1>3 DEF Descartar, En
  <2>2. mem[a].vista.estado \notin Activos
    BY <1>1, <2>1, Sabe DEF Prevision, Resoluble
  <2> QED BY <1>1, <2>1, <2>2 DEF CopiaFresca, ConCopia
<1> QED BY <1>2, <1>3

\* Who gives up a lote without a guard has it to itself
LEMMA TurnosSuelta ==
    ASSUME InductivoLote, InductivoOrden, Turnos
    PROVE  SueltaPropia
<1> SUFFICES ASSUME NEW a \in Actores, mem[a].guarda = 0,
                    \/ a # Worker /\ (Recuperar(a) \/ RecuperarCreacion(a))
                    \/ a = Worker /\ RecuperarWorker,
                    op' # op \/ lote' # lote
             PROVE  SueltaLoSuyo(a)
  BY DEF SueltaPropia
<1>1. mem[a].pc \in {"recuperar", "recuperar_creacion"} /\ (a = Worker => mem[a].pc = "recuperar")
  BY DEF Recuperar, RecuperarCreacion, RecuperarWorker, En
<1>2. K(a) \in Claves
  BY <1>1, ClaveDeSolicitud DEF SinClave
<1>3. lote.estado = "procesando" => lote.dueno = K(a)
  BY <1>2, LaClave DEF InductivoLote, ColaConDueno, Activos
<1>4. CASE a # Worker
  <2>1. op[K(a)].estado = "en_proceso" /\ op[K(a)].resp = "nula"
    <3>1. CASE RecuperarCreacion(a)
      BY <3>1 DEF RecuperarCreacion
    <3>2. CASE Recuperar(a)
      BY <3>2 DEF Recuperar, tablas
    <3> QED BY <1>4, <3>1, <3>2
  <2>2. ~EnCurso
    BY <1>2, <2>1 DEF Turnos, ConMarca
  <2>3. ASSUME NEW b \in Actores \ {a}, EnObra(mem[b])
        PROVE  FALSE
    <3>1. CASE b = Worker
      BY <2>2, <2>3, <3>1 DEF EnCurso, EnObra, EnCorrida, AntesDeTomar, PasosDeCorrida
    <3>2. CASE b # Worker
      <4>1. Atendida(a) /\ Atendida(b)
        BY <1>1, <2>3 DEF Atendida, EnObra, EnCorrida, AntesDeTomar, PasosDeCorrida
      <4> QED BY <1>4, <3>2, <4>1 DEF Turnos, SolaSolicitud, Actores
    <3> QED BY <3>1, <3>2
  <2> QED BY <1>3, <2>1, <2>3 DEF SueltaLoSuyo
<1>5. CASE a = Worker
  <2>1. EnCurso
    BY <1>1, <1>5 DEF EnCurso
  <2>2. op[K(a)].estado = "en_proceso"
    BY <1>2, <2>1 DEF Turnos, ConMarca
  <2>3. ASSUME NEW b \in Actores \ {a}, EnObra(mem[b])
        PROVE  FALSE
    BY <1>5, <2>1, <2>3, WorkerSinCompania DEF Actores
  <2> QED BY <1>3, <2>2, <2>3 DEF SueltaLoSuyo
<1> QED BY <1>4, <1>5

\* With one client the code does what its missing checks would ask
LEMMA TurnosOrdena ==
    ASSUME InductivoLote, InductivoOrden, Turnos
    PROVE  Ordenado
BY TurnosCopia, TurnosSuelta DEF Ordenado

----------------------------------------------------------------------------
(* The steps of the worker.                                                 *)

\* What a step of the run does to the lote, its operation and the worker
TrasCorrida ==
    LET m == mem'[Worker] IN
    \/ /\ op' = op /\ lote'.estado = "procesando" /\ m.pc \in PasosDeCorrida
       /\ m.pc # "releer" => m.vista.estado = "procesando"
    \/ op' = op /\ lote'.estado = lote.estado /\ m.pc \in {"inicio", "recuperar"}
    \/ /\ lote'.estado \notin Activos /\ m.pc = "inicio"
       /\ \A k \in Claves : op'[k] = op[k] \/ op'[k].estado \in EstadosCerrados

\* That is enough for the worker's own part of Turnos
LEMMA TrasCorridaBasta ==
    ASSUME Turnos, EnCurso, TrasCorrida
    PROVE  /\ ConMarca' /\ LoteDelWorker'
           /\ \A k \in Claves : op'[k] = op[k] \/ op'[k].estado \in EstadosCerrados
<1>1. lote.estado \in Activos
  BY EnCursoActivo
<1>2. ConMarca' /\ \A k \in Claves : op'[k] = op[k] \/ op'[k].estado \in EstadosCerrados
  BY DEF TrasCorrida, Turnos, ConMarca, EnCurso, Activos
<1>3. LoteDelWorker'
  BY <1>1 DEF TrasCorrida, LoteDelWorker, PasosDeCorrida, Activos
<1> QED BY <1>2, <1>3

\* The operation of the worker closes
LEMMA CierraDelWorker ==
    ASSUME InductivoLote, NEW k \in Claves, NEW e \in EstadosCerrados, NEW r,
           ResponderOperacion(k, e, r)
    PROVE  \A j \in Claves : op'[j] = op[j] \/ op'[j].estado \in EstadosCerrados
<1>1. op \in [Claves -> FilasOperacion]
  BY DEF InductivoLote, FilasEnForma
<1>2. \A j \in Claves \ {k} : op'[j] = op[j]
  BY <1>1 DEF ResponderOperacion
<1>3. op'[k].estado = e
  BY <1>1 DEF ResponderOperacion, FilasOperacion
<1> QED BY <1>2, <1>3

\* A sublote that did not reach ARCA: its groups are applied, or the run ends
LEMMA SinEnviarForma ==
    ASSUME InductivoLote, NEW a \in Actores, NEW s, NEW c, NEW r, SinEnviar(a, s, c, r)
    PROVE  /\ SoloMueve(a)
           /\ \/ mem'[a].pc = "aplicar" /\ mem'[a].vista \in {mem[a].vista, lote}
              \/ \E e : Fin(a, e)
<1>1. mem \in [Actores -> Memorias] /\ mem[a] \in Memorias
  BY Consta
<1>2. CASE r /\ Fin(a, "error_interno")
  BY <1>2, SaleForma
<1>3. CASE mem' = [mem EXCEPT ![a].pc = "aplicar", ![a].sub = s, ![a].aut = {},
                          ![a].pend = @ \ s, ![a].cierre = c,
                          ![a].vista = IF r THEN lote ELSE @]
  BY <1>1, <1>3 DEF Memorias, SoloMueve
<1> QED BY <1>2, <1>3 DEF SinEnviar

\* Every step of the run of the worker is one of those three
LEMMA CorridaDelWorker ==
    ASSUME InductivoLote, InductivoOrden, Turnos, PasoCorrida(Worker)
    PROVE  TrasCorrida /\ SoloMueve(Worker) /\ EnCurso
<1> DEFINE m == mem[Worker]
           n == mem'[Worker]
<1>1. /\ Worker \in Actores /\ mem \in [Actores -> Memorias] /\ m \in Memorias
      /\ lote \in FilasLote /\ LoteDelWorker
  BY WorkerEsActor, Consta DEF Turnos
<1>2. m.pc \notin {"inicio", "bloquear", "fin"}
  BY DEF PasoCorrida, Tomar, Releer, Capacidad, Verificar, Reservar, ReservarPerdida,
         Marcar, MarcarAmbigua, Solicitar, RecibirResultado, CerrarRechazoGlobal,
         CerrarIncertidumbre, AplicarGrupo, Terminar, CorteDeBase, En, PasosConBase
<1>3. EnCurso
  BY <1>2 DEF EnCurso
<1> SUFFICES TrasCorrida /\ SoloMueve(Worker)
  BY <1>3
<1>4. ASSUME \/ \E r : Fin(Worker, r)
             \/ AnteCorte(Worker)
      PROVE  SoloMueve(Worker) /\ n.pc \in {"inicio", "recuperar"}
  BY <1>1, <1>4, SaleForma
<1>5. ASSUME NEW r, Fin(Worker, r)
      PROVE  SoloMueve(Worker) /\ n.pc = "inicio"
  <2>1. n = Inicial("inicio")
    BY <1>1, <1>5 DEF Fin
  <2> QED BY <1>1, <1>5, <2>1, SaleForma DEF Inicial
<1>6. ASSUME NEW pc \in PasosDeCorrida, Ir(Worker, pc), op' = op, lote'.estado = "procesando",
             m.pc \in PasosDeCorrida \ {"releer"}
      PROVE  TrasCorrida /\ SoloMueve(Worker)
  BY <1>1, <1>6, IrForma DEF TrasCorrida, LoteDelWorker
<1>7. CASE Tomar(Worker)
  <2>1. m.pc = "tomar" /\ lote.estado = "en_cola" /\ m.vista.estado = "en_cola"
    BY <1>1, <1>7 DEF Tomar, En, LoteDelWorker
  <2>2. CASE /\ lote'.estado = "procesando" /\ Ir(Worker, "releer") /\ op' = op
    BY <1>1, <2>2, IrForma DEF TrasCorrida, PasosDeCorrida
  <2>3. CASE op' = op /\ lote' = lote /\ Fin(Worker, "error")
    BY <1>5, <2>3 DEF TrasCorrida
  <2>4. (\E l : ConError(Worker, l)) => op' = op /\ lote' = lote /\ Fin(Worker, "error")
    BY DEF ConError
  <2>5. \/ \E l : ConError(Worker, l)
        \/ /\ lote' = [EscribirDueno(lote, m.vista, K(Worker), m.mat)
                         EXCEPT !.estado = "procesando", !.async = m.vista.async,
                                !.vieja = FALSE]
           /\ Ir(Worker, "releer") /\ op' = op
    BY <1>7, <2>1 DEF Tomar, Terminales, Procesables, Cerrados
  <2>6. EscribirDueno(lote, m.vista, K(Worker), m.mat) \in [{"estado", "async", "dueno", "material", "vieja"} -> {EscribirDueno(lote, m.vista, K(Worker), m.mat)[x] : x \in {"estado", "async", "dueno", "material", "vieja"}}]
    BY <1>1 DEF EscribirDueno, FilasLote
  <2> QED BY <2>2, <2>3, <2>4, <2>5, <2>6
<1>8. CASE Releer(Worker)
  <2>1. m.pc = "releer" /\ lote.estado = "procesando"
    BY <1>1, <1>8 DEF Releer, En, LoteDelWorker, PasosDeCorrida
  <2>2. CASE ConError(Worker, lote)
    BY <1>5, <2>2 DEF ConError, TrasCorrida
  <2>3. CASE /\ mem' = [mem EXCEPT ![Worker].pc = "capacidad", ![Worker].vista = lote]
             /\ lote' = lote /\ op' = op
    BY <1>1, <2>1, <2>3 DEF TrasCorrida, SoloMueve, Memorias, PasosDeCorrida
  <2>4. CASE Inmovilizar(m.mat) /\ Fin(Worker, "error") /\ op' = op
    BY <1>1, <1>5, <2>4 DEF Inmovilizar, TrasCorrida, Activos, FilasLote
  <2> QED BY <1>8, <2>2, <2>3, <2>4 DEF Releer
<1>9. CASE Capacidad(Worker)
  <2>1. m.pc = "capacidad" /\ lote.estado = "procesando" /\ m.vista.estado = "procesando"
    BY <1>1, <1>9 DEF Capacidad, En, LoteDelWorker, PasosDeCorrida
  <2>2. lote'.estado = lote.estado /\ op' = op
    BY <1>1, <1>9 DEF Capacidad, FilasLote
  <2>3. n.pc \in {"terminar", "verificar"} /\ n.vista = m.vista /\ SoloMueve(Worker)
    <3> DEFINE resto == m.mat \ {g \in m.mat : Respaldado(g)}
    <3>1. PICK c \in {1, Chunk}, p \in {"terminar", "verificar"} :
            mem' = [mem EXCEPT ![Worker].chunk = c, ![Worker].pend = resto,
                               ![Worker].sel = resto, ![Worker].pc = p]
      BY <1>9 DEF Capacidad
    <3> HIDE DEF resto
    <3> QED BY <1>1, <3>1 DEF Memorias, SoloMueve
  <2> QED BY <2>1, <2>2, <2>3 DEF TrasCorrida, PasosDeCorrida
<1>10. CASE Verificar(Worker) \/ Reservar(Worker) \/ Marcar(Worker) \/ MarcarAmbigua(Worker)
            \/ Solicitar(Worker) \/ RecibirResultado(Worker) \/ ReservarPerdida(Worker)
  <2>1. /\ m.pc \in {"verificar", "reservar", "marcar", "solicitar", "esperar"}
        /\ lote' = lote /\ op' = op
    BY <1>10 DEF Verificar, Reservar, Marcar, MarcarAmbigua, Solicitar, RecibirResultado,
                 ReservarPerdida, En, tablas
  <2>2. lote.estado = "procesando" /\ m.vista.estado = "procesando"
    BY <1>1, <2>1 DEF LoteDelWorker, PasosDeCorrida
  <2>3. ASSUME NEW s, NEW c, NEW r, SinEnviar(Worker, s, c, r)
        PROVE  TrasCorrida /\ SoloMueve(Worker)
    BY <1>1, <1>5, <2>1, <2>2, <2>3, SinEnviarForma DEF TrasCorrida, PasosDeCorrida
  <2>4. CASE \E pc \in {"reservar", "recuperar", "esperar"} : Ir(Worker, pc)
    BY <1>1, <2>1, <2>2, <2>4, IrForma DEF TrasCorrida, PasosDeCorrida
  <2>5. CASE mem' = [mem EXCEPT ![Worker].pc = "recuperar", ![Worker].guarda = -1,
                                ![Worker].iniciada = FALSE]
    BY <1>1, <2>1, <2>5 DEF TrasCorrida, Memorias, SoloMueve
  <2>6. ASSUME n.pc \in PasosDeCorrida, n.vista = m.vista, SoloMueve(Worker)
        PROVE  TrasCorrida /\ SoloMueve(Worker)
    BY <2>1, <2>2, <2>6 DEF TrasCorrida
  <2>7. CASE \E s : mem' = [mem EXCEPT ![Worker].pc = "marcar", ![Worker].sub = s,
                              ![Worker].pend = @ \ s, ![Worker].guarda = Len(guardas) + 1,
                              ![Worker].iniciada = FALSE]
    <3>1. n.pc = "marcar" /\ n.vista = m.vista /\ SoloMueve(Worker)
      BY <1>1, <2>7 DEF Memorias, SoloMueve
    <3> QED BY <2>6, <3>1 DEF PasosDeCorrida
  <2>8. CASE mem' = [mem EXCEPT ![Worker].pc = "solicitar", ![Worker].iniciada = TRUE]
    <3>1. n.pc = "solicitar" /\ n.vista = m.vista /\ SoloMueve(Worker)
      BY <1>1, <2>8 DEF Memorias, SoloMueve
    <3> QED BY <2>6, <3>1 DEF PasosDeCorrida
  <2>9. CASE \E s : mem' = [mem EXCEPT ![Worker].pc = "aplicar", ![Worker].aut = s,
                              ![Worker].cierre = "cerrada_terminal"]
    <3>1. n.pc = "aplicar" /\ n.vista = m.vista /\ SoloMueve(Worker)
      BY <1>1, <2>9 DEF Memorias, SoloMueve
    <3> QED BY <2>6, <3>1 DEF PasosDeCorrida
  <2>10. CASE Verificar(Worker)
    BY <2>3, <2>4, <2>10 DEF Verificar
  <2>11. CASE Reservar(Worker)
    BY <2>3, <2>7, <2>11 DEF Reservar
  <2>12. CASE Marcar(Worker)
    BY <2>3, <2>8, <2>12 DEF Marcar
  <2>13. CASE MarcarAmbigua(Worker) \/ Solicitar(Worker)
    BY <2>4, <2>13 DEF MarcarAmbigua, Solicitar
  <2>14. CASE RecibirResultado(Worker) \/ ReservarPerdida(Worker)
    BY <2>5, <2>9, <2>14 DEF RecibirResultado, ReservarPerdida
  <2> QED BY <1>10, <2>10, <2>11, <2>12, <2>13, <2>14
<1>11. CASE CerrarRechazoGlobal(Worker) \/ CerrarIncertidumbre(Worker) \/ CorteDeBase(Worker)
  <2>1. CASE AnteCorte(Worker) /\ UNCHANGED tablas
    BY <1>4, <2>1 DEF TrasCorrida, tablas
  <2>2. ASSUME NEW e \in {"rechazado_arca", "requiere_reconciliacion"},
               ResponderOperacion(K(Worker), e, "final"), Fin(Worker, "final"),
               lote'.estado \notin Activos, m.pc = "esperar"
        PROVE  TrasCorrida /\ SoloMueve(Worker)
    <3>1. K(Worker) \in Claves
      BY <1>1, <2>2, ClaveDeSolicitud DEF SinClave
    <3>2. \A j \in Claves : op'[j] = op[j] \/ op'[j].estado \in EstadosCerrados
      BY <2>2, <3>1, CierraDelWorker DEF EstadosCerrados
    <3> QED BY <1>5, <2>2, <3>2 DEF TrasCorrida
  <2>3. CASE CerrarRechazoGlobal(Worker)
    <3>1. CASE RechazoAplicable(Worker)
      <4>1. \E gr : lote' = [lote EXCEPT !.estado = EstadoLote(gr), !.vieja = FALSE]
        BY <2>3, <3>1 DEF CerrarRechazoGlobal
      <4>2. lote'.estado \notin Activos
        BY <1>1, <4>1, EstadoLoteForma DEF FilasLote
      <4> QED BY <2>2, <2>3, <3>1, <4>2 DEF CerrarRechazoGlobal, En
    <3> QED BY <2>1, <2>3, <3>1 DEF CerrarRechazoGlobal
  <2>4. CASE CerrarIncertidumbre(Worker)
    <3>1. CASE PoseeTrasArca(Worker, {"en_proceso", "requiere_reconciliacion"})
      <4>1. lote' = [lote EXCEPT !.estado = "requiere_reconciliacion", !.vieja = FALSE]
        BY <2>4, <3>1 DEF CerrarIncertidumbre, Inmovilizar
      <4>2. lote'.estado \notin Activos
        BY <1>1, <4>1 DEF FilasLote, Activos
      <4> QED BY <2>2, <2>4, <3>1, <4>2 DEF CerrarIncertidumbre, En
    <3> QED BY <2>1, <2>4, <3>1 DEF CerrarIncertidumbre
  <2> QED BY <1>11, <2>1, <2>3, <2>4 DEF CorteDeBase
<1>12. CASE AplicarGrupo(Worker)
  <2>1. m.pc = "aplicar" /\ lote.estado = "procesando" /\ m.vista.estado = "procesando"
    BY <1>1, <1>12 DEF AplicarGrupo, En, LoteDelWorker, PasosDeCorrida
  <2>2. \A gr : Recalculado(m.vista.estado, gr) = "procesando"
    BY <2>1 DEF Recalculado
  <2>3. lote' = Escribir(lote, m.vista, "procesando") /\ op' = op
    BY <1>12, <2>2 DEF AplicarGrupo
  <2>4. lote'.estado = "procesando"
    BY <1>1, <2>1, <2>3 DEF Escribir, FilasLote
  <2>5. /\ n.pc \in {"aplicar", "verificar", "terminar"} /\ n.vista.estado = "procesando"
        /\ SoloMueve(Worker)
    <3> DEFINE g == CHOOSE h \in m.sub : \A j \in m.sub : h <= j
               p == IF m.sub # {g} THEN "aplicar"
                    ELSE IF m.pend # {} THEN "verificar" ELSE "terminar"
    <3>1. mem' = [mem EXCEPT ![Worker].sub = @ \ {g}, ![Worker].cierre = "nada",
                    ![Worker].vista.estado = "procesando", ![Worker].pc = p]
      BY <1>12, <2>2 DEF AplicarGrupo
    <3>2. p \in {"aplicar", "verificar", "terminar"}
      OBVIOUS
    <3> HIDE DEF g, p
    <3> QED BY <1>1, <3>1, <3>2 DEF Memorias, FilasLote, SoloMueve
  <2> QED BY <2>3, <2>4, <2>5 DEF TrasCorrida, PasosDeCorrida
<1>13. CASE Terminar(Worker)
  <2> DEFINE e == EstadoLote(grupo)
  <2>1. m.pc = "terminar" /\ lote.estado = "procesando" /\ m.vista.estado = "procesando"
    BY <1>1, <1>13 DEF Terminar, En, LoteDelWorker, PasosDeCorrida
  <2>2. CASE Fin(Worker, "error") /\ UNCHANGED <<lote, op>>
    BY <1>5, <2>2 DEF TrasCorrida
  <2>3. CASE /\ lote' = Escribir(lote, m.vista, e)
             /\ ResponderOperacion(K(Worker), EstadoPublicado(e), "final")
             /\ Fin(Worker, "final")
    <3>1. e \notin Activos
      BY EstadoLoteForma
    <3> HIDE DEF e
    <3>2. lote'.estado = e
      BY <1>1, <2>1, <2>3, <3>1 DEF Escribir, FilasLote, Activos
    <3>3. EstadoPublicado(e) \in EstadosCerrados
      BY <3>1 DEF EstadoPublicado, Activos, EstadosCerrados
    <3>4. K(Worker) \in Claves
      BY <1>1, <2>1, ClaveDeSolicitud DEF SinClave
    <3>5. \A j \in Claves : op'[j] = op[j] \/ op'[j].estado \in EstadosCerrados
      BY <2>3, <3>3, <3>4, CierraDelWorker
    <3> QED BY <1>5, <2>3, <3>1, <3>2, <3>5 DEF TrasCorrida
  <2> QED BY <1>13, <2>2, <2>3 DEF Terminar
<1> QED BY <1>7, <1>8, <1>9, <1>10, <1>11, <1>12, <1>13 DEF PasoCorrida

\* The other steps of the worker: it has no run, and leaves the operation open
\* unless it closes it
TrasWorker ==
    /\ ConMarca' /\ LoteDelWorker' /\ SoloMueve(Worker)
    /\ \A k \in Claves : op'[k] = op[k] \/ op'[k].estado \in EstadosCerrados
    /\ lote.estado \notin Activos => lote'.estado = lote.estado /\ grupo' = grupo

\* The worker is back at the start of its cycle
LEMMA WorkerDescansa ==
    ASSUME InductivoLote, Turnos, NEW r, Fin(Worker, r)
    PROVE  SoloMueve(Worker) /\ mem'[Worker].pc = "inicio" /\ LoteDelWorker'
<1>1. Worker \in Actores /\ mem \in [Actores -> Memorias]
  BY WorkerEsActor, Consta
<1>2. mem'[Worker] = Inicial("inicio")
  BY <1>1 DEF Fin
<1>3. SoloMueve(Worker)
  BY <1>1, SaleForma
<1> QED BY <1>2, <1>3 DEF LoteDelWorker, Inicial, PasosDeCorrida

\* The worker finds a lote, reads it, or looks at one that is stale
LEMMA TurnoListar ==
    ASSUME InductivoLote, InductivoOrden, Turnos,
           Listar \/ LeerEnCola \/ BloquearInicio \/ RecuperarWorkerSinBase
    PROVE  TrasWorker
<1> DEFINE m == mem[Worker]
           n == mem'[Worker]
<1>1. /\ Worker \in Actores /\ mem \in [Actores -> Memorias] /\ m \in Memorias
      /\ lote \in FilasLote /\ LoteDelWorker /\ ConMarca
  BY WorkerEsActor, Consta DEF Turnos
<1>2. lote' = lote /\ op' = op /\ grupo' = grupo
  BY DEF Listar, LeerEnCola, BloquearInicio, RecuperarWorkerSinBase, tablas
<1>3. CASE Listar
  <2>1. SoloMueve(Worker) /\ n.pc = "en_curso" /\ lote.estado = "en_cola"
    BY <1>1, <1>3, IrForma DEF Listar
  <2>2. LoteDelWorker' /\ EnCurso
    BY <1>2, <2>1 DEF LoteDelWorker, EnCurso, Activos, PasosDeCorrida
  <2> QED BY <1>1, <1>2, <2>1, <2>2 DEF TrasWorker, ConMarca
<1>4. CASE LeerEnCola
  <2>1. m.pc = "en_curso" /\ lote.estado = "en_cola"
    BY <1>1, <1>4 DEF LeerEnCola, En, LoteDelWorker
  <2>2. SoloMueve(Worker) /\ n.pc = "tomar" /\ n.vista = lote
    BY <1>1, <1>4 DEF LeerEnCola, Memorias, SoloMueve
  <2>3. LoteDelWorker' /\ EnCurso
    BY <1>2, <2>1, <2>2 DEF LoteDelWorker, EnCurso, Activos, PasosDeCorrida
  <2> QED BY <1>1, <1>2, <2>2, <2>3 DEF TrasWorker, ConMarca
<1>5. CASE BloquearInicio
  <2>1. m.pc = "inicio" /\ lote.estado = "procesando"
    BY <1>5 DEF BloquearInicio, En, Stale
  <2>2. SoloMueve(Worker) /\ n.pc = "bloquear"
    <3>1. PICK p : mem' = [mem EXCEPT ![Worker].pc = "bloquear", ![Worker].op = lote.dueno,
                             ![Worker].mat = Intactos(grupo), ![Worker].preflight = p]
      BY <1>5 DEF BloquearInicio
    <3> QED BY <1>1, <3>1 DEF Memorias, SoloMueve
  <2>3. LoteDelWorker' /\ ~EnCurso'
    BY <1>2, <2>1, <2>2 DEF LoteDelWorker, EnCurso, PasosDeCorrida
  <2> QED BY <1>2, <2>2, <2>3 DEF TrasWorker, ConMarca
<1>6. CASE RecuperarWorkerSinBase
  <2>1. m.pc = "recuperar" /\ Fin(Worker, "error")
    BY <1>6 DEF RecuperarWorkerSinBase, En
  <2>2. SoloMueve(Worker) /\ LoteDelWorker'
    BY <2>1, WorkerDescansa
  <2>3. EnCurso
    BY <2>1 DEF EnCurso
  <2> QED BY <1>1, <1>2, <2>2, <2>3 DEF TrasWorker, ConMarca
<1> QED BY <1>3, <1>4, <1>5, <1>6

\* What decides on a stale lote, or gives up a run, ends the cycle of the worker
LEMMA TurnoCierra ==
    ASSUME InductivoLote, Turnos, lote.estado \in Activos, NEW r, Fin(Worker, r),
           \/ lote'.estado # "en_cola"
           \/ /\ op' = op
              /\ \E k \in Claves : op[k].estado = "en_proceso" /\ op[k].resp = "progreso",
           \A k \in Claves : op'[k] = op[k] \/ op'[k].estado \in EstadosCerrados
    PROVE  TrasWorker
<1>1. SoloMueve(Worker) /\ mem'[Worker].pc = "inicio" /\ LoteDelWorker'
  BY WorkerDescansa
<1>2. ConMarca'
  BY <1>1, LaClave DEF ConMarca, EnCurso
<1> QED BY <1>1, <1>2 DEF TrasWorker

\* The worker decides on a stale lote: it goes back to the queue only with the
\* marker of its operation, and otherwise leaves it
LEMMA TurnoBloquear ==
    ASSUME InductivoLote, InductivoOrden, Turnos, BloquearFin
    PROVE  TrasWorker
<1> DEFINE m == mem[Worker]
           k == m.op
           valido == Reclamada(k)
           publica(e) == IF valido THEN ResponderOperacion(k, e, "final") ELSE UNCHANGED op
           pasa == op' = op \/ \E e \in EstadosCerrados :
                                    valido /\ ResponderOperacion(k, e, "final")
<1>1. /\ Worker \in Actores /\ mem \in [Actores -> Memorias] /\ lote \in FilasLote
      /\ LoteDelWorker /\ ConMarca /\ m.pc = "bloquear" /\ Fin(Worker, "final")
  BY WorkerEsActor, Consta DEF Turnos, BloquearFin, En
<1>2. CASE UNCHANGED tablas
  <2>1. SoloMueve(Worker) /\ mem'[Worker].pc = "inicio" /\ LoteDelWorker'
    BY <1>1, WorkerDescansa
  <2>2. lote' = lote /\ op' = op /\ grupo' = grupo
    BY <1>2 DEF tablas
  <2>3. ConMarca'
    BY <1>1, <2>1, <2>2 DEF ConMarca, EnCurso
  <2> QED BY <2>1, <2>2, <2>3 DEF TrasWorker
<1>3. CASE ~UNCHANGED tablas
  <2>1. lote.estado = "procesando" /\ lote.dueno \in Claves
    BY <1>1, <1>3 DEF BloquearFin, Stale, InductivoLote, ColaConDueno, Activos
  <2>2. valido => k \in Claves /\ op[k].estado = "en_proceso" /\ op[k].resp = "progreso"
    BY <2>1 DEF Reclamada, Conserva, ProgresoValido
  <2>3. \/ valido /\ lote' = [lote EXCEPT !.estado = "en_cola", !.async = TRUE, !.vieja = FALSE]
           /\ op' = op
        \/ /\ \E e \in {EstadoLote(Vinculados), "requiere_reconciliacion"} :
                 lote' = [lote EXCEPT !.estado = e, !.vieja = FALSE]
           /\ \E e \in {"finalizado", "requiere_reconciliacion"} : publica(e)
    <3> HIDE DEF valido
    <3> QED BY <1>3 DEF BloquearFin, valido
  <2>4. CASE valido /\ lote' = [lote EXCEPT !.estado = "en_cola", !.async = TRUE, !.vieja = FALSE]
             /\ op' = op
    <3> HIDE DEF valido
    <3> QED BY <1>1, <2>1, <2>2, <2>4, TurnoCierra DEF Activos
  <2>5. CASE /\ \E e \in {EstadoLote(Vinculados), "requiere_reconciliacion"} :
                 lote' = [lote EXCEPT !.estado = e, !.vieja = FALSE]
             /\ \E e \in {"finalizado", "requiere_reconciliacion"} : publica(e)
    <3>1. lote'.estado # "en_cola"
      BY <1>1, <2>5, EstadoLoteForma DEF FilasLote, Activos
    <3>2. \A j \in Claves : op'[j] = op[j] \/ op'[j].estado \in EstadosCerrados
      <4>1. CASE op' = op
        BY <4>1
      <4>2. ASSUME NEW e \in {"finalizado", "requiere_reconciliacion"}, valido,
                   ResponderOperacion(k, e, "final")
            PROVE  \A j \in Claves : op'[j] = op[j] \/ op'[j].estado \in EstadosCerrados
        <5>1. k \in Claves /\ e \in EstadosCerrados
          BY <2>2, <4>2 DEF EstadosCerrados
        <5> HIDE DEF k, valido
        <5> QED BY <4>2, <5>1, CierraDelWorker
      <4> HIDE DEF valido, k
      <4> QED BY <2>5, <4>1, <4>2
    <3> HIDE DEF valido, k
    <3> QED BY <1>1, <2>1, <3>1, <3>2, TurnoCierra DEF Activos
  <2> HIDE DEF valido, k
  <2> QED BY <2>3, <2>4, <2>5
<1> QED BY <1>2, <1>3

\* The worker gives up its own run: the operation keeps its marker or closes
LEMMA TurnoRecuperar ==
    ASSUME InductivoLote, InductivoOrden, Turnos, RecuperarWorker
    PROVE  TrasWorker
<1> DEFINE k == lote.dueno
           i == mem[Worker].guarda
<1>1. /\ Worker \in Actores /\ lote \in FilasLote /\ LoteDelWorker
      /\ mem[Worker].pc = "recuperar" /\ Fin(Worker, "error") /\ lote.estado \in Activos
      /\ op \in [Claves -> FilasOperacion]
  BY WorkerEsActor, Consta
     DEF Turnos, RecuperarWorker, En, LoteDelWorker, InductivoLote, FilasEnForma
<1>2. k \in Claves
  BY <1>1 DEF InductivoLote, ColaConDueno
<1>3. op[k].estado = "en_proceso" /\ op[k].resp = "progreso"
  BY <1>1, <1>2 DEF Turnos, ConMarca, EnCurso
<1>4. \/ op' = op
      \/ /\ ResponderOperacion(k, "requiere_reconciliacion", "nula")
         /\ Inmovilizar(guardas[i].grupos)
  BY DEF RecuperarWorker, tablas
<1>5. CASE op' = op
  BY <1>1, <1>2, <1>3, <1>5, TurnoCierra
<1>6. CASE /\ ResponderOperacion(k, "requiere_reconciliacion", "nula")
           /\ Inmovilizar(guardas[i].grupos)
  <2>1. lote'.estado # "en_cola"
    BY <1>1, <1>6 DEF Inmovilizar, FilasLote
  <2>2. \A j \in Claves : op'[j] = op[j] \/ op'[j].estado \in EstadosCerrados
    BY <1>2, <1>6, CierraDelWorker DEF EstadosCerrados
  <2> HIDE DEF k
  <2> QED BY <1>1, <2>1, <2>2, TurnoCierra
<1> QED BY <1>4, <1>5, <1>6

\* A step of the worker
LEMMA PasoDelWorker ==
    ASSUME InductivoLote, InductivoOrden, Turnos, PasoWorker
    PROVE  TrasWorker
<1>1. CASE PasoCorrida(Worker)
  <2>1. TrasCorrida /\ SoloMueve(Worker) /\ EnCurso
    BY <1>1, CorridaDelWorker
  <2> QED BY <2>1, TrasCorridaBasta, EnCursoActivo DEF TrasWorker
<1> QED
  BY <1>1, TurnoListar, TurnoBloquear, TurnoRecuperar DEF PasoWorker

----------------------------------------------------------------------------
(* The steps of a request.                                                  *)

\* What a step of a request keeps for the worker and for itself
TrasSolicitud(a) ==
    ConMarca' /\ LoteDelWorker' /\ SoloMueve(a) /\ CopiaFresca(mem[a])'

\* An operation without the marker: the worker has nothing
LEMMA SinMarca ==
    ASSUME Turnos, NEW k \in Claves, op[k].estado # "en_proceso" \/ op[k].resp # "progreso"
    PROVE  ~EnCurso
BY DEF Turnos, ConMarca

\* The lote as it was, and the worker
LEMMA TurnoQuieto ==
    ASSUME InductivoLote, Turnos, NEW a \in Solicitudes, SoloMueve(a),
           EnCurso => op' = op /\ lote'.estado = lote.estado,
           \/ EnCurso
           \/ lote'.estado # "en_cola"
           \/ \E k \in Claves : op'[k].estado = "en_proceso" /\ op'[k].resp = "progreso"
    PROVE  ConMarca' /\ LoteDelWorker'
<1>1. mem'[Worker] = mem[Worker]
  BY SolicitudNoEsWorker DEF SoloMueve, Actores
<1>2. CASE EnCurso
  BY <1>1, <1>2 DEF Turnos, ConMarca, LoteDelWorker
<1>3. CASE ~EnCurso
  <2>1. LoteDelWorker'
    BY <1>1, <1>3 DEF EnCurso, LoteDelWorker, PasosDeCorrida
  <2>2. EnCurso' => lote'.estado = "en_cola"
    BY <1>1, <1>3 DEF EnCurso
  <2>3. ConMarca'
    BY <1>3, <2>2, LaClave DEF ConMarca
  <2> QED BY <2>1, <2>3
<1> QED BY <1>2, <1>3

\* A request that has no copy any more
LEMMA SinCopia ==
    ASSUME NEW a, mem'[a].pc \notin ConCopia
    PROVE  CopiaFresca(mem[a])'
BY DEF CopiaFresca, ConCopia, AntesDeTomar

\* The lote stays as it is, and an operation open to requests may change
LEMMA TurnoDeOperacion ==
    ASSUME InductivoLote, Turnos, NEW a \in Solicitudes, SoloMueve(a),
           lote'.estado = lote.estado, op' = op \/ ~EnCurso
    PROVE  ConMarca' /\ LoteDelWorker'
<1>1. EnCurso \/ lote'.estado # "en_cola"
  BY DEF EnCurso
<1> QED BY <1>1, TurnoQuieto

\* The request reads the lote
LEMMA TurnoLeer ==
    ASSUME InductivoLote, InductivoOrden, Turnos, NEW a \in Solicitudes,
           LeerLote(a) \/ DescartarLeer(a)
    PROVE  TrasSolicitud(a)
<1> DEFINE n == mem'[a]
<1>1. /\ a \in Actores /\ a # Worker /\ mem \in [Actores -> Memorias] /\ mem[a] \in Memorias
      /\ lote \in FilasLote
  BY SolicitudNoEsWorker, Consta
<1>2. lote' = lote /\ op' = op /\ grupo' = grupo
  BY DEF LeerLote, DescartarLeer, tablas
<1>3. CASE \E r : Fin(a, r)
  <2>1. SoloMueve(a) /\ n.pc \notin ConCopia
    BY <1>1, <1>3, SaleForma DEF ConCopia
  <2> QED BY <1>2, <2>1, TurnoDeOperacion, SinCopia DEF TrasSolicitud
<1>4. CASE \E h : mem' = [mem EXCEPT ![a].pc = "resolver", ![a].op = ClaveDe[a],
                            ![a].vista = lote, ![a].mat = Con(grupo, "validado"),
                            ![a].huella = h]
  <2>1. SoloMueve(a) /\ n.pc = "resolver" /\ n.vista = lote /\ n.mat = Con(grupo, "validado")
    BY <1>1, <1>4 DEF Memorias, SoloMueve
  <2>2. lote.estado = "en_cola" => \A k \in Claves : op[k].estado = "en_proceso"
    BY DEF Turnos, ConMarca, EnCurso
  <2>3. CopiaFresca(mem[a])'
    BY <1>2, <2>1, <2>2 DEF CopiaFresca, AntesDeTomar, Con
  <2> QED BY <1>2, <2>1, <2>3, TurnoDeOperacion DEF TrasSolicitud
<1>5. CASE \E g \in Grupos : mem' = [mem EXCEPT ![a].pc = "descartar", ![a].vista = lote,
                                       ![a].sub = {g}]
  <2>1. SoloMueve(a) /\ n.pc = "descartar" /\ n.vista = lote
    BY <1>1, <1>5 DEF Memorias, SoloMueve
  <2>2. CopiaFresca(mem[a])'
    BY <1>2, <2>1 DEF CopiaFresca, AntesDeTomar
  <2> QED BY <1>2, <2>1, <2>2, TurnoDeOperacion DEF TrasSolicitud
<1>6. CASE LeerLote(a)
  BY <1>3, <1>4, <1>6 DEF LeerLote
<1>7. CASE DescartarLeer(a)
  BY <1>3, <1>5, <1>7 DEF DescartarLeer
<1> QED BY <1>6, <1>7

\* The request goes on with its copy
LEMMA CopiaSigue ==
    ASSUME InductivoLote, Turnos, NEW a \in Solicitudes,
           NEW pc \in {"preparar", "encolar", "tomar", "en_curso"}, Ir(a, pc),
           mem[a].pc \in {"resolver", "preparar"}, UNCHANGED <<lote, grupo>>,
           \/ pc = "en_curso" \/ mem[a].pc = "preparar"
           \/ \E k \in Claves : op[k].estado \in {"inexistente", "interrumpida_pre_arca"}
    PROVE  SoloMueve(a) /\ CopiaFresca(mem[a])'
<1>1. a \in Actores /\ CopiaFresca(mem[a])
  BY SolicitudNoEsWorker DEF Turnos
<1>2. /\ SoloMueve(a) /\ mem'[a].pc = pc /\ mem'[a].vista = mem[a].vista
      /\ mem'[a].mat = mem[a].mat
  BY <1>1, IrForma
<1>3. Con(grupo, "validado")' = Con(grupo, "validado")
  BY DEF Con
<1> QED BY <1>1, <1>2, <1>3 DEF CopiaFresca, ConCopia, AntesDeTomar

\* The operation is created, reclaimed or found
LEMMA TurnoResolver ==
    ASSUME InductivoLote, InductivoOrden, Turnos, NEW a \in Solicitudes,
           CrearOperacion(a) \/ CrearAmbigua(a) \/ ReclamarOperacion(a) \/ EncontrarOperacion(a)
    PROVE  TrasSolicitud(a)
<1>1. /\ a \in Actores /\ a # Worker /\ mem[a].pc = "resolver" /\ lote' = lote /\ grupo' = grupo
  BY SolicitudNoEsWorker
     DEF CrearOperacion, CrearAmbigua, ReclamarOperacion, EncontrarOperacion, En, tablas
<1>2. K(a) \in Claves
  BY <1>1, ClaveDeSolicitud DEF SinClave
<1>3. op' = op \/ ~EnCurso
  BY <1>2, SinMarca
     DEF CrearOperacion, CrearAmbigua, ReclamarOperacion, EncontrarOperacion, tablas
<1>4. CASE \E r : Fin(a, r)
  <2>1. SoloMueve(a) /\ mem'[a].pc \notin ConCopia
    BY <1>1, <1>4, SaleForma DEF ConCopia
  <2> QED BY <1>1, <1>3, <2>1, TurnoDeOperacion, SinCopia DEF TrasSolicitud
<1>5. CASE Ir(a, "recuperar_creacion")
  <2>1. SoloMueve(a) /\ mem'[a].pc \notin ConCopia
    <3>1. mem \in [Actores -> Memorias] /\ mem[a] \in Memorias
      BY <1>1, Consta
    <3>2. SoloMueve(a) /\ mem'[a].pc = "recuperar_creacion"
      BY <1>1, <1>5, <3>1 DEF Ir, Memorias, SoloMueve
    <3> QED BY <3>2 DEF ConCopia
  <2> QED BY <1>1, <1>3, <2>1, TurnoDeOperacion, SinCopia DEF TrasSolicitud
<1>6. CASE /\ op[K(a)].estado \in {"inexistente", "interrumpida_pre_arca"}
           /\ Ir(a, "preparar")
  <2>1. SoloMueve(a) /\ CopiaFresca(mem[a])'
    BY <1>1, <1>2, <1>6, CopiaSigue
  <2> QED BY <1>1, <1>3, <2>1, TurnoDeOperacion DEF TrasSolicitud
<1>7. CASE Ir(a, "en_curso")
  <2>1. SoloMueve(a) /\ CopiaFresca(mem[a])'
    BY <1>1, <1>7, CopiaSigue
  <2> QED BY <1>1, <1>3, <2>1, TurnoDeOperacion DEF TrasSolicitud
<1>8. CASE CrearOperacion(a) \/ ReclamarOperacion(a)
  BY <1>4, <1>6, <1>8 DEF CrearOperacion, ReclamarOperacion
<1>9. CASE CrearAmbigua(a)
  BY <1>5, <1>9 DEF CrearAmbigua
<1>10. CASE EncontrarOperacion(a)
  BY <1>4, <1>7, <1>10 DEF EncontrarOperacion
<1> QED BY <1>8, <1>9, <1>10

\* The request gives up its step, with the lote as it was
LEMMA TurnoSale ==
    ASSUME InductivoLote, Turnos, NEW a \in Solicitudes,
           (\E r : Fin(a, r)) \/ AnteCorte(a), lote'.estado = lote.estado,
           op' = op \/ ~EnCurso
    PROVE  TrasSolicitud(a)
<1>1. a \in Actores /\ a # Worker
  BY SolicitudNoEsWorker
<1>2. SoloMueve(a) /\ mem'[a].pc \notin ConCopia
  BY <1>1, SaleForma DEF ConCopia
<1> QED BY <1>2, TurnoDeOperacion, SinCopia DEF TrasSolicitud

\* The request stores an error as its answer, if its operation is open to it
LEMMA TurnoError ==
    ASSUME InductivoLote, Turnos, NEW a \in Solicitudes, NEW l, ConError(a, l),
           l.estado = lote.estado, mem[a].pc \notin SinClave
    PROVE  TrasSolicitud(a)
<1>1. a \in Actores /\ a # Worker /\ K(a) \in Claves
  BY SolicitudNoEsWorker, ClaveDeSolicitud
<1>2. CASE Publicable(K(a), "fallido_verificado")
  <2>1. lote' = l /\ Fin(a, "error")
    BY <1>1, <1>2 DEF ConError
  <2>2. ~EnCurso
    BY <1>1, <1>2, SinMarca DEF Publicable
  <2> QED BY <2>1, <2>2, TurnoSale
<1>3. CASE ~Publicable(K(a), "fallido_verificado")
  <2>1. AnteCorte(a) /\ lote' = lote /\ op' = op
    BY <1>1, <1>3 DEF ConError
  <2> QED BY <2>1, TurnoSale
<1> QED BY <1>2, <1>3

\* The request answers, publishes, or prepares its run
LEMMA TurnoPublicar ==
    ASSUME InductivoLote, InductivoOrden, Turnos, NEW a \in Solicitudes,
           \/ RecuperarCreacion(a) \/ Publicar(a) \/ GuardarError(a) \/ RecuperarSinBase(a)
           \/ ResponderEnCurso(a) \/ Preparar(a)
    PROVE  TrasSolicitud(a)
<1>1. a \in Actores /\ a # Worker /\ CopiaFresca(mem[a])
  BY SolicitudNoEsWorker DEF Turnos
<1>2. mem[a].pc \notin SinClave
  BY DEF RecuperarCreacion, Publicar, GuardarError, RecuperarSinBase, ResponderEnCurso,
         Preparar, En, SinClave
<1>3. K(a) \in Claves
  BY <1>1, <1>2, ClaveDeSolicitud
<1>4. op[K(a)].resp = "nula" => ~EnCurso
  BY <1>3, SinMarca
<1>5. CASE RecuperarCreacion(a)
  <2>1. lote' = lote /\ (\E r : Fin(a, r)) /\ (op' = op \/ op[K(a)].resp = "nula")
    BY <1>5 DEF RecuperarCreacion
  <2> QED BY <1>4, <2>1, TurnoSale
<1>6. CASE Publicar(a)
  <2>1. lote' = lote /\ ((\E r : Fin(a, r)) \/ AnteCorte(a)) /\ (op' = op \/ op[K(a)].resp = "nula")
    BY <1>6 DEF Publicar, Publicable
  <2> QED BY <1>4, <2>1, TurnoSale
<1>7. CASE GuardarError(a)
  BY <1>2, <1>7, TurnoError DEF GuardarError
<1>8. CASE RecuperarSinBase(a)
  <2>1. lote' = lote /\ op' = op /\ Fin(a, "bloqueado")
    BY <1>8 DEF RecuperarSinBase, tablas
  <2> QED BY <2>1, TurnoSale
<1>9. CASE ResponderEnCurso(a)
  <2>1. /\ (\E r : Fin(a, r)) \/ AnteCorte(a)
        /\ mem[a].pc = "en_curso"
        /\ op' = op \/ mem[a].vista.estado \in Terminales
    BY <1>9 DEF ResponderEnCurso, En
  <2>2. mem[a].vista.estado \in Terminales => ~EnCurso
    <3>1. mem[a].vista.estado \in Terminales => lote.estado \notin Activos
      BY <1>1, <2>1 DEF CopiaFresca, ConCopia, Terminales, Cerrados, Activos
    <3> QED BY <3>1, EnCursoActivo
  <2>3. lote' = lote
    BY <1>9 DEF ResponderEnCurso
  <2> QED BY <2>1, <2>2, <2>3, TurnoSale
<1>10. CASE Preparar(a)
  <2>1. CASE ConError(a, lote)
    BY <1>2, <2>1, TurnoError
  <2>2. ASSUME NEW pc \in {"encolar", "tomar"}, Ir(a, pc), UNCHANGED <<lote, op, grupo>>
        PROVE  TrasSolicitud(a)
    <3>1. SoloMueve(a) /\ CopiaFresca(mem[a])'
      BY <1>10, <2>2, CopiaSigue DEF Preparar, En
    <3> QED BY <2>2, <3>1, TurnoDeOperacion DEF TrasSolicitud
  <2> QED BY <1>10, <2>1, <2>2 DEF Preparar
<1> QED BY <1>5, <1>6, <1>7, <1>8, <1>9, <1>10

\* The request queues its lote: its operation gets the marker in that commit
LEMMA TurnoEncolar ==
    ASSUME InductivoLote, InductivoOrden, Turnos, NEW a \in Solicitudes, Encolar(a)
    PROVE  TrasSolicitud(a)
<1> DEFINE k == K(a)
<1>1. a \in Actores /\ a # Worker /\ mem[a].pc = "encolar"
  BY SolicitudNoEsWorker DEF Encolar, En
<1>2. k \in Claves /\ op \in [Claves -> FilasOperacion]
  BY <1>1, ClaveDeSolicitud, Consta DEF SinClave
<1>3. CASE Fin(a, "en_curso") /\ UNCHANGED <<lote, op>>
  BY <1>3, TurnoSale
<1>4. CASE /\ Publicable(k, "en_proceso")
           /\ op' = [op EXCEPT ![k].resp = "progreso", ![k].material = mem[a].mat]
           /\ Fin(a, "en_progreso")
  <2>1. ~EnCurso
    BY <1>2, <1>4, SinMarca DEF Publicable
  <2>2. op'[k].estado = "en_proceso" /\ op'[k].resp = "progreso"
    BY <1>2, <1>4 DEF Publicable, FilasOperacion
  <2>3. SoloMueve(a) /\ mem'[a].pc \notin ConCopia
    BY <1>1, <1>4, SaleForma DEF ConCopia
  <2> HIDE DEF k
  <2>4. ConMarca' /\ LoteDelWorker'
    BY <1>2, <2>1, <2>2, <2>3, TurnoQuieto
  <2> QED BY <2>3, <2>4, SinCopia DEF TrasSolicitud
<1> QED BY <1>3, <1>4 DEF Encolar

\* The discard: its copy was read while nobody had the lote
LEMMA TurnoDescartar ==
    ASSUME InductivoLote, InductivoOrden, Turnos, NEW a \in Solicitudes, Descartar(a)
    PROVE  TrasSolicitud(a)
<1> DEFINE v == mem[a].vista
<1>1. /\ a \in Actores /\ a # Worker /\ mem[a].pc = "descartar" /\ CopiaFresca(mem[a])
      /\ op' = op
  BY SolicitudNoEsWorker DEF Descartar, En, Turnos
<1>2. v \in FilasLote /\ lote \in FilasLote
  BY <1>1, Consta DEF Memorias
<1>3. v.estado \notin Activos
  BY <1>1, Sabe DEF Prevision, Resoluble
<1>4. lote.estado = v.estado
  BY <1>1, <1>3 DEF CopiaFresca, ConCopia
<1>5. ~EnCurso
  BY <1>3, <1>4, EnCursoActivo
<1>6. \E r : Fin(a, r)
  BY DEF Descartar
<1>7. lote'.estado # "en_cola"
  <2>1. CASE lote' = lote
    BY <1>3, <1>4, <2>1 DEF Activos
  <2>2. CASE \E gr : lote' = Escribir(lote, v, Recalculado(v.estado, gr))
    <3>1. PICK gr : lote' = Escribir(lote, v, Recalculado(v.estado, gr))
      BY <2>2
    <3>2. Recalculado(v.estado, gr) \notin Activos
      BY <1>2, <1>3, RecalculadoForma DEF FilasLote
    <3>3. lote'.estado \in {lote.estado, Recalculado(v.estado, gr)}
      BY <1>2, <3>1 DEF Escribir, FilasLote
    <3> HIDE DEF v
    <3> QED BY <1>3, <1>4, <3>2, <3>3 DEF Activos
  <2> QED BY <2>1, <2>2 DEF Descartar
<1>8. SoloMueve(a) /\ mem'[a].pc \notin ConCopia
  BY <1>1, <1>6, SaleForma DEF ConCopia
<1>9. ConMarca' /\ LoteDelWorker'
  BY <1>5, <1>7, <1>8, TurnoQuieto
<1> QED BY <1>8, <1>9, SinCopia DEF TrasSolicitud

\* The request gives up its run: the lote never goes back to the queue
LEMMA TurnoRecuperarSolicitud ==
    ASSUME InductivoLote, InductivoOrden, Turnos, NEW a \in Solicitudes, Recuperar(a)
    PROVE  TrasSolicitud(a)
<1>1. a \in Actores /\ a # Worker /\ mem[a].pc = "recuperar" /\ lote \in FilasLote
  BY SolicitudNoEsWorker, Consta DEF Recuperar, En
<1>2. K(a) \in Claves
  BY <1>1, ClaveDeSolicitud DEF SinClave
<1>3. \E r : Fin(a, r)
  BY DEF Recuperar
<1>4. CASE UNCHANGED tablas
  BY <1>3, <1>4, TurnoSale DEF tablas
<1>5. CASE ~UNCHANGED tablas
  <2>1. op[K(a)].resp = "nula"
    BY <1>5 DEF Recuperar, ResultadoGuarda
  <2>2. ~EnCurso
    BY <1>2, <2>1, SinMarca
  <2>3. \/ lote' = [lote EXCEPT !.estado = "validado", !.vieja = FALSE]
        \/ lote' = [lote EXCEPT !.estado = "requiere_reconciliacion", !.vieja = FALSE]
    BY <1>5 DEF Recuperar, Inmovilizar
  <2>4. lote'.estado # "en_cola"
    BY <1>1, <2>3 DEF FilasLote
  <2>5. SoloMueve(a) /\ mem'[a].pc \notin ConCopia
    BY <1>1, <1>3, SaleForma DEF ConCopia
  <2>6. ConMarca' /\ LoteDelWorker'
    BY <2>2, <2>4, <2>5, TurnoQuieto
  <2> QED BY <2>5, <2>6, SinCopia DEF TrasSolicitud
<1> QED BY <1>4, <1>5

\* A step of a request outside its run
LEMMA PasoDeSolicitud ==
    ASSUME InductivoLote, InductivoOrden, Turnos, NEW a \in Solicitudes, PasoSolicitud(a)
    PROVE  TrasSolicitud(a)
BY TurnoLeer, TurnoResolver, TurnoPublicar, TurnoEncolar, TurnoDescartar,
   TurnoRecuperarSolicitud
   DEF PasoSolicitud

\* A step of its run leaves the queue alone
LEMMA TurnoDeCorrida ==
    ASSUME InductivoLote, InductivoOrden, Turnos, NEW a \in Solicitudes, EnObra(mem[a]),
           SoloMueve(a), mem'[a].pc \notin ConCopia,
           lote'.estado = lote.estado \/ lote'.estado # "en_cola"
    PROVE  TrasSolicitud(a)
<1>1. ~EnCurso
  BY WorkerSinCompania
<1>2. lote.estado # "en_cola"
  BY <1>1 DEF EnCurso
<1>3. ConMarca' /\ LoteDelWorker'
  BY <1>1, <1>2, TurnoQuieto
<1> QED BY <1>3, SinCopia DEF TrasSolicitud

\* The run of the request takes the lote
LEMMA TurnoTomar ==
    ASSUME InductivoLote, InductivoOrden, Turnos, NEW a \in Solicitudes,
           Tomar(a) \/ Releer(a) \/ Capacidad(a)
    PROVE  TrasSolicitud(a)
<1> DEFINE m == mem[a]
           l == EscribirDueno(lote, m.vista, K(a), m.mat)
<1>1. /\ a \in Actores /\ a # Worker /\ mem \in [Actores -> Memorias] /\ m \in Memorias
      /\ lote \in FilasLote
  BY SolicitudNoEsWorker, Consta
<1>2. EnObra(m) /\ m.pc \notin SinClave
  BY DEF Tomar, Releer, Capacidad, En, EnObra, EnCorrida, AntesDeTomar, PasosDeCorrida, SinClave
<1>3. l.estado = lote.estado
  BY <1>1 DEF EscribirDueno, FilasLote
<1>4. ASSUME (\E r : Fin(a, r)) \/ AnteCorte(a),
             lote'.estado = lote.estado \/ lote'.estado # "en_cola"
      PROVE  TrasSolicitud(a)
  <2>1. SoloMueve(a) /\ mem'[a].pc \notin ConCopia
    BY <1>1, <1>4, SaleForma DEF ConCopia
  <2> QED BY <1>2, <1>4, <2>1, TurnoDeCorrida
<1>5. CASE Tomar(a)
  <2> HIDE DEF l
  <2>1. CASE ConError(a, l) \/ ConError(a, lote)
    BY <1>2, <1>3, <2>1, TurnoError
  <2>2. CASE DevolverLote(a, l)
    BY <1>1, <1>3, <1>4, <2>2 DEF DevolverLote
  <2>3. CASE lote' = [l EXCEPT !.estado = "procesando", !.async = m.vista.async, !.vieja = FALSE]
             /\ Ir(a, "releer")
    <3>1. lote'.estado # "en_cola"
      BY <1>1, <2>3 DEF l, EscribirDueno, FilasLote
    <3>2. SoloMueve(a) /\ mem'[a].pc = "releer"
      BY <1>1, <2>3 DEF Ir, SoloMueve, Memorias
    <3>3. mem'[a].pc \notin ConCopia
      BY <3>2 DEF ConCopia
    <3> QED BY <1>2, <3>1, <3>2, <3>3, TurnoDeCorrida
  <2> QED BY <1>5, <2>1, <2>2, <2>3 DEF Tomar, l
<1>6. CASE Releer(a)
  <2>1. CASE ConError(a, lote)
    BY <1>2, <2>1, TurnoError
  <2>2. CASE mem' = [mem EXCEPT ![a].pc = "capacidad", ![a].vista = lote] /\ lote' = lote
    <3>1. SoloMueve(a) /\ mem'[a].pc = "capacidad"
      BY <1>1, <2>2 DEF SoloMueve, Memorias
    <3>2. mem'[a].pc \notin ConCopia
      BY <3>1 DEF ConCopia
    <3> QED BY <1>2, <2>2, <3>1, <3>2, TurnoDeCorrida
  <2>3. CASE Inmovilizar(m.mat) /\ Ir(a, "guardar_error")
    <3>1. lote'.estado # "en_cola"
      BY <1>1, <2>3 DEF Inmovilizar, FilasLote
    <3>2. SoloMueve(a) /\ mem'[a].pc = "guardar_error"
      BY <1>1, <2>3 DEF Ir, SoloMueve, Memorias
    <3>3. mem'[a].pc \notin ConCopia
      BY <3>2 DEF ConCopia
    <3> QED BY <1>2, <3>1, <3>2, <3>3, TurnoDeCorrida
  <2> QED BY <1>1, <1>6, <2>1, <2>2, <2>3 DEF Releer
<1>7. CASE Capacidad(a)
  <2>1. lote'.estado = lote.estado
    BY <1>1, <1>7 DEF Capacidad, FilasLote
  <2>2. PICK c \in {1, Chunk}, p \in {"terminar", "verificar"} :
          mem' = [mem EXCEPT ![a].chunk = c, ![a].pend = m.mat, ![a].sel = m.mat, ![a].pc = p]
    <3>1. m.mat \ {} = m.mat
      OBVIOUS
    <3> HIDE DEF m
    <3> QED BY <1>1, <1>7, <3>1 DEF Capacidad, m
  <2>3. SoloMueve(a) /\ mem'[a].pc \in {"terminar", "verificar"}
    BY <1>1, <2>2 DEF SoloMueve, Memorias
  <2>4. mem'[a].pc \notin ConCopia
    BY <2>3 DEF ConCopia
  <2> QED BY <1>2, <2>1, <2>3, <2>4, TurnoDeCorrida
<1> QED BY <1>5, <1>6, <1>7

\* The steps of a sublote until its answer
LEMMA TurnoDeSublote ==
    ASSUME InductivoLote, InductivoOrden, Turnos, NEW a \in Solicitudes,
           \/ Verificar(a) \/ Reservar(a) \/ ReservarPerdida(a) \/ Marcar(a)
           \/ MarcarAmbigua(a) \/ Solicitar(a) \/ RecibirResultado(a)
    PROVE  TrasSolicitud(a)
<1> DEFINE m == mem[a]
           n == mem'[a]
<1>1. /\ a \in Actores /\ mem \in [Actores -> Memorias] /\ m \in Memorias
  BY SolicitudNoEsWorker, Consta
<1>2. EnObra(m) /\ lote' = lote
  BY DEF Verificar, Reservar, ReservarPerdida, Marcar, MarcarAmbigua, Solicitar,
         RecibirResultado, En, EnObra, EnCorrida, PasosDeCorrida, tablas
<1>3. ASSUME SoloMueve(a), n.pc \notin ConCopia
      PROVE  TrasSolicitud(a)
  BY <1>2, <1>3, TurnoDeCorrida
<1>4. ASSUME NEW s, NEW c, NEW r, SinEnviar(a, s, c, r)
      PROVE  TrasSolicitud(a)
  <2>1. SoloMueve(a) /\ (n.pc = "aplicar" \/ \E e : Fin(a, e))
    BY <1>1, <1>4, SinEnviarForma
  <2>2. n.pc \notin ConCopia
    BY <1>1, <2>1, SaleForma DEF ConCopia
  <2> QED BY <1>3, <2>1, <2>2
<1>5. ASSUME NEW pc \in {"reservar", "recuperar", "esperar"}, Ir(a, pc)
      PROVE  TrasSolicitud(a)
  <2>1. SoloMueve(a) /\ n.pc = pc
    BY <1>1, <1>5 DEF Ir, SoloMueve, Memorias
  <2> QED BY <1>3, <2>1 DEF ConCopia
<1>6. CASE mem' = [mem EXCEPT ![a].pc = "recuperar", ![a].guarda = -1, ![a].iniciada = FALSE]
  <2>1. SoloMueve(a) /\ n.pc = "recuperar"
    BY <1>1, <1>6 DEF SoloMueve, Memorias
  <2> QED BY <1>3, <2>1 DEF ConCopia
<1>7. CASE \E s : mem' = [mem EXCEPT ![a].pc = "marcar", ![a].sub = s,
                            ![a].pend = @ \ s, ![a].guarda = Len(guardas) + 1,
                            ![a].iniciada = FALSE]
  <2>1. SoloMueve(a) /\ n.pc = "marcar"
    BY <1>1, <1>7 DEF SoloMueve, Memorias
  <2> QED BY <1>3, <2>1 DEF ConCopia
<1>8. CASE mem' = [mem EXCEPT ![a].pc = "solicitar", ![a].iniciada = TRUE]
  <2>1. SoloMueve(a) /\ n.pc = "solicitar"
    BY <1>1, <1>8 DEF SoloMueve, Memorias
  <2> QED BY <1>3, <2>1 DEF ConCopia
<1>9. CASE \E s : mem' = [mem EXCEPT ![a].pc = "aplicar", ![a].aut = s,
                            ![a].cierre = "cerrada_terminal"]
  <2>1. SoloMueve(a) /\ n.pc = "aplicar"
    BY <1>1, <1>9 DEF SoloMueve, Memorias
  <2> QED BY <1>3, <2>1 DEF ConCopia
<1>10. CASE Verificar(a)
  BY <1>4, <1>5, <1>10 DEF Verificar
<1>11. CASE Reservar(a)
  BY <1>4, <1>7, <1>11 DEF Reservar
<1>12. CASE Marcar(a)
  BY <1>4, <1>8, <1>12 DEF Marcar
<1>13. CASE MarcarAmbigua(a) \/ Solicitar(a)
  BY <1>5, <1>13 DEF MarcarAmbigua, Solicitar
<1>14. CASE RecibirResultado(a) \/ ReservarPerdida(a)
  BY <1>6, <1>9, <1>14 DEF RecibirResultado, ReservarPerdida
<1> QED BY <1>10, <1>11, <1>12, <1>13, <1>14

\* The run of the request closes: an answer, an outage, a group, its end
LEMMA TurnoCierre ==
    ASSUME InductivoLote, InductivoOrden, Turnos, NEW a \in Solicitudes,
           \/ CerrarRechazoGlobal(a) \/ CerrarIncertidumbre(a) \/ CorteDeBase(a)
           \/ AplicarGrupo(a) \/ Terminar(a)
    PROVE  TrasSolicitud(a)
<1> DEFINE m == mem[a]
           n == mem'[a]
<1>1. /\ a \in Actores /\ a # Worker /\ mem \in [Actores -> Memorias] /\ m \in Memorias
      /\ lote \in FilasLote /\ m.vista \in FilasLote
  BY SolicitudNoEsWorker, Consta DEF Memorias
<1>2. CASE AnteCorte(a) /\ UNCHANGED tablas
  BY <1>2, TurnoSale DEF tablas
<1>3. ASSUME EnObra(m), NEW r, Fin(a, r), lote'.estado # "en_cola"
      PROVE  TrasSolicitud(a)
  <2>1. SoloMueve(a) /\ n.pc \notin ConCopia
    BY <1>1, <1>3, SaleForma DEF ConCopia
  <2> QED BY <1>3, <2>1, TurnoDeCorrida
<1>4. CASE CerrarRechazoGlobal(a) /\ ~(AnteCorte(a) /\ UNCHANGED tablas)
  <2>1. /\ \E gr : lote' = [lote EXCEPT !.estado = EstadoLote(gr), !.vieja = FALSE]
        /\ Fin(a, "final")
    BY <1>4 DEF CerrarRechazoGlobal
  <2>2. lote'.estado # "en_cola"
    BY <1>1, <2>1, EstadoLoteForma DEF FilasLote, Activos
  <2>3. EnObra(m)
    BY <1>4 DEF CerrarRechazoGlobal, En, EnObra, EnCorrida, PasosDeCorrida
  <2> QED BY <1>3, <2>1, <2>2, <2>3
<1>5. CASE CerrarIncertidumbre(a) /\ ~(AnteCorte(a) /\ UNCHANGED tablas)
  <2>1. /\ lote' = [lote EXCEPT !.estado = "requiere_reconciliacion", !.vieja = FALSE]
        /\ Fin(a, "final")
    BY <1>5 DEF CerrarIncertidumbre, Inmovilizar
  <2>2. lote'.estado # "en_cola"
    BY <1>1, <2>1 DEF FilasLote
  <2>3. EnObra(m)
    BY <1>5 DEF CerrarIncertidumbre, En, EnObra, EnCorrida, PasosDeCorrida
  <2> QED BY <1>3, <2>1, <2>2, <2>3
<1>6. CASE CorteDeBase(a)
  BY <1>2, <1>6 DEF CorteDeBase
<1>7. ASSUME NEW gr, NEW e, e = Recalculado(m.vista.estado, gr) \/ e = EstadoLote(gr),
             lote' = Escribir(lote, m.vista, e)
      PROVE  lote'.estado = lote.estado \/ lote'.estado # "en_cola"
  <2>1. e = m.vista.estado \/ e # "en_cola"
    BY <1>1, <1>7, RecalculadoForma, EstadoLoteForma DEF FilasLote, Activos
  <2> QED BY <1>1, <1>7, <2>1 DEF Escribir, FilasLote
<1>8. CASE AplicarGrupo(a)
  <2>1. EnObra(m)
    BY <1>8 DEF AplicarGrupo, En, EnObra, EnCorrida, PasosDeCorrida
  <2>2. lote'.estado = lote.estado \/ lote'.estado # "en_cola"
    BY <1>7, <1>8 DEF AplicarGrupo
  <2>3. SoloMueve(a) /\ n.pc \in {"aplicar", "verificar", "terminar"}
    <3> DEFINE g == CHOOSE h \in m.sub : \A j \in m.sub : h <= j
               p == IF m.sub # {g} THEN "aplicar"
                    ELSE IF m.pend # {} THEN "verificar" ELSE "terminar"
               e == Recalculado(m.vista.estado,
                       [grupo EXCEPT ![g] = IF g \in m.aut THEN "autorizado" ELSE "fallido"])
    <3>1. mem' = [mem EXCEPT ![a].sub = @ \ {g}, ![a].cierre = "nada",
                    ![a].vista.estado = e, ![a].pc = p]
      BY <1>8 DEF AplicarGrupo
    <3>2. p \in {"aplicar", "verificar", "terminar"}
      OBVIOUS
    <3> HIDE DEF g, p, e
    <3> QED BY <1>1, <3>1, <3>2 DEF Memorias, SoloMueve
  <2>4. n.pc \notin ConCopia
    BY <2>3 DEF ConCopia
  <2> QED BY <2>1, <2>2, <2>3, <2>4, TurnoDeCorrida
<1>9. CASE Terminar(a)
  <2>1. EnObra(m)
    BY <1>9 DEF Terminar, En, EnObra, EnCorrida, PasosDeCorrida
  <2>2. /\ lote' = Escribir(lote, m.vista, EstadoLote(grupo))
        /\ mem' = [mem EXCEPT ![a].pc = "publicar", ![a].vista.estado = EstadoLote(grupo)]
    BY <1>1, <1>9 DEF Terminar
  <2>3. lote'.estado = lote.estado \/ lote'.estado # "en_cola"
    BY <1>7, <2>2
  <2>4. SoloMueve(a) /\ n.pc = "publicar"
    BY <1>1, <2>2 DEF Memorias, SoloMueve
  <2>5. n.pc \notin ConCopia
    BY <2>4 DEF ConCopia
  <2> QED BY <2>1, <2>3, <2>4, <2>5, TurnoDeCorrida
<1> QED BY <1>2, <1>4, <1>5, <1>6, <1>8, <1>9

\* A step of the run of a request
LEMMA CorridaDeSolicitud ==
    ASSUME InductivoLote, InductivoOrden, Turnos, NEW a \in Solicitudes, PasoCorrida(a)
    PROVE  TrasSolicitud(a)
BY TurnoTomar, TurnoDeSublote, TurnoCierre DEF PasoCorrida

----------------------------------------------------------------------------
(* The steps of the environment.                                            *)

\* ARCA, restarts and time
LEMMA PasoDeEntorno ==
    ASSUME InductivoLote, Turnos, Entorno
    PROVE  /\ \A a \in Solicitudes : Atendida(a)' => Atendida(a)
           /\ ConMarca' /\ LoteDelWorker' /\ \A a \in Solicitudes : CopiaFresca(mem[a])'
<1>1. lote \in FilasLote /\ ConMarca /\ LoteDelWorker
  BY DEF InductivoLote, FilasEnForma, Turnos
<1>2. CASE (\E i \in DOMAIN guardas : ArcaProcesa(i)) \/ Envejecer
  <2>1. mem' = mem /\ op' = op /\ grupo' = grupo /\ lote'.estado = lote.estado
    BY <1>1, <1>2 DEF ArcaProcesa, Envejecer, FilasLote
  <2>2. ConMarca' /\ LoteDelWorker'
    BY <1>1, <2>1 DEF ConMarca, LoteDelWorker, EnCurso
  <2>3. ASSUME NEW a \in Solicitudes
        PROVE  CopiaFresca(mem[a])'
    <3>1. CopiaFresca(mem[a])
      BY DEF Turnos
    <3> QED BY <2>1, <3>1 DEF CopiaFresca, Con
  <2> QED BY <2>1, <2>2, <2>3 DEF Atendida
<1>3. CASE Caida
  <2>1. /\ lote' = lote /\ op' = op
        /\ mem' = [a \in Actores |->
             IF a = Worker \/ mem[a].pc = "inicio" THEN Inicial("inicio")
             ELSE IF mem[a].pc = "fin" THEN mem[a]
             ELSE [Inicial("fin") EXCEPT !.resp = "cortada"]]
    BY <1>3 DEF Caida, tablas
  <2>2. mem'[Worker].pc = "inicio"
    BY <2>1, WorkerEsActor DEF Inicial
  <2>3. ConMarca' /\ LoteDelWorker'
    BY <1>1, <2>1, <2>2 DEF ConMarca, LoteDelWorker, EnCurso, PasosDeCorrida
  <2>4. ASSUME NEW a \in Solicitudes
        PROVE  mem'[a].pc \in {"inicio", "fin"}
    <3>1. a \in Actores /\ a # Worker
      BY SolicitudNoEsWorker
    <3> QED BY <2>1, <3>1 DEF Inicial
  <2>5. ASSUME NEW a \in Solicitudes
        PROVE  ~Atendida(a)' /\ CopiaFresca(mem[a])'
    BY <2>4, SinCopia DEF Atendida, ConCopia
  <2> QED BY <2>3, <2>5
<1> QED BY <1>2, <1>3 DEF Entorno

----------------------------------------------------------------------------
(* One request at a time.                                                   *)

\* Who takes a step has arrived, and when it arrived it found no other
LEMMA NadieMas ==
    ASSUME SolaSolicitud, DeAUna, NEW a \in Solicitudes, PasoSolicitud(a) \/ PasoCorrida(a),
           InductivoLote
    PROVE  \A b \in Solicitudes \ {a} : ~Atendida(b)
<1>1. a \in Actores /\ a # Worker /\ mem \in [Actores -> Memorias]
  BY SolicitudNoEsWorker, Consta
<1>2. mem[a].pc # "fin" /\ (mem[a].pc = "inicio" => LeerLote(a) \/ DescartarLeer(a))
  BY <1>1 DEF PasoSolicitud, PasoCorrida, CrearOperacion, CrearAmbigua, RecuperarCreacion,
     ReclamarOperacion, EncontrarOperacion, ResponderEnCurso, Preparar, Encolar, Publicar,
     GuardarError, Recuperar, RecuperarSinBase, LeerLote, DescartarLeer, Descartar, Tomar,
     Releer, Capacidad, Verificar, Reservar, ReservarPerdida, Marcar, MarcarAmbigua,
     Solicitar, RecibirResultado, CerrarRechazoGlobal, CerrarIncertidumbre, AplicarGrupo,
     Terminar, CorteDeBase, En, PasosConBase
<1>3. CASE mem[a].pc = "inicio"
  <2>1. ASSUME NEW r, Fin(a, r)
        PROVE  mem'[a].pc # "inicio"
    BY <1>1, <2>1 DEF Fin, Inicial
  <2>2. ASSUME NEW k, NEW h, NEW m,
               mem' = [mem EXCEPT ![a].pc = "resolver", ![a].op = k,
                                  ![a].vista = lote, ![a].mat = m, ![a].huella = h]
        PROVE  mem'[a].pc # "inicio"
    <3>1. mem[a] \in Memorias
      BY <1>1
    <3> QED BY <1>1, <2>2, <3>1 DEF Memorias
  <2>3. ASSUME NEW s,
               mem' = [mem EXCEPT ![a].pc = "descartar", ![a].vista = lote, ![a].sub = s]
        PROVE  mem'[a].pc # "inicio"
    <3>1. mem[a] \in Memorias
      BY <1>1
    <3> QED BY <1>1, <2>3, <3>1 DEF Memorias
  <2>4. mem'[a].pc # "inicio"
    <3>1. CASE LeerLote(a)
      BY <2>1, <2>2, <3>1 DEF LeerLote
    <3>2. CASE DescartarLeer(a)
      BY <2>1, <2>3, <3>2 DEF DescartarLeer
    <3> QED BY <1>2, <1>3, <3>1, <3>2
  <2> QED BY <1>3, <2>4 DEF DeAUna
<1>4. CASE mem[a].pc # "inicio"
  BY <1>2, <1>4 DEF SolaSolicitud, Atendida
<1> QED BY <1>3, <1>4

\* Turnos holds at the start
LEMMA InicioTurnos == ClaveUnica /\ Init => Turnos
<1> SUFFICES ASSUME ClaveUnica, Init PROVE Turnos
  OBVIOUS
<1>1. \A a \in Actores : mem[a].pc = "inicio"
  BY DEF Init, Inicial
<1>2. Worker \in Actores /\ \A a \in Solicitudes : a \in Actores
  BY SolicitudNoEsWorker, WorkerEsActor
<1>3. lote.estado = "validado"
  BY DEF Init, LoteValidado
<1>4. ConMarca /\ LoteDelWorker
  BY <1>1, <1>2, <1>3 DEF ConMarca, LoteDelWorker, EnCurso, PasosDeCorrida
<1>5. SolaSolicitud /\ \A a \in Solicitudes : CopiaFresca(mem[a])
  BY <1>1, <1>2 DEF SolaSolicitud, Atendida, CopiaFresca, ConCopia, AntesDeTomar
<1> QED BY <1>4, <1>5 DEF Turnos

\* ... and every step keeps it, next to the other two invariants
LEMMA PasoTurnos ==
    InductivoLote /\ InductivoOrden /\ Turnos /\ [Next]_vars /\ [DeAUna]_vars => Turnos'
<1> SUFFICES ASSUME InductivoLote, InductivoOrden, Turnos, [Next]_vars, [DeAUna]_vars
             PROVE  Turnos'
  OBVIOUS
<1>1. ClaveUnica'
  BY DEF Turnos, ClaveUnica
<1>2. CASE UNCHANGED vars
  BY <1>1, <1>2 DEF vars, Turnos, SolaSolicitud, Atendida, ConMarca, EnCurso, LoteDelWorker,
                    CopiaFresca, Con
<1>3. ASSUME NEW a \in Solicitudes, PasoSolicitud(a) \/ PasoCorrida(a), DeAUna
      PROVE  Turnos'
  <2>1. TrasSolicitud(a)
    BY <1>3, PasoDeSolicitud, CorridaDeSolicitud
  <2>2. \A b \in Solicitudes \ {a} : ~Atendida(b)
    BY <1>3, NadieMas DEF Turnos
  <2>3. ASSUME NEW b \in Solicitudes \ {a}
        PROVE  mem'[b] = mem[b] /\ ~Atendida(b)'
    BY <2>1, <2>2, SolicitudNoEsWorker DEF TrasSolicitud, SoloMueve, Atendida
  <2>4. SolaSolicitud'
    BY <2>3 DEF SolaSolicitud
  <2>5. ASSUME NEW b \in Solicitudes
        PROVE  CopiaFresca(mem[b])'
    <3>1. CASE b = a
      BY <2>1, <3>1 DEF TrasSolicitud
    <3>2. CASE b # a
      <4>1. mem'[b].pc \notin ConCopia
        BY <2>3, <3>2 DEF Atendida, ConCopia
      <4> QED BY <4>1, SinCopia
    <3> QED BY <3>1, <3>2
  <2> QED BY <1>1, <2>1, <2>4, <2>5 DEF Turnos, TrasSolicitud
<1>4. CASE PasoWorker
  <2>1. TrasWorker
    BY <1>4, PasoDelWorker
  <2>2. ASSUME NEW a \in Solicitudes
        PROVE  mem'[a] = mem[a] /\ CopiaFresca(mem[a])
    BY <2>1, SolicitudNoEsWorker DEF TrasWorker, SoloMueve, Turnos
  <2>3. SolaSolicitud'
    BY <2>2 DEF Turnos, SolaSolicitud, Atendida
  <2>4. ASSUME NEW a \in Solicitudes
        PROVE  CopiaFresca(mem[a])'
    <3>1. mem'[a] = mem[a] /\ CopiaFresca(mem[a])
      BY <2>2
    <3>2. lote.estado \notin Activos => lote'.estado = lote.estado
                                        /\ Con(grupo, "validado")' = Con(grupo, "validado")
      BY <2>1 DEF TrasWorker, Con
    <3>3. \A k \in Claves : op'[k] = op[k] \/ op'[k].estado \in EstadosCerrados
      BY <2>1 DEF TrasWorker
    <3> QED BY <3>1, <3>2, <3>3 DEF CopiaFresca, EstadosCerrados
  <2> QED BY <1>1, <2>1, <2>3, <2>4 DEF Turnos, TrasWorker
<1>5. CASE Entorno
  <2>1. /\ \A a \in Solicitudes : Atendida(a)' => Atendida(a)
        /\ ConMarca' /\ LoteDelWorker' /\ \A a \in Solicitudes : CopiaFresca(mem[a])'
    BY <1>5, PasoDeEntorno
  <2>2. SolaSolicitud'
    BY <2>1 DEF Turnos, SolaSolicitud
  <2> QED BY <1>1, <2>1, <2>2 DEF Turnos
<1> QED BY <1>2, <1>3, <1>4, <1>5 DEF Next

\* With one client nobody takes the lote from under another: the two invariants
\* hold together, each with the help of the other
THEOREM LoteDeUnCliente ==
    ClaveUnica /\ Spec /\ [][DeAUna]_vars => [](InductivoOrden /\ Turnos)
<1>1. Spec => []InductivoLote
  BY LoteInductivo
<1>2. ClaveUnica /\ Init => InductivoOrden /\ Turnos
  BY InicioOrden, InicioTurnos
<1>3. InductivoLote /\ InductivoLote' /\ InductivoOrden /\ Turnos /\ [Next]_vars
      /\ [DeAUna]_vars => InductivoOrden' /\ Turnos'
  <2>1. InductivoLote /\ InductivoOrden /\ Turnos => Ordenado
    BY TurnosOrdena
  <2> QED BY <2>1, PasoOrden, PasoTurnos
<1> QED BY <1>1, <1>2, <1>3, PTL DEF Spec

\* The code keeps its order by itself for one client
THEOREM UnClienteOrdena ==
    ClaveUnica /\ Spec /\ [][DeAUna]_vars => [][Ordenado]_vars
<1>1. InductivoLote /\ InductivoOrden /\ Turnos => Ordenado
  BY TurnosOrdena
<1> QED BY <1>1, LoteInductivo, LoteDeUnCliente, PTL

\* For one client no group goes to ARCA in two FECAESolicitar
THEOREM UnEnvioDeUnCliente ==
    ClaveUnica /\ Spec /\ [][DeAUna]_vars => []UnEnvioPorGrupo
BY LoteDeUnCliente, LoteInductivo, UnEnvioEnOrden, PTL

\* For one client a group marked fallido was never authorised by ARCA
THEOREM FallidoDeUnCliente ==
    ClaveUnica /\ Spec /\ [][DeAUna]_vars => []FallidoSinCae
BY LoteDeUnCliente, FallidoEnOrden, PTL

\* For one client a completado lote has its CAE, one per group
THEOREM CompletadoDeUnCliente ==
    ClaveUnica /\ Spec /\ [][DeAUna]_vars => []CompletadoVeraz
BY LoteDeUnCliente, CompletadoEnOrden, PTL

\* For one client nothing of its owner is in ARCA while a lote waits in the queue
THEOREM ColaDeUnCliente ==
    ClaveUnica /\ Spec /\ [][DeAUna]_vars => []ColaCoherente
BY LoteDeUnCliente, LoteTipado, ColaEnOrden, PTL
==============================================================================
