------------------------- MODULE LoteResolucionProofs -------------------------
(****************************************************************************)
(* Proofs about LoteResolucion, for any requests, keys, groups and          *)
(* selections, any initial state of the lote, and any number of attempts    *)
(* and of outages: groups authorised once, discards and retries that do not *)
(* cross, the owner of a flight and the answers of the keys.                *)
(****************************************************************************)
EXTENDS LoteResolucionInv, FiniteSetTheorems, SequenceTheorems, TLAPS

----------------------------------------------------------------------------
(* Vocabulary.                                                              *)

LEMMA EstadoLoteForma ==
    ASSUME NEW gr PROVE EstadoLote(gr) \in EstadosLote
BY DEF EstadoLote, EstadosLote, Terminales, Cerrados

\* The count closes a lote only when each of its groups is resolved.
LEMMA CierreResuelto ==
    ASSUME NEW gr, EstadoLote(gr) \in Cerrados, NEW g \in Grupos
    PROVE  gr[g].estado \in {"autorizado", "autorizado_externo", "descartado"}
BY DEF EstadoLote, Cerrados, Con

LEMMA LibreForma == Libre \in Tomas /\ Libre.g = 0
BY DEF Libre, Tomas, EstadosLote, Terminales

LEMMA ReposoForma ==
    ASSUME NEW v \in Copias
    PROVE  /\ EnReposo(v) \in Memorias
           /\ EnReposo(v).pc = "inicio" /\ EnReposo(v).op = Nadie /\ EnReposo(v).sel = {}
           /\ EnReposo(v).v = v /\ EnReposo(v).pend = {} /\ EnReposo(v).g = 0
           /\ EnReposo(v).i = 0 /\ EnReposo(v).res = "nada" /\ EnReposo(v).iniciada = FALSE
           /\ EnReposo(v).toma = Libre
BY LibreForma DEF EnReposo, Memorias, Pasos, Resultados

LEMMA SinVerForma == SinVer \in Copias
BY DEF SinVer, Copias, EstadosLote, Terminales

LEMMA VistoForma ==
    ASSUME lote \in [estado : EstadosLote, dueno : Operaciones \cup {Nadie},
                     rechazo : Claves \cup {Nadie}, compacto : BOOLEAN, existe : BOOLEAN]
    PROVE  Visto(lote) \in Copias /\ Visto(lote).dueno = lote.dueno
           /\ Visto(lote).estado = lote.estado /\ Visto(lote).rechazo = lote.rechazo
BY DEF Visto, Copias

LEMMA EscribirForma ==
    ASSUME lote \in [estado : EstadosLote, dueno : Operaciones \cup {Nadie},
                     rechazo : Claves \cup {Nadie}, compacto : BOOLEAN, existe : BOOLEAN],
           NEW v, NEW e \in EstadosLote
    PROVE  /\ Escribir(v, e) \in [estado : EstadosLote, dueno : Operaciones \cup {Nadie},
                     rechazo : Claves \cup {Nadie}, compacto : BOOLEAN, existe : BOOLEAN]
           /\ Escribir(v, e).estado \in {lote.estado, e}
           /\ Escribir(v, e).dueno = lote.dueno /\ Escribir(v, e).rechazo = lote.rechazo
           /\ Escribir(v, e).compacto = lote.compacto /\ Escribir(v, e).existe = lote.existe
BY DEF Escribir

\* Changing attempts of the sequence in place.
LEMMA IntentosEscritos ==
    ASSUME intentos \in Seq(FilaDeIntento), NEW s, s = [i \in DOMAIN intentos |-> s[i]],
           \A i \in DOMAIN intentos : s[i] \in FilaDeIntento
    PROVE  /\ s \in Seq(FilaDeIntento) /\ DOMAIN s = DOMAIN intentos
           /\ intentos # <<>> => s # <<>>
<1>1. Len(intentos) \in Nat /\ DOMAIN intentos = 1..Len(intentos)
    BY LenProperties
<1>2. s \in Seq(FilaDeIntento)
  <2>. DEFINE F(i) == s[i]
  <2>1. \A i \in 1..Len(intentos) : F(i) \in FilaDeIntento
      BY <1>1
  <2>. HIDE DEF F
  <2>2. [i \in 1..Len(intentos) |-> F(i)] \in Seq(FilaDeIntento)
      BY <1>1, <2>1, IsASeq
  <2>. QED
      BY <1>1, <2>2 DEF F
<1>3. DOMAIN s = DOMAIN intentos
    OBVIOUS
<1>4. intentos # <<>> => s # <<>>
    BY <1>1, <1>2, <1>3, EmptySeq, LenProperties
<1>. QED
    BY <1>2, <1>3, <1>4

\* Changing one attempt, or only its guard.
Escrito(s, n, e, f) ==
    \/ s = [intentos EXCEPT ![n].estado = e, ![n].fase = f]
    \/ s = [intentos EXCEPT ![n].fase = f] /\ intentos[n].estado = e

LEMMA IntentoEscrito ==
    ASSUME intentos \in Seq(FilaDeIntento), NEW n \in DOMAIN intentos,
           NEW e \in EstadosIntento, NEW f \in FasesGuarda, NEW s, Escrito(s, n, e, f)
    PROVE  /\ s \in Seq(FilaDeIntento) /\ DOMAIN s = DOMAIN intentos /\ s # <<>>
           /\ \A i \in DOMAIN intentos :
                 /\ s[i].op = intentos[i].op /\ s[i].grupo = intentos[i].grupo
                 /\ s[i].numero = intentos[i].numero
                 /\ s[i].estado = IF i = n THEN e ELSE intentos[i].estado
                 /\ s[i].fase = IF i = n THEN f ELSE intentos[i].fase
<1>1. n \in 1..Len(intentos) /\ Len(intentos) \in Nat /\ DOMAIN intentos = 1..Len(intentos)
      /\ intentos # <<>>
    BY LenProperties, EmptySeq
<1>2. \A i \in DOMAIN intentos : intentos[i] \in FilaDeIntento
    BY <1>1, ElementOfSeq
<1>3. s = [i \in DOMAIN intentos |-> s[i]]
    BY <1>1 DEF Escrito
<1>4. \A i \in DOMAIN intentos :
         /\ s[i].op = intentos[i].op /\ s[i].grupo = intentos[i].grupo
         /\ s[i].numero = intentos[i].numero
         /\ s[i].estado = IF i = n THEN e ELSE intentos[i].estado
         /\ s[i].fase = IF i = n THEN f ELSE intentos[i].fase
    BY <1>1, <1>2 DEF FilaDeIntento, Escrito
<1>5. \A i \in DOMAIN intentos \ {n} : s[i] = intentos[i]
    BY <1>1 DEF Escrito
<1>6. s[n] \in FilaDeIntento
  <2>1. intentos[n] \in FilaDeIntento
      BY <1>2
  <2>2. \/ s[n] = [intentos[n] EXCEPT !.estado = e, !.fase = f]
        \/ s[n] = [intentos[n] EXCEPT !.fase = f]
      BY <1>1 DEF Escrito
  <2>. QED
      BY <2>1, <2>2 DEF FilaDeIntento
<1>. QED
    BY <1>1, <1>2, <1>3, <1>4, <1>5, <1>6, IntentosEscritos

LEMMA IntentoAgregado ==
    ASSUME intentos \in Seq(FilaDeIntento), NEW x \in FilaDeIntento,
           NEW s, s = Append(intentos, x)
    PROVE  /\ s \in Seq(FilaDeIntento) /\ DOMAIN intentos \subseteq DOMAIN s
           /\ Len(intentos) + 1 \in DOMAIN s /\ s[Len(intentos) + 1] = x
           /\ DOMAIN s = DOMAIN intentos \cup {Len(intentos) + 1}
           /\ Len(intentos) + 1 \notin DOMAIN intentos
           /\ \A i \in DOMAIN intentos : s[i] = intentos[i]
BY AppendProperties

\* A selection has a first group: the sets of smaller groups are finite, and the
\* strict order between finite sets is well founded.
LEMMA PrimeroPertenece ==
    ASSUME ResolucionAssumption, NEW S \in SUBSET Grupos, S # {}
    PROVE  Primero(S) \in S
<1> DEFINE Menores(g) == {h \in S : h < g}
           R == StrictSubsetOrdering(S)
           F == FiniteSubsetsOf(S)
           T == {Menores(g) : g \in S}
<1>1. S \subseteq Nat /\ IsFiniteSet(S)
    BY FS_Subset, ResolucionAssumption
<1>2. IsWellFoundedOn(R, F)
    BY <1>1, FS_StrictSubsetOrderingWellFounded
<1>3. T \subseteq F /\ T # {}
  <2>1. \A g \in S : Menores(g) \in F
      BY <1>1, FS_Subset DEF FiniteSubsetsOf
  <2>2. T # {}
    <3>1. PICK g \in S : TRUE
        OBVIOUS
    <3>2. Menores(g) \in T
        BY <3>1
    <3> QED BY <3>2
  <2> HIDE DEF F, Menores
  <2> QED BY <2>1, <2>2
<1>4. PICK x \in T : \A y \in T : ~(<<y, x>> \in R)
  <2> HIDE DEF T, R, F
  <2> QED BY <1>2, <1>3, WFMin
<1>5. PICK f \in S : x = Menores(f)
    OBVIOUS
<1>6. ASSUME NEW g \in S, ~(f <= g)
      PROVE  FALSE
  <2>1. g < f /\ ~(g < g) /\ \A h \in S : h < g => h < f
      BY <1>1, <1>6
  <2>2. Menores(g) \subseteq Menores(f) /\ g \in Menores(f) /\ g \notin Menores(g)
      BY <2>1
  <2>3. Menores(g) \in SUBSET S /\ Menores(f) \in SUBSET S /\ Menores(g) # Menores(f)
      BY <2>2
  <2>4. <<Menores(g), Menores(f)>> \in R
    <3> HIDE DEF Menores
    <3> QED BY <2>2, <2>3 DEF StrictSubsetOrdering
  <2>5. Menores(g) \in T
      OBVIOUS
  <2> HIDE DEF Menores, R, T
  <2> QED BY <1>4, <1>5, <2>4, <2>5
<1>7. \E g \in S : \A h \in S : g <= h
    BY <1>6
<1>. QED
    BY <1>7 DEF Primero

\* Numbers of g before and after ARCA authorises one more.
LEMMA ArcaAgregada ==
    ASSUME arca \in Seq([grupo : Grupos, via : {"propia", "web"}]),
           NEW x \in [grupo : Grupos, via : {"propia", "web"}], arca' = Append(arca, x)
    PROVE  /\ arca' \in Seq([grupo : Grupos, via : {"propia", "web"}])
           /\ DOMAIN arca \subseteq DOMAIN arca' /\ Len(arca) + 1 \in DOMAIN arca'
           /\ \A g : Propias(g)' = IF x = [grupo |-> g, via |-> "propia"]
                                   THEN Propias(g) \cup {Len(arca) + 1} ELSE Propias(g)
<1>1. /\ arca' \in Seq([grupo : Grupos, via : {"propia", "web"}]) /\ Len(arca) \in Nat
      /\ DOMAIN arca = 1..Len(arca) /\ DOMAIN arca' = 1..(Len(arca) + 1)
      /\ \A i \in 1..Len(arca) : arca'[i] = arca[i]
      /\ arca'[Len(arca) + 1] = x
    BY AppendProperties, LenProperties
<1>. QED
    BY <1>1 DEF Propias
----------------------------------------------------------------------------
(* What a step leaves alone.  A step of a session works on the groups s and *)
(* nobody else does: outside s it may only immobilise a group for           *)
(* reconciliation or record that it was issued outside.                     *)

MarcoMem(a, s) ==
    /\ \A b \in Sesiones \ {a} : mem'[b] = mem[b]
    /\ \A b \in Reintentos \ {a} : Ocupa(b) => mem[b].g \notin s

MarcoIntentos(s) ==
    /\ DOMAIN intentos \subseteq DOMAIN intentos'
    /\ \A i \in DOMAIN intentos :
          /\ intentos'[i].op = intentos[i].op /\ intentos'[i].grupo = intentos[i].grupo
          /\ intentos'[i].numero = intentos[i].numero
          /\ intentos[i].grupo \notin s =>
                /\ intentos'[i].fase \in EnArca <=> intentos[i].fase \in EnArca
                /\ intentos'[i].fase \in Antes <=> intentos[i].fase \in Antes
    /\ \A i \in DOMAIN intentos' \ DOMAIN intentos : intentos'[i].fase \notin EnArca

MarcoArca(s) ==
    /\ DOMAIN arca \subseteq DOMAIN arca'
    /\ \A g \in Grupos \ s : Propias(g)' = Propias(g)

MarcoGrupo(a, s) ==
    /\ \A g \in Grupos \ s :
          \/ grupo'[g] = grupo[g]
          \/ /\ grupo'[g].estado = "requiere_reconciliacion"
             /\ grupo'[g].numero = grupo[g].numero
          \/ /\ grupo'[g].estado = "autorizado_externo"
             /\ g \in cruzados' \/ \A b \in Reintentos : SinEnvio(b) => mem[b].g # g
    /\ a # Usuario => \A g \in Tomados : grupo'[g] = grupo[g]

MarcoOp ==
    \A k \in Operaciones :
        \/ op'[k] = op[k]
        \/ /\ op[k].resp = "nula"
           /\ op'[k].resp = "nula" \/ op'[k].estado \notin {"inexistente", "interrumpida_pre_arca"}

MarcoLote ==
    /\ \/ lote'.dueno = lote.dueno \/ lote.dueno = Nadie
       \/ lote.dueno \in Operaciones /\ op[lote.dueno].resp = "final"
    /\ lote'.existe => lote.existe
    /\ ~lote'.compacto => ~lote.compacto
    /\ lote'.estado \in Cerrados =>
          \/ lote'.estado \in {lote.estado, EstadoLote(grupo)'}
          \/ \A h \in Grupos : Quieto(h)'

MarcoFilas(s) ==
    lote'.existe /\ ~lote'.compacto =>
        \A g \in Grupos \ s :
            \/ fila'[g] = fila[g] /\ grupo'[g].estado = grupo[g].estado
            \/ fila'[g] = grupo'[g].estado /\ grupo'[g].estado # "reintentando"

Marco(a, s) ==
    /\ MarcoMem(a, s) /\ MarcoIntentos(s) /\ MarcoArca(s) /\ MarcoGrupo(a, s)
    /\ MarcoOp /\ MarcoLote /\ MarcoFilas(s) /\ cruzados \subseteq cruzados'

\* What the step owes: about the groups s, and about its session
DebeGrupo(g) ==
    /\ (g \in Soltables => NadaEnArca(g, 0))'
    /\ (\A m, n \in Propias(g) : m = n)'
    /\ (Propias(g) # {} => intentos # <<>>)'
    /\ lote'.existe /\ ~lote'.compacto =>
          grupo'[g].estado = "reintentando" \/ fila'[g] = grupo'[g].estado
    /\ (g \in Soltables => grupo[g].numero = 0 \/ g \in cruzados)'
    /\ Quieto(g) => Quieto(g)'

FilaDe(a) ==
    /\ Ocupa(a) /\ grupo[mem[a].g].estado = "reintentando"
    /\ lote.existe /\ ~lote.compacto
    => fila[mem[a].g] = "fallido"

DebeSesion(a, s) ==
    /\ Sesion(a)' /\ Dueno(a)' /\ EnTrabajo(a)' /\ FilaDe(a)'
    /\ Ocupa(a)' => mem'[a].g \in s
    /\ SinNumeroDe(a)'
    /\ SinEnvio(a)' => \/ SinEnvio(a) /\ mem'[a].g = mem[a].g
                       \/ mem'[a].g \notin Tomados

DebeUsuario == SesionUsuario' /\ Toma' /\ TomaFirme'

Debe(a, s) ==
    /\ Formas' /\ VueloEnProceso' /\ DuenoDelVuelo'
    /\ \A g \in s : DebeGrupo(g)
    /\ IF a = Usuario THEN DebeUsuario ELSE DebeSesion(a, s)

----------------------------------------------------------------------------
(* A step with such a frame keeps the invariant.                            *)

\* What is known of a group outside s after the step.
LEMMA NadaSigue ==
    ASSUME NEW s \in SUBSET Grupos, MarcoIntentos(s), MarcoArca(s), NEW g \in Grupos \ s,
           NEW i, NadaEnArca(g, i)
    PROVE  NadaEnArca(g, i)'
<1>1. Propias(g)' = {}
    BY DEF MarcoArca, NadaEnArca
<1>2. ASSUME NEW j \in DOMAIN intentos', intentos'[j].grupo = g, intentos'[j].fase \in EnArca
      PROVE  j = i
  <2>1. j \in DOMAIN intentos
      BY <1>2 DEF MarcoIntentos
  <2>. QED
      BY <1>2, <2>1 DEF MarcoIntentos, NadaEnArca
<1>. QED
    BY <1>1, <1>2 DEF NadaEnArca

\* A retry that does not take part in the step.
LEMMA SesionSigue ==
    ASSUME ResolucionAssumption, InductivoResolucion, Formas', NEW a \in Sesiones,
           NEW s \in SUBSET Grupos, Marco(a, s), NEW b \in Reintentos \ {a}
    PROVE  /\ Sesion(b)' /\ Dueno(b)' /\ EnTrabajo(b)' /\ FilaDe(b)'
           /\ Ocupa(b)' = Ocupa(b) /\ SinEnvio(b)' = SinEnvio(b) /\ mem'[b] = mem[b]
           /\ Ocupa(b) => mem[b].g \notin s
           /\ SinNumeroDe(b)'
<1>1. mem'[b] = mem[b] /\ (Ocupa(b) => mem[b].g \notin s) /\ mem[b] \in Memorias
    BY DEF Marco, MarcoMem, Sesiones, InductivoResolucion, Formas
<1>2. Ocupa(b)' = Ocupa(b) /\ SinEnvio(b)' = SinEnvio(b)
    BY <1>1 DEF Ocupa, SinEnvio, Enviado
<1>3. Sesion(b) /\ Dueno(b) /\ EnTrabajo(b) /\ FilaDe(b)
    BY DEF InductivoResolucion, FilaDelReintento, FilaDe
<1>4. Ocupa(b) => mem[b].g \in Grupos
    BY <1>1, <1>3, ResolucionAssumption DEF Sesion, Memorias
<1>5. ASSUME IntentoPropio(b), Ocupa(b)
      PROVE  IntentoPropio(b)' /\ (Fase(b)' \in EnArca <=> Fase(b) \in EnArca)
             /\ (Fase(b)' \in Antes <=> Fase(b) \in Antes)
             /\ intentos'[mem[b].i].numero = intentos[mem[b].i].numero
    BY <1>1, <1>5 DEF IntentoPropio, Fase, Marco, MarcoIntentos
<1>6. Sesion(b)'
  <2>1. mem[b].pc \in {"marcar", "solicitar", "aplicar"} => Ocupa(b)
      BY DEF Ocupa, PasosDeEmision
  <2>2. DOMAIN arca \subseteq DOMAIN arca'
      BY DEF Marco, MarcoArca
  <2>3. mem[b].pc = "marcar" => (IntentoPropio(b) /\ Fase(b) \in Antes)' 
      BY <1>3, <1>5, <2>1 DEF Sesion
  <2>4. mem[b].pc = "solicitar" => (IntentoPropio(b) /\ Fase(b) \in EnArca)'
      BY <1>3, <1>5, <2>1 DEF Sesion
  <2>5. mem[b].pc = "aplicar" =>
            IF mem[b].res = "bloqueado"
            THEN mem[b].i = 0 \/ (IntentoPropio(b) /\ Fase(b) \in Antes)'
            ELSE mem[b].res # "nada" /\ (IntentoPropio(b) /\ Fase(b) \in EnArca)'
      BY <1>3, <1>5, <2>1 DEF Sesion
  <2>6. mem[b].pc = "aplicar" /\ mem[b].res = "autorizado" =>
            intentos'[mem[b].i].numero \in DOMAIN arca'
      BY <1>3, <1>5, <2>1, <2>2 DEF Sesion
  <2>. QED
      BY <1>1, <1>2, <1>3, <2>3, <2>4, <2>5, <2>6 DEF Sesion
<1>7. Dueno(b)'
  <2>1. SUFFICES ASSUME mem[b].pc \in {"revalidar", "reservar", "marcar"}
                 PROVE  mem[b].v.dueno = mem[b].op
                        /\ (lote'.dueno = mem[b].op \/ op'[mem[b].op].resp = "final")
      BY <1>1 DEF Dueno
  <2>2. mem[b].op \in Claves /\ mem[b].op \in Operaciones /\ mem[b].op # Nadie
      BY <1>3, <2>1, ResolucionAssumption DEF Sesion, Operaciones
  <2>3. lote'.dueno = lote.dueno \/ lote.dueno = Nadie \/ op[lote.dueno].resp = "final"
      BY DEF Marco, MarcoLote
  <2>4. op[mem[b].op].resp = "final" => op'[mem[b].op].resp = "final"
      BY <2>2 DEF Marco, MarcoOp
  <2>. QED
      BY <1>3, <2>1, <2>2, <2>3, <2>4 DEF Dueno
<1>8. Ocupa(b) =>
        \/ grupo'[mem[b].g] = grupo[mem[b].g]
        \/ /\ grupo'[mem[b].g].estado = "requiere_reconciliacion"
           /\ grupo'[mem[b].g].numero = grupo[mem[b].g].numero
        \/ /\ grupo'[mem[b].g].estado = "autorizado_externo"
           /\ mem[b].g \in cruzados' \/ ~SinEnvio(b)
    BY <1>1, <1>4 DEF Marco, MarcoGrupo
<1>9. EnTrabajo(b)'
  <2>1. Ocupa(b) => grupo'[mem[b].g].estado
                     \in {"reintentando", "requiere_reconciliacion", "autorizado_externo"}
      BY <1>3, <1>8 DEF EnTrabajo
  <2>2. SinEnvio(b) => NadaEnArca(mem[b].g, mem[b].i)'
    <3>1. SinEnvio(b) => Ocupa(b)
        BY DEF SinEnvio
    <3>2. ASSUME SinEnvio(b), NEW g, g = mem[b].g, NEW i, i = mem[b].i
          PROVE  NadaEnArca(g, i)'
        BY <1>1, <1>3, <1>4, <3>1, <3>2, NadaSigue DEF EnTrabajo, Marco
    <3>. QED
        BY <1>1, <3>2 DEF NadaEnArca
  <2>. QED
      BY <1>1, <1>2, <2>1, <2>2 DEF EnTrabajo
<1>10. FilaDe(b)'
    BY <1>1, <1>2, <1>3, <1>4 DEF FilaDe, Marco, MarcoFilas, MarcoLote
<1>11. SinNumeroDe(b)'
  <2>1. SinEnvio(b) => Ocupa(b)
      BY DEF SinEnvio
  <2>2. SinNumeroDe(b)
      BY DEF InductivoResolucion, SinNumero, SinNumeroDe
  <2>. QED
      BY <1>1, <1>2, <1>8, <2>1, <2>2 DEF SinNumeroDe, Marco
<1>. QED
    BY <1>1, <1>2, <1>6, <1>7, <1>9, <1>10, <1>11

\* A group that is resolved for good stays so.
LEMMA QuietoSigue ==
    ASSUME ResolucionAssumption, InductivoResolucion, Formas', NEW a \in Sesiones,
           NEW s \in SUBSET Grupos, Marco(a, s), Debe(a, s),
           NEW h \in Grupos, Quieto(h)
    PROVE  Quieto(h)'
<1>1. CASE h \in s
    BY <1>1 DEF Debe, DebeGrupo
<1>2. CASE h \in cruzados
    BY <1>2 DEF Quieto, Marco
<1>3. CASE h \notin s /\ Resuelto(h)
  <2>1. grupo'[h].estado \notin Resolubles
      BY <1>3 DEF Resuelto, Marco, MarcoGrupo, Resolubles
  <2>2. ASSUME NEW b \in Reintentos, SinEnvio(b)'
        PROVE  mem'[b].g # h
    <3>1. CASE b = a
        BY <1>3, <2>2, <3>1, ResolucionAssumption DEF Debe, DebeSesion, SinEnvio
    <3>2. CASE b # a
      <4>1. mem'[b] = mem[b] /\ SinEnvio(b)
        <5>1. b \in Reintentos \ {a}
            BY <3>2
        <5>2. mem'[b] = mem[b] /\ SinEnvio(b)' = SinEnvio(b)
            BY <5>1, SesionSigue
        <5>. QED
            BY <2>2, <5>2
      <4>. QED
          BY <1>3, <4>1 DEF Resuelto
    <3>. QED
        BY <3>1, <3>2
  <2>. QED
      BY <2>1, <2>2 DEF Quieto, Resuelto
<1>. QED
    BY <1>1, <1>2, <1>3 DEF Quieto

\* What the user holds is not touched by a retry.
LEMMA TomaSigue ==
    ASSUME ResolucionAssumption, InductivoResolucion, Formas', NEW a \in Reintentos,
           NEW s \in SUBSET Grupos, Marco(a, s), Debe(a, s)
    PROVE  SesionUsuario' /\ Toma' /\ TomaFirme'
<1>1. mem'[Usuario] = mem[Usuario] /\ a # Usuario /\ a \in Sesiones /\ Usuario \in Sesiones
    BY ResolucionAssumption DEF Marco, MarcoMem, Sesiones
<1>2. SesionUsuario'
    BY <1>1 DEF SesionUsuario, InductivoResolucion
<1>3. mem[Usuario].pc = "confirmar" =>
        mem[Usuario].toma.g \in Tomados /\ mem[Usuario].toma.g \in Grupos
    BY <1>1 DEF InductivoResolucion, SesionUsuario, Tomados, Formas, Memorias, Tomas
<1>4. mem[Usuario].pc = "confirmar" =>
        grupo'[mem[Usuario].toma.g] = grupo[mem[Usuario].toma.g]
    BY <1>1, <1>3 DEF Marco, MarcoGrupo
<1>5. Toma'
    BY <1>1, <1>4 DEF Toma, InductivoResolucion, Marco, MarcoArca
<1>6. TomaFirme'
  <2>1. TomaFirme /\ cruzados \subseteq cruzados'
      BY DEF InductivoResolucion, Marco
  <2>2. ASSUME mem[Usuario].pc = "confirmar", mem[Usuario].toma.g \notin cruzados,
               NEW b \in Reintentos, SinEnvio(b)'
        PROVE  mem'[b].g # mem[Usuario].toma.g
    <3>1. CASE b = a
        BY <1>1, <1>3, <2>1, <2>2, <3>1 DEF Debe, DebeSesion, TomaFirme
    <3>2. CASE b # a
      <4>1. b \in Reintentos \ {a}
          BY <3>2
      <4>2. mem'[b] = mem[b] /\ SinEnvio(b)' = SinEnvio(b)
          BY <1>1, <4>1, SesionSigue
      <4>. QED
          BY <1>1, <2>1, <2>2, <4>2 DEF TomaFirme
    <3>. QED
        BY <3>1, <3>2
  <2>3. \A h \in Grupos : Quieto(h) => Quieto(h)'
      BY <1>1, QuietoSigue
  <2>. QED
      BY <1>1, <2>1, <2>2, <2>3 DEF TomaFirme
<1>. QED
    BY <1>2, <1>5, <1>6

LEMMA IntentosQuedan ==
    ASSUME InductivoResolucion, Formas', NEW s, MarcoIntentos(s), intentos # <<>>
    PROVE  intentos' # <<>>
<1>1. intentos \in Seq(FilaDeIntento) /\ intentos' \in Seq(FilaDeIntento)
    BY DEF InductivoResolucion, Formas
<1>2. DOMAIN intentos # {} /\ DOMAIN intentos \subseteq DOMAIN intentos'
    BY <1>1, EmptySeq, LenProperties DEF MarcoIntentos
<1>. QED
    BY <1>2

LEMMA PasoConMarco ==
    ASSUME ResolucionAssumption, InductivoResolucion, NEW a \in Sesiones,
           NEW s \in SUBSET Grupos, Marco(a, s), Debe(a, s)
    PROVE  InductivoResolucion'
<1>1. Formas' /\ VueloEnProceso' /\ DuenoDelVuelo'
    BY DEF Debe
<1>2. SinRespuesta'
    BY DEF Marco, MarcoOp, InductivoResolucion, SinRespuesta
<1>3. SesionUsuario' /\ Toma' /\ TomaFirme'
  <2>1. CASE a = Usuario
      BY <2>1 DEF Debe, DebeUsuario
  <2>2. CASE a # Usuario
      BY <1>1, <2>2, TomaSigue DEF Sesiones
  <2>. QED
      BY <2>1, <2>2
<1>4. ASSUME NEW b \in Reintentos
      PROVE  /\ Sesion(b)' /\ Dueno(b)' /\ EnTrabajo(b)' /\ FilaDe(b)'
             /\ SinNumeroDe(b)'
  <2>1. CASE b = a
      BY <2>1, ResolucionAssumption DEF Debe, DebeSesion
  <2>2. CASE b # a
    <3>1. b \in Reintentos \ {a}
        BY <2>2
    <3>. QED
        BY <1>1, <3>1, SesionSigue
  <2>. QED
      BY <2>1, <2>2
<1>5. UnoPorGrupo'
  <2>1. SUFFICES ASSUME NEW b \in Reintentos, NEW c \in Reintentos, Ocupa(b)', Ocupa(c)',
                        mem'[b].g = mem'[c].g, b # c
                 PROVE  FALSE
      BY DEF UnoPorGrupo
  <2>2. \A d \in Reintentos \ {a} :
            Ocupa(d)' = Ocupa(d) /\ mem'[d] = mem[d] /\ (Ocupa(d) => mem[d].g \notin s)
      BY <1>1, SesionSigue
  <2>3. a \in Reintentos => (Ocupa(a)' => mem'[a].g \in s)
      BY ResolucionAssumption DEF Debe, DebeSesion
  <2>4. UnoPorGrupo
      BY DEF InductivoResolucion
  <2>. QED
      BY <2>1, <2>2, <2>3, <2>4 DEF UnoPorGrupo
<1>6. ASSUME NEW g \in Soltables'
      PROVE  NadaEnArca(g, 0)'
  <2>1. g \in Grupos
      BY DEF Soltables, Con
  <2>2. CASE g \in s
      BY <2>2 DEF Debe, DebeGrupo
  <2>3. CASE g \notin s
    <3>1. g \in Soltables
        BY <2>1, <2>3 DEF Marco, MarcoGrupo, Soltables, Con, Resolubles
    <3>. QED
        BY <2>1, <2>3, <3>1, NadaSigue DEF InductivoResolucion, SueltoSinArca, Marco
  <2>. QED
      BY <2>2, <2>3
<1>7. SueltoSinArca'
    BY <1>6 DEF SueltoSinArca
<1>8. UnaPropia'
  <2>1. ASSUME NEW g \in Grupos, NEW m \in Propias(g)', NEW n \in Propias(g)'
        PROVE  m = n
    <3>1. CASE g \in s
        BY <2>1, <3>1 DEF Debe, DebeGrupo
    <3>2. CASE g \notin s
      <4>1. Propias(g)' = Propias(g)
          BY <2>1, <3>2 DEF Marco, MarcoArca
      <4>2. m \in Propias(g) /\ n \in Propias(g)
          BY <4>1
      <4>. QED
          BY <2>1, <4>2 DEF InductivoResolucion, UnaPropia
    <3>. QED
        BY <3>1, <3>2
  <2>. QED
      BY <2>1 DEF UnaPropia
<1>9. PropiaConIntento'
  <2>1. ASSUME NEW g \in Grupos, Propias(g)' # {}
        PROVE  intentos' # <<>>
    <3>1. CASE g \in s
        BY <2>1, <3>1 DEF Debe, DebeGrupo
    <3>2. CASE g \notin s
      <4>1. intentos # <<>>
          BY <2>1, <3>2 DEF Marco, MarcoArca, InductivoResolucion, PropiaConIntento
      <4>. QED
          BY <1>1, <4>1, IntentosQuedan DEF Marco
    <3>. QED
        BY <3>1, <3>2
  <2>. QED
      BY <2>1 DEF PropiaConIntento
<1>10. FilasSiguen'
  <2>1. ASSUME NEW g \in Grupos, lote'.existe, ~lote'.compacto
        PROVE  grupo'[g].estado = "reintentando" \/ fila'[g] = grupo'[g].estado
    <3>1. CASE g \in s
        BY <2>1, <3>1 DEF Debe, DebeGrupo
    <3>2. CASE g \notin s
        BY <2>1, <3>2 DEF Marco, MarcoFilas, MarcoLote, InductivoResolucion, FilasSiguen
    <3>. QED
        BY <3>1, <3>2
  <2>. QED
      BY <2>1 DEF FilasSiguen
<1>11. FilaDelReintento'
    BY <1>4 DEF FilaDe, FilaDelReintento
<1>12. SinNumero' /\ CerradoQuieto'
  <2>1. ASSUME NEW g \in Soltables'
        PROVE  grupo'[g].numero = 0 \/ g \in cruzados'
    <3>1. g \in Grupos
        BY DEF Soltables, Con
    <3>2. CASE g \in s
        BY <2>1, <3>2 DEF Debe, DebeGrupo
    <3>3. CASE g \notin s
      <4>1. g \in Soltables /\ grupo'[g] = grupo[g]
          BY <3>1, <3>3 DEF Marco, MarcoGrupo, Soltables, Con, Resolubles
      <4>. QED
          BY <4>1 DEF InductivoResolucion, SinNumero, Marco
    <3>. QED
        BY <3>2, <3>3
  <2>2. SinNumero'
      BY <1>4, <2>1 DEF SinNumero
  <2>3. ASSUME lote'.estado \in Cerrados, NEW h \in Grupos
        PROVE  Quieto(h)'
    <3>1. CASE lote'.estado = lote.estado
        BY <1>1, <2>3, <3>1, QuietoSigue DEF InductivoResolucion, CerradoQuieto
    <3>2. CASE lote'.estado = EstadoLote(grupo)'
      <4>1. grupo'[h].estado \in {"autorizado", "autorizado_externo", "descartado"}
        <5>1. ASSUME NEW gr, gr = grupo', EstadoLote(gr) \in Cerrados
              PROVE  gr[h].estado \in {"autorizado", "autorizado_externo", "descartado"}
            BY <5>1, <2>3, CierreResuelto
        <5>2. EstadoLote(grupo') \in Cerrados
            BY <2>3, <3>2 DEF EstadoLote, Con
        <5>. QED
            BY <5>1, <5>2
      <4>2. ASSUME NEW b \in Reintentos, SinEnvio(b)'
            PROVE  mem'[b].g # h \/ h \in cruzados'
          BY <1>4, <4>1, <4>2 DEF SinNumeroDe, EnTrabajo, SinEnvio
      <4>. QED
          BY <4>1, <4>2 DEF Quieto, Resuelto, Resolubles
    <3>. QED
        BY <2>3, <3>1, <3>2 DEF Marco, MarcoLote
  <2>. QED
      BY <2>2, <2>3 DEF CerradoQuieto
<1>. QED
    BY <1>1, <1>2, <1>3, <1>4, <1>5, <1>7, <1>8, <1>9, <1>10, <1>11, <1>12
       DEF InductivoResolucion

----------------------------------------------------------------------------
(* Shape of the state, part by part.                                        *)

TipoLote == [estado : EstadosLote, dueno : Operaciones \cup {Nadie},
             rechazo : Claves \cup {Nadie}, compacto : BOOLEAN, existe : BOOLEAN]
TipoGrupo == [estado : EstadosGrupo, numero : Nat]
TipoOp == [estado : {"inexistente", "en_proceso", "interrumpida_pre_arca", "finalizado",
                     "fallido_verificado", "rechazado_arca", "requiere_reconciliacion"},
           resp : {"nula", "final", "error"}, sel : SUBSET Grupos]
TipoArca == [grupo : Grupos, via : {"propia", "web"}]

LEMMA FormasPartes ==
    Formas <=> /\ lote \in TipoLote /\ grupo \in [Grupos -> TipoGrupo]
               /\ fila \in [Grupos -> EstadosGrupo \cup {"borrada"}]
               /\ op \in [Operaciones -> TipoOp] /\ comprobantes \subseteq DOMAIN arca
               /\ intentos \in Seq(FilaDeIntento) /\ arca \in Seq(TipoArca)
               /\ mem \in [Sesiones -> Memorias] /\ fallas \in Nat
               /\ cruzados \subseteq Grupos
<1>1. ASSUME op \in [Operaciones -> TipoOp], NEW k \in Operaciones
      PROVE  /\ op[k].estado \in {"inexistente", "en_proceso", "interrumpida_pre_arca", "finalizado",
                               "fallido_verificado", "rechazado_arca", "requiere_reconciliacion"}
             /\ op[k].resp \in {"nula", "final", "error"}
             /\ op[k].sel \subseteq Grupos
    BY <1>1 DEF TipoOp
<1>. QED
    BY <1>1 DEF Formas, TypeOK, TipoLote, TipoGrupo, TipoOp, TipoArca

LEMMA FormasPartesSiguientes ==
    Formas' <=> /\ lote' \in TipoLote /\ grupo' \in [Grupos -> TipoGrupo]
                /\ fila' \in [Grupos -> EstadosGrupo \cup {"borrada"}]
                /\ op' \in [Operaciones -> TipoOp] /\ comprobantes' \subseteq DOMAIN arca'
                /\ intentos' \in Seq(FilaDeIntento) /\ arca' \in Seq(TipoArca)
                /\ mem' \in [Sesiones -> Memorias] /\ fallas' \in Nat
                /\ cruzados' \subseteq Grupos
<1>1. ASSUME op' \in [Operaciones -> TipoOp], NEW k \in Operaciones
      PROVE  /\ op'[k].estado \in {"inexistente", "en_proceso", "interrumpida_pre_arca", "finalizado",
                               "fallido_verificado", "rechazado_arca", "requiere_reconciliacion"}
             /\ op'[k].resp \in {"nula", "final", "error"}
             /\ op'[k].sel \subseteq Grupos
    BY <1>1 DEF TipoOp
<1>. QED
    BY <1>1 DEF Formas, TypeOK, TipoLote, TipoGrupo, TipoOp, TipoArca

\* Only session a moves.
Mueve(a) == mem' \in [Sesiones -> Memorias] /\ \A b \in Sesiones \ {a} : mem'[b] = mem[b]

\* What the invariant says of a retry.
LEMMA DeLaSesion ==
    ASSUME ResolucionAssumption, InductivoResolucion, NEW a \in Reintentos
    PROVE  /\ a \in Sesiones /\ a # Usuario /\ mem[a] \in Memorias
           /\ Sesion(a) /\ Dueno(a) /\ EnTrabajo(a) /\ FilaDe(a) /\ Formas
           /\ SinNumeroDe(a)
           /\ Ocupa(a) => mem[a].g \in Grupos
           /\ Ocupa(a) => \A b \in Reintentos \ {a} : Ocupa(b) => mem[b].g # mem[a].g
           /\ mem[a].pc # "inicio" => mem[a].op \in Claves /\ mem[a].op \in Operaciones
                                      /\ mem[a].op # Nadie
<1>1. /\ a \in Sesiones /\ a # Usuario /\ mem[a] \in Memorias /\ Formas
      /\ Sesion(a) /\ Dueno(a) /\ EnTrabajo(a)
    BY ResolucionAssumption DEF InductivoResolucion, Formas, Sesiones
<1>2. FilaDe(a)
    BY DEF InductivoResolucion, FilaDelReintento, FilaDe
<1>3. SinNumeroDe(a)
    BY DEF InductivoResolucion, SinNumero, SinNumeroDe
<1>4. Ocupa(a) => mem[a].g \in Grupos
    BY <1>1 DEF Sesion, Memorias
<1>5. Ocupa(a) => \A b \in Reintentos \ {a} : Ocupa(b) => mem[b].g # mem[a].g
    BY DEF InductivoResolucion, UnoPorGrupo
<1>6. mem[a].pc # "inicio" => mem[a].op \in Claves /\ mem[a].op \in Operaciones
                               /\ mem[a].op # Nadie
    BY <1>1, ResolucionAssumption DEF Sesion, Operaciones
<1>. QED
    BY <1>1, <1>2, <1>3, <1>4, <1>5, <1>6

LEMMA FinMueve ==
    ASSUME Formas, NEW a \in Sesiones, Fin(a)
    PROVE  Mueve(a) /\ mem'[a] = EnReposo(SinVer)
BY ReposoForma, SinVerForma, FormasPartes DEF Fin, Mueve

LEMMA IrMueve ==
    ASSUME Formas, NEW a \in Sesiones, NEW p \in Pasos, Ir(a, p)
    PROVE  /\ Mueve(a) /\ mem'[a] = [mem[a] EXCEPT !.pc = p] /\ mem'[a].pc = p
           /\ mem'[a].op = mem[a].op /\ mem'[a].sel = mem[a].sel /\ mem'[a].v = mem[a].v
           /\ mem'[a].pend = mem[a].pend /\ mem'[a].g = mem[a].g /\ mem'[a].i = mem[a].i
           /\ mem'[a].res = mem[a].res /\ mem'[a].iniciada = mem[a].iniciada
           /\ mem'[a].toma = mem[a].toma
<1>1. mem[a] \in Memorias /\ [mem[a] EXCEPT !.pc = p] \in Memorias
    BY FormasPartes DEF Memorias
<1>2. mem' = [mem EXCEPT ![a] = [mem[a] EXCEPT !.pc = p]]
    BY DEF Ir
<1>3. Mueve(a) /\ mem'[a] = [mem[a] EXCEPT !.pc = p]
    BY <1>1, <1>2, FormasPartes DEF Mueve
<1>. QED
    BY <1>1, <1>3 DEF Memorias

\* A session at rest owes nothing.
LEMMA FinSesion ==
    ASSUME NEW a, mem'[a] = EnReposo(SinVer)
    PROVE  Sesion(a)' /\ ~Ocupa(a)'
<1>1. /\ mem'[a].pc = "inicio" /\ mem'[a].g = 0 /\ mem'[a].iniciada = FALSE
      /\ mem'[a].toma = Libre
    BY DEF EnReposo
<1>2. ~Ocupa(a)'
    BY <1>1 DEF Ocupa, PasosDeEmision
<1>. QED
    BY <1>1, <1>2 DEF Sesion, PasosDeEmision

----------------------------------------------------------------------------
(* Frames of the parts a step leaves as they are.                           *)

LEMMA MarcosIguales ==
    ASSUME NEW a, NEW s
    PROVE  /\ UNCHANGED intentos => MarcoIntentos(s)
           /\ UNCHANGED arca => MarcoArca(s)
           /\ UNCHANGED grupo => MarcoGrupo(a, s)
           /\ UNCHANGED op => MarcoOp
           /\ UNCHANGED lote => MarcoLote
           /\ UNCHANGED <<lote, grupo, fila>> => MarcoFilas(s)
<1>1. UNCHANGED intentos => MarcoIntentos(s)
    BY DEF MarcoIntentos
<1>2. UNCHANGED arca => MarcoArca(s)
    BY DEF MarcoArca, Propias
<1>3. UNCHANGED grupo => MarcoGrupo(a, s)
    BY DEF MarcoGrupo
<1>4. UNCHANGED op => MarcoOp
    BY DEF MarcoOp
<1>5. UNCHANGED lote => MarcoLote
    BY DEF MarcoLote
<1>6. UNCHANGED <<lote, grupo, fila>> => MarcoFilas(s)
    BY DEF MarcoFilas
<1>. QED
    BY <1>1, <1>2, <1>3, <1>4, <1>5, <1>6

LEMMA VueloIgual ==
    ASSUME InductivoResolucion, UNCHANGED intentos, lote'.existe = lote.existe,
           lote'.dueno = lote.dueno
    PROVE  VueloEnProceso' /\ DuenoDelVuelo'
BY DEF InductivoResolucion, VueloEnProceso, DuenoDelVuelo

LEMMA IgualesSiguientes ==
    ASSUME NEW g, Propias(g)' = Propias(g), \A m, n \in Propias(g) : m = n
    PROVE  (\A m, n \in Propias(g) : m = n)'
<1>1. ASSUME NEW S, \A m, n \in Propias(g) : m = n, S = Propias(g)
      PROVE  \A m, n \in S : m = n
    BY <1>1
<1>. QED
    BY <1>1

\* A group of which nothing changes, and that was not at rest.
LEMMA GrupoIgual ==
    ASSUME InductivoResolucion, Formas', NEW g \in Grupos, ~Resuelto(g),
           UNCHANGED <<grupo, fila, arca, cruzados>>, MarcoIntentos({}),
           lote'.existe => lote.existe, ~lote'.compacto => ~lote.compacto
    PROVE  DebeGrupo(g)
<1>1. MarcoArca({})
    BY MarcosIguales
<1>2. Propias(g)' = Propias(g) /\ Soltables' = Soltables
    BY DEF Propias, Soltables, Con
<1>3. (g \in Soltables => NadaEnArca(g, 0))'
  <2>1. g \in Soltables => NadaEnArca(g, 0)
      BY DEF InductivoResolucion, SueltoSinArca
  <2>. QED
      BY <1>1, <1>2, <2>1, NadaSigue
<1>4. (\A m, n \in Propias(g) : m = n)'
    BY <1>2, IgualesSiguientes DEF InductivoResolucion, UnaPropia
<1>5. (Propias(g) # {} => intentos # <<>>)'
    BY <1>2, IntentosQuedan DEF InductivoResolucion, PropiaConIntento
<1>6. lote'.existe /\ ~lote'.compacto =>
          grupo'[g].estado = "reintentando" \/ fila'[g] = grupo'[g].estado
    BY DEF InductivoResolucion, FilasSiguen
<1>7. (g \in Soltables => grupo[g].numero = 0 \/ g \in cruzados)'
    BY <1>2 DEF InductivoResolucion, SinNumero
<1>. QED
    BY <1>3, <1>4, <1>5, <1>6, <1>7 DEF DebeGrupo, Quieto

\* A step of a retry that lets go of its group, or had none, and writes no table.
LEMMA PasoSuelto ==
    ASSUME ResolucionAssumption, InductivoResolucion, NEW a \in Reintentos, Mueve(a),
           Sesion(a)', ~Ocupa(a)', MarcoOp, op' \in [Operaciones -> TipoOp], fallas' \in Nat,
           UNCHANGED <<lote, grupo, fila, intentos, arca, cruzados, comprobantes>>
    PROVE  InductivoResolucion' /\ MarcoOp
<1>1. a \in Sesiones /\ a # Usuario /\ Formas
    BY DeLaSesion
<1>2. Marco(a, {})
    BY MarcosIguales DEF Marco, MarcoMem, Mueve
<1>3. Formas' /\ VueloEnProceso' /\ DuenoDelVuelo'
    BY <1>1, VueloIgual, FormasPartes, FormasPartesSiguientes DEF Mueve
<1>4. mem'[a].pc \notin PasosDeEmision
    BY DEF Ocupa
<1>5. Dueno(a)' /\ EnTrabajo(a)' /\ FilaDe(a)' /\ SinNumeroDe(a)' /\ ~SinEnvio(a)'
    BY <1>4 DEF Dueno, EnTrabajo, FilaDe, SinNumeroDe, SinEnvio, PasosDeEmision
<1>6. Debe(a, {})
    BY <1>1, <1>3, <1>5 DEF Debe, DebeSesion
<1>. QED
    BY <1>1, <1>2, <1>6, PasoConMarco

\* A step of a retry that keeps its group and writes no table.
LEMMA PasoSinEscribir ==
    ASSUME ResolucionAssumption, InductivoResolucion, NEW a \in Reintentos, Mueve(a),
           SinEnvio(a), SinEnvio(a)', mem'[a].g = mem[a].g, mem'[a].i = mem[a].i,
           Sesion(a)', Dueno(a)', fallas' \in Nat,
           UNCHANGED <<lote, grupo, fila, op, intentos, arca, cruzados, comprobantes>>
    PROVE  InductivoResolucion' /\ MarcoOp
<1>0. PICK g : g = mem[a].g
    OBVIOUS
<1>1. /\ a \in Sesiones /\ a # Usuario /\ Formas /\ Ocupa(a) /\ Ocupa(a)' /\ g \in Grupos
      /\ EnTrabajo(a) /\ FilaDe(a) /\ SinNumeroDe(a)
    BY <1>0, DeLaSesion DEF SinEnvio
<1>2. Marco(a, {g})
    BY <1>0, <1>1, MarcosIguales, DeLaSesion DEF Marco, MarcoMem, Mueve
<1>3. Formas' /\ VueloEnProceso' /\ DuenoDelVuelo'
    BY <1>1, VueloIgual, FormasPartes, FormasPartesSiguientes DEF Mueve
<1>4. \A h, i : NadaEnArca(h, i)' <=> NadaEnArca(h, i)
    BY DEF NadaEnArca, Propias
<1>5. Propias(g)' = Propias(g) /\ Soltables' = Soltables
    BY DEF Propias, Soltables, Con
<1>6. ~Resuelto(g)
    BY <1>0 DEF Resuelto
<1>7. DebeGrupo(g)
    BY <1>1, <1>3, <1>6, MarcosIguales, GrupoIgual
<1>8. EnTrabajo(a)'
    BY <1>1, <1>4 DEF EnTrabajo, SinEnvio
<1>9. FilaDe(a)' /\ SinNumeroDe(a)'
    BY <1>1 DEF FilaDe, SinNumeroDe
<1>10. Debe(a, {g})
    BY <1>0, <1>1, <1>3, <1>7, <1>8, <1>9 DEF Debe, DebeSesion
<1>. QED
    BY <1>1, <1>2, <1>10, PasoConMarco DEF Marco

----------------------------------------------------------------------------
(* The steps that only move a session or answer for its key.                *)

LEMMA MemoriaAlLeer ==
    ASSUME NEW r \in Memorias, NEW p \in {"preparar", "en_curso"}, NEW k \in Claves,
           NEW S \in SUBSET Grupos
    PROVE  [r EXCEPT !.pc = p, !.op = k, !.sel = S] \in Memorias
BY DEF Memorias, Pasos

LEMMA LeerMantiene ==
    ASSUME ResolucionAssumption, InductivoResolucion, NEW a \in Reintentos, Leer(a)
    PROVE  InductivoResolucion' /\ MarcoOp
<1>1. a \in Sesiones /\ Formas /\ lote \in TipoLote /\ op \in [Operaciones -> TipoOp]
      /\ mem \in [Sesiones -> Memorias] /\ fallas \in Nat
    BY DeLaSesion, FormasPartes
<1>a. \A k \in Claves : \A S \in Selecciones[k] : S \in SUBSET Grupos /\ S # {}
    BY SeleccionesAssumption
<1>b. PICK r \in Memorias : /\ r = EnReposo(Visto(lote)) /\ r.g = 0 /\ r.iniciada = FALSE
                            /\ r.toma = Libre
  <2>1. Visto(lote) \in Copias
      BY <1>1, VistoForma DEF TipoLote
  <2>2. /\ EnReposo(Visto(lote)) \in Memorias /\ EnReposo(Visto(lote)).g = 0
        /\ EnReposo(Visto(lote)).iniciada = FALSE /\ EnReposo(Visto(lote)).toma = Libre
      BY <2>1, ReposoForma
  <2>. QED
      BY <2>2
<1>2. PICK k \in Claves, S \in SUBSET Grupos, p \in {"preparar", "en_curso"} :
        /\ mem' = [mem EXCEPT ![a] = [EnReposo(Visto(lote)) EXCEPT !.pc = p, !.op = k, !.sel = S]]
        /\ \/ /\ op[k].estado = "inexistente"
              /\ op' = [op EXCEPT ![k] = [estado |-> "en_proceso", resp |-> "nula", sel |-> S]]
           \/ /\ op[k].estado = "interrumpida_pre_arca"
              /\ op' = [op EXCEPT ![k].estado = "en_proceso"]
           \/ UNCHANGED op
        /\ S # {}
    BY <1>a DEF Leer
<1>3. S \in SUBSET Grupos /\ S # {} /\ k \in Operaciones
    BY <1>2 DEF Operaciones
<1>4. PICK m \in Memorias : /\ m = [EnReposo(Visto(lote)) EXCEPT !.pc = p, !.op = k, !.sel = S]
                            /\ m.pc = p /\ m.op = k /\ m.g = 0 /\ m.iniciada = FALSE
                            /\ m.toma = Libre /\ m.sel = S
  <2>1. [r EXCEPT !.pc = p, !.op = k, !.sel = S] \in Memorias
      BY <1>b, <1>3, MemoriaAlLeer
  <2>2. PICK m \in Memorias : m = [r EXCEPT !.pc = p, !.op = k, !.sel = S]
      BY <2>1
  <2>3. /\ m.pc = p /\ m.op = k /\ m.g = 0 /\ m.iniciada = FALSE
        /\ m.toma = Libre /\ m.sel = S
      BY <1>b, <2>2 DEF Memorias
  <2>. QED
      BY <1>b, <2>2, <2>3
<1>5. Mueve(a) /\ mem'[a] = m
    BY <1>1, <1>2, <1>4 DEF Mueve
<1>6. ~Ocupa(a)'
    BY <1>4, <1>5 DEF Ocupa, PasosDeEmision
<1>7. Sesion(a)'
    BY <1>2, <1>3, <1>4, <1>5, <1>6 DEF Sesion, PasosDeEmision
<1>8. op[k].estado \in {"inexistente", "interrumpida_pre_arca"} => op[k].resp = "nula"
    BY <1>3 DEF InductivoResolucion, SinRespuesta
<1>9. MarcoOp
    BY <1>1, <1>2, <1>3, <1>8 DEF MarcoOp, TipoOp
<1>10. op' \in [Operaciones -> TipoOp]
    BY <1>1, <1>2, <1>3 DEF TipoOp
<1>. QED
    BY <1>1, <1>5, <1>6, <1>7, <1>9, <1>10, PasoSuelto DEF Leer, SinFalla

\* The answer of a key that had none.
LEMMA ResponderEscribe ==
    ASSUME op \in [Operaciones -> TipoOp], NEW k \in Operaciones, NEW r \in {"final", "error"},
           NEW e \in {"finalizado", "rechazado_arca", "fallido_verificado", "requiere_reconciliacion"},
           op[k].resp = "nula", Responder(k, e, r)
    PROVE  MarcoOp /\ op' \in [Operaciones -> TipoOp]
BY DEF Responder, MarcoOp, TipoOp

LEMMA PublicadoForma ==
    ASSUME NEW v, NEW k
    PROVE  EstadoPublicado(v, k) \in {"finalizado", "rechazado_arca", "requiere_reconciliacion"}
BY DEF EstadoPublicado

\* A retry that ends with the answer of its key, or without one.
LEMMA FinalMantiene ==
    ASSUME ResolucionAssumption, InductivoResolucion, NEW a \in Reintentos, Fin(a),
           mem[a].pc # "inicio", NEW r \in {"final", "error"},
           NEW e \in {"finalizado", "rechazado_arca", "fallido_verificado", "requiere_reconciliacion"},
           UNCHANGED op \/ (op[K(a)].resp = "nula" /\ Responder(K(a), e, r)), fallas' \in Nat,
           UNCHANGED <<lote, grupo, fila, intentos, arca, cruzados, comprobantes>>
    PROVE  InductivoResolucion' /\ MarcoOp
<1>1. a \in Sesiones /\ Formas /\ op \in [Operaciones -> TipoOp] /\ K(a) \in Operaciones
    BY DeLaSesion, FormasPartes DEF K
<1>2. Mueve(a) /\ Sesion(a)' /\ ~Ocupa(a)'
    BY <1>1, FinMueve, FinSesion
<1>3. MarcoOp /\ op' \in [Operaciones -> TipoOp]
    BY <1>1, ResponderEscribe, MarcosIguales
<1>. QED
    BY <1>2, <1>3, PasoSuelto

\* A retry that goes on to the recovery of its operation, or waits to publish.
LEMMA SueltaMantiene ==
    ASSUME ResolucionAssumption, InductivoResolucion, NEW a \in Reintentos,
           mem[a].pc \in PasosConBase, NEW p \in {"recuperar", "recuperar_op"}, Ir(a, p),
           p = "recuperar" => mem[a].g = 0, fallas' \in Nat,
           UNCHANGED <<lote, grupo, fila, op, intentos, arca, cruzados, comprobantes>>
    PROVE  InductivoResolucion' /\ MarcoOp
<1>1. a \in Sesiones /\ Formas /\ op \in [Operaciones -> TipoOp] /\ Sesion(a)
    BY DeLaSesion, FormasPartes
<1>2. /\ Mueve(a) /\ mem'[a].pc = p /\ mem'[a].g = mem[a].g /\ mem'[a].op = mem[a].op
      /\ mem'[a].toma = mem[a].toma
    BY <1>1, IrMueve DEF Pasos
<1>3. ~Ocupa(a)'
    BY <1>2 DEF Ocupa, PasosDeEmision
<1>4. Sesion(a)'
    BY <1>1, <1>2, <1>3 DEF Sesion, PasosDeEmision, PasosConBase, PasosDeGrupo
<1>5. MarcoOp
    BY MarcosIguales
<1>. QED
    BY <1>1, <1>2, <1>3, <1>4, <1>5, PasoSuelto

LEMMA ResponderEnCursoMantiene ==
    ASSUME ResolucionAssumption, InductivoResolucion, NEW a \in Reintentos, ResponderEnCurso(a)
    PROVE  InductivoResolucion' /\ MarcoOp
<1>1. mem[a].pc = "en_curso" /\ mem[a].pc \in PasosConBase /\ mem[a].pc # "inicio"
      /\ fallas' \in Nat
    BY DeLaSesion, FormasPartes DEF ResponderEnCurso, En, PasosConBase, SinFalla
<1>2. CASE Ir(a, "recuperar_op") /\ UNCHANGED op
    BY <1>1, <1>2, SueltaMantiene DEF ResponderEnCurso
<1>3. CASE Fin(a) /\ UNCHANGED op
    BY <1>1, <1>3, FinalMantiene DEF ResponderEnCurso
<1>4. ASSUME NEW e, e = EstadoPublicado(mem[a].v, K(a)), Fin(a), Publicable(K(a), e),
             Responder(K(a), e, "final")
      PROVE  InductivoResolucion' /\ MarcoOp
    BY <1>1, <1>4, PublicadoForma, FinalMantiene DEF ResponderEnCurso, Publicable
<1>. QED
    BY <1>2, <1>3, <1>4 DEF ResponderEnCurso

LEMMA GuardarErrorMantiene ==
    ASSUME ResolucionAssumption, InductivoResolucion, NEW a \in Reintentos, GuardarError(a),
           mem[a].pc # "inicio", fallas' \in Nat,
           UNCHANGED <<lote, grupo, fila, intentos, arca, cruzados, comprobantes>>
    PROVE  InductivoResolucion' /\ MarcoOp
BY FinalMantiene DEF GuardarError, Publicable

LEMMA PrepararMantiene ==
    ASSUME ResolucionAssumption, InductivoResolucion, NEW a \in Reintentos, Preparar(a)
    PROVE  InductivoResolucion' /\ MarcoOp
<1>1. /\ mem[a].pc = "preparar" /\ mem[a].pc # "inicio" /\ a \in Sesiones /\ Formas
      /\ fallas' \in Nat /\ fallas' = fallas /\ mem[a] \in Memorias /\ Sesion(a)
      /\ mem \in [Sesiones -> Memorias] /\ op \in [Operaciones -> TipoOp]
    BY DeLaSesion, FormasPartes DEF Preparar, En, SinFalla
<1>2. CASE mem' = [mem EXCEPT ![a].pc = "reclamar", ![a].pend = mem[a].sel] /\ UNCHANGED op
  <2>0. [mem[a] EXCEPT !.pc = "reclamar", !.pend = mem[a].sel] \in Memorias
      BY <1>1 DEF Memorias, Pasos
  <2>1. PICK m \in Memorias : /\ m = [mem[a] EXCEPT !.pc = "reclamar", !.pend = mem[a].sel]
                              /\ m.pc = "reclamar" /\ m.pend = mem[a].sel /\ m.sel = mem[a].sel
                              /\ m.g = mem[a].g /\ m.op = mem[a].op /\ m.toma = mem[a].toma
      BY <1>1, <2>0 DEF Memorias
  <2>2. Mueve(a) /\ mem'[a] = m
      BY <1>1, <1>2, <2>1 DEF Mueve
  <2>3. ~Ocupa(a)'
      BY <2>1, <2>2 DEF Ocupa, PasosDeEmision
  <2>4. Sesion(a)'
      BY <1>1, <2>1, <2>2, <2>3 DEF Sesion, PasosDeEmision
  <2>. QED
      BY <1>1, <1>2, <2>2, <2>3, <2>4, MarcosIguales, PasoSuelto DEF Preparar
<1>3. CASE GuardarError(a)
    BY <1>1, <1>3, GuardarErrorMantiene DEF Preparar
<1>. QED
    BY <1>2, <1>3 DEF Preparar

\* A step of a retry that keeps its group, whatever it writes.
LEMMA PasoDelGrupo ==
    ASSUME ResolucionAssumption, InductivoResolucion, NEW a \in Reintentos, Mueve(a),
           NEW g \in Grupos, \A b \in Reintentos \ {a} : Ocupa(b) => mem[b].g # g,
           Formas', VueloEnProceso', DuenoDelVuelo', MarcoIntentos({g}), MarcoArca({g}),
           MarcoGrupo(a, {g}), MarcoOp, MarcoLote, MarcoFilas({g}), DebeGrupo(g),
           DebeSesion(a, {g}), UNCHANGED cruzados
    PROVE  InductivoResolucion' /\ MarcoOp
<1>1. a \in Sesiones /\ a # Usuario
    BY DeLaSesion
<1>2. Marco(a, {g}) /\ Debe(a, {g})
    BY <1>1 DEF Marco, MarcoMem, Mueve, Debe
<1>. QED
    BY <1>1, <1>2, PasoConMarco

\* Nobody takes over a lote with a request of its owner in flight.
LEMMA TraspasoSinVuelo ==
    ASSUME ResolucionAssumption, InductivoResolucion, NEW k \in Claves, lote.existe,
           lote' = [lote EXCEPT !.dueno = k], OwnerTransferible(lote.dueno, k),
           UNCHANGED intentos
    PROVE  /\ VueloEnProceso' /\ DuenoDelVuelo' /\ MarcoLote /\ lote' \in TipoLote
           /\ lote'.dueno = k /\ lote'.existe /\ lote'.estado = lote.estado
           /\ lote'.compacto = lote.compacto
<1>1. lote \in TipoLote /\ intentos \in Seq(FilaDeIntento)
    BY FormasPartes DEF InductivoResolucion
<1>2. /\ lote' \in TipoLote /\ lote'.dueno = k /\ lote'.existe /\ lote'.estado = lote.estado
      /\ lote'.compacto = lote.compacto
    BY <1>1 DEF TipoLote, Operaciones
<1>3. VueloEnProceso'
    BY DEF InductivoResolucion, VueloEnProceso
<1>4. ASSUME NEW i \in DOMAIN intentos, intentos[i].fase = "arca_iniciada"
      PROVE  intentos[i].op = k
  <2>1. intentos[i].op = lote.dueno /\ intentos[i].estado = "en_proceso"
      BY <1>4 DEF InductivoResolucion, VueloEnProceso, DuenoDelVuelo
  <2>2. intentos[i].op \in Operaciones
    <3>1. i \in 1..Len(intentos)
        BY <1>1, LenProperties
    <3>2. intentos[i] \in FilaDeIntento
        BY <1>1, <3>1, ElementOfSeq
    <3>. QED
        BY <3>2 DEF FilaDeIntento
  <2>3. i \in EnVuelo(lote.dueno)
      BY <2>1 DEF EnVuelo, IntentosDe, Inciertos
  <2>. QED
      BY <2>1, <2>2, <2>3, ResolucionAssumption DEF OwnerTransferible, Operaciones
<1>5. DuenoDelVuelo'
    BY <1>2, <1>4 DEF DuenoDelVuelo
<1>6. MarcoLote
  <2>1. lote.dueno \in Operaciones \/ lote.dueno = Nadie
      BY <1>1 DEF TipoLote
  <2>. QED
      BY <1>2, <2>1 DEF MarcoLote, OwnerTransferible
<1>. QED
    BY <1>2, <1>3, <1>5, <1>6

LEMMA ReclamarMantiene ==
    ASSUME ResolucionAssumption, InductivoResolucion, NEW a \in Reintentos, Reclamar(a)
    PROVE  InductivoResolucion' /\ MarcoOp
<1>1. /\ mem[a].pc = "reclamar" /\ mem[a].pc # "inicio" /\ a \in Sesiones /\ Formas
      /\ fallas' \in Nat /\ mem[a] \in Memorias /\ Sesion(a)
      /\ mem \in [Sesiones -> Memorias] /\ grupo \in [Grupos -> TipoGrupo]
      /\ K(a) \in Claves /\ mem[a].sel \cap Tomados = {}
    BY DeLaSesion, FormasPartes DEF Reclamar, En, SinFalla, K
<1>2. CASE Fin(a) /\ UNCHANGED <<lote, grupo>>
    BY <1>1, <1>2, FinalMantiene DEF Reclamar
<1>3. PICK g : g = Primero(mem[a].pend)
    OBVIOUS
<1>4. g \in mem[a].pend /\ g \in mem[a].sel /\ g \in Grupos /\ g \notin Tomados
    BY <1>1, <1>3, PrimeroPertenece DEF Sesion, Memorias
<1>5. ASSUME ReclamableEnOrden(a), grupo[g].estado = "fallido",
             lote' = [lote EXCEPT !.dueno = K(a)],
             grupo' = [grupo EXCEPT ![g].estado = "reintentando"],
             mem' = [mem EXCEPT ![a].pc = "revalidar", ![a].g = g, ![a].i = 0,
                                  ![a].pend = @ \ {g}, ![a].v = Visto(lote'), ![a].res = "nada"]
      PROVE  InductivoResolucion' /\ MarcoOp
  <2>1. UNCHANGED <<fila, op, intentos, arca, cruzados, comprobantes>>
      BY DEF Reclamar
  <2>2. /\ VueloEnProceso' /\ DuenoDelVuelo' /\ MarcoLote /\ lote' \in TipoLote
        /\ lote'.dueno = K(a) /\ lote'.existe /\ lote'.estado = lote.estado
        /\ lote'.compacto = lote.compacto /\ lote.existe
      BY <1>1, <1>5, <2>1, TraspasoSinVuelo DEF ReclamableEnOrden
  <2>3. Visto(lote)' \in Copias /\ Visto(lote)'.dueno = lote'.dueno
      BY <2>2 DEF Visto, Copias, TipoLote
  <2>4. [mem[a] EXCEPT !.pc = "revalidar", !.g = g, !.i = 0, !.pend = @ \ {g},
                       !.v = Visto(lote)', !.res = "nada"] \in Memorias
      BY <1>1, <1>4, <2>3 DEF Memorias, Pasos, PasosDeEmision, Resultados
  <2>5. PICK m \in Memorias :
           m = [mem[a] EXCEPT !.pc = "revalidar", !.g = g, !.i = 0, !.pend = @ \ {g},
                              !.v = Visto(lote)', !.res = "nada"]
      BY <2>4
  <2>6. /\ m.pc = "revalidar" /\ m.g = g /\ m.i = 0 /\ m.pend = mem[a].pend \ {g}
        /\ m.v.dueno = K(a) /\ m.sel = mem[a].sel /\ m.op = mem[a].op /\ m.toma = mem[a].toma
      BY <1>1, <2>2, <2>3, <2>5 DEF Memorias
  <2>7. Visto(lote') = Visto(lote)'
      BY DEF Visto
  <2>8. Mueve(a) /\ mem'[a] = m
      BY <1>1, <1>5, <2>5, <2>7 DEF Mueve
  <2>9. /\ grupo' \in [Grupos -> TipoGrupo] /\ grupo'[g].estado = "reintentando"
        /\ grupo'[g].numero = grupo[g].numero
        /\ \A h \in Grupos \ {g} : grupo'[h] = grupo[h]
      BY <1>1, <1>4, <1>5 DEF TipoGrupo, EstadosGrupo
  <2>10. g \in Soltables /\ ~Resuelto(g) /\ NadaEnArca(g, 0)
         /\ (grupo[g].numero = 0 \/ g \in cruzados)
    <3>1. g \in Soltables /\ ~Resuelto(g)
        BY <1>4, <1>5 DEF Soltables, Con, Resolubles, Resuelto
    <3>. QED
        BY <3>1 DEF InductivoResolucion, SueltoSinArca, SinNumero
  <2>11. NadaEnArca(g, 0)' /\ Propias(g)' = Propias(g)
      BY <2>1, <2>10 DEF NadaEnArca, Propias
  <2>12. \A b \in Reintentos \ {a} : Ocupa(b) => mem[b].g # g
      BY <1>5 DEF InductivoResolucion, EnTrabajo
  <2>13. Formas'
      BY <1>1, <2>1, <2>2, <2>8, <2>9, FormasPartes, FormasPartesSiguientes DEF Mueve
  <2>14. MarcoIntentos({g}) /\ MarcoArca({g}) /\ MarcoOp
      BY <2>1, MarcosIguales
  <2>15. MarcoGrupo(a, {g}) /\ MarcoFilas({g})
    <3>1. Tomados \subseteq Grupos
      <4>1. \A b \in Sesiones : mem[b].toma.g \in Grupos \cup {0}
          BY <1>1 DEF Memorias, Tomas
      <4>. QED
          BY <4>1 DEF Tomados
    <3>. QED
        BY <1>4, <2>1, <2>9, <3>1 DEF MarcoGrupo, MarcoFilas
  <2>16. DebeGrupo(g)
    <3>1. g \notin Soltables'
        BY <2>9 DEF Soltables, Con, Resolubles
    <3>2. (\A x, y \in Propias(g) : x = y)'
        BY <2>11 DEF NadaEnArca
    <3>. QED
        BY <2>1, <2>9, <2>10, <2>11, <3>1, <3>2 DEF DebeGrupo, NadaEnArca, Quieto
  <2>17. DebeSesion(a, {g})
    <3>1. Ocupa(a)' /\ SinEnvio(a)'
        BY <2>6, <2>8 DEF Ocupa, SinEnvio, Enviado, PasosDeEmision
    <3>2. Sesion(a)'
        BY <1>1, <1>4, <2>6, <2>8, <3>1 DEF Sesion, PasosDeEmision
    <3>3. Dueno(a)'
        BY <2>2, <2>6, <2>8 DEF Dueno, K
    <3>4. EnTrabajo(a)'
      <4>1. ASSUME NEW h, h = mem'[a].g, NEW i, i = mem'[a].i
            PROVE  NadaEnArca(h, i)'
          BY <2>6, <2>8, <2>11, <4>1 DEF NadaEnArca
      <4>2. NadaEnArca(mem[a].g, mem[a].i)'
          BY <4>1 DEF NadaEnArca
      <4>. QED
          BY <2>6, <2>8, <2>9, <4>2 DEF EnTrabajo
    <3>5. FilaDe(a)'
      <4>1. FilasSiguen
          BY DEF InductivoResolucion
      <4>. QED
          BY <1>4, <1>5, <2>1, <2>2, <2>6, <2>8, <4>1 DEF FilaDe, FilasSiguen
    <3>6. SinNumeroDe(a)'
        BY <2>1, <2>6, <2>8, <2>9, <2>10 DEF SinNumeroDe
    <3>. QED
        BY <1>4, <2>6, <2>8, <3>2, <3>3, <3>4, <3>5, <3>6 DEF DebeSesion
  <2>. QED
      BY <1>4, <2>1, <2>2, <2>8, <2>12, <2>13, <2>14, <2>15, <2>16, <2>17, PasoDelGrupo
<1>. QED
    BY <1>2, <1>3, <1>5 DEF Reclamar

LEMMA RevalidarMantiene ==
    ASSUME ResolucionAssumption, InductivoResolucion, NEW a \in Reintentos, Revalidar(a)
    PROVE  InductivoResolucion' /\ MarcoOp
<1>1. /\ mem[a].pc = "revalidar" /\ mem[a].pc # "inicio" /\ a \in Sesiones /\ Formas
      /\ fallas' \in Nat /\ mem[a] \in Memorias /\ Sesion(a) /\ Dueno(a)
      /\ mem \in [Sesiones -> Memorias] /\ grupo \in [Grupos -> TipoGrupo]
      /\ lote \in TipoLote
    BY DeLaSesion, FormasPartes DEF Revalidar, En, SinFalla
<1>2. Ocupa(a) /\ SinEnvio(a) /\ G(a) \in Grupos
    BY <1>1, DeLaSesion DEF Ocupa, SinEnvio, Enviado, PasosDeEmision, G
<1>3. CASE Fin(a) /\ UNCHANGED op
    BY <1>1, <1>3, FinalMantiene DEF Revalidar
<1>4. CASE GuardarError(a)
    BY <1>1, <1>4, GuardarErrorMantiene DEF Revalidar
<1>5. ASSUME ReclamableEnOrden(a), UNCHANGED op,
             mem' = [mem EXCEPT ![a].pc = "reservar", ![a].v = Visto(lote),
                                ![a].cae = grupo[G(a)].numero]
      PROVE  InductivoResolucion' /\ MarcoOp
  <2>1. Visto(lote) \in Copias /\ Visto(lote).dueno = lote.dueno
      BY <1>1, VistoForma DEF TipoLote
  <2>2. grupo[G(a)].numero \in Nat
      BY <1>1, <1>2 DEF TipoGrupo
  <2>3. [mem[a] EXCEPT !.pc = "reservar", !.v = Visto(lote), !.cae = grupo[G(a)].numero]
          \in Memorias
      BY <1>1, <2>1, <2>2 DEF Memorias, Pasos, PasosDeEmision
  <2>4. PICK m \in Memorias :
          m = [mem[a] EXCEPT !.pc = "reservar", !.v = Visto(lote), !.cae = grupo[G(a)].numero]
      BY <2>3
  <2>5. /\ m.pc = "reservar" /\ m.v = Visto(lote) /\ m.g = mem[a].g /\ m.i = mem[a].i
        /\ m.sel = mem[a].sel /\ m.pend = mem[a].pend /\ m.op = mem[a].op
        /\ m.toma = mem[a].toma
      BY <1>1, <2>4 DEF Memorias
  <2>6. Mueve(a) /\ mem'[a] = m
      BY <1>1, <1>5, <2>4 DEF Mueve
  <2>7. SinEnvio(a)' /\ Ocupa(a)'
      BY <2>5, <2>6 DEF Ocupa, SinEnvio, Enviado, PasosDeEmision
  <2>8. Sesion(a)'
      BY <1>1, <1>2, <2>5, <2>6, <2>7 DEF Sesion, PasosDeEmision
  <2>9. Dueno(a)'
      BY <1>1, <1>5, <2>1, <2>5, <2>6 DEF Dueno, ReclamableEnOrden, Revalidar
  <2>. QED
      BY <1>1, <1>2, <1>5, <2>5, <2>6, <2>7, <2>8, <2>9, PasoSinEscribir DEF Revalidar
<1>. QED
    BY <1>3, <1>4, <1>5 DEF Revalidar

\* Stopped before ARCA: the claim stays in the hands of the retry.
LEMMA SinEnviarMantiene ==
    ASSUME ResolucionAssumption, InductivoResolucion, NEW a \in Reintentos, SinEnviar(a),
           mem[a].pc \in {"reservar", "marcar"}, UNCHANGED fallas,
           UNCHANGED <<lote, grupo, fila, op, intentos, arca, cruzados, comprobantes>>
    PROVE  InductivoResolucion' /\ MarcoOp
<1>1. /\ mem[a].pc # "inicio" /\ a \in Sesiones /\ Formas
      /\ fallas' \in Nat /\ mem[a] \in Memorias /\ Sesion(a) /\ Dueno(a)
      /\ mem \in [Sesiones -> Memorias]
    BY DeLaSesion, FormasPartes
<1>2. Ocupa(a) /\ SinEnvio(a)
    BY <1>1 DEF Ocupa, SinEnvio, Enviado, PasosDeEmision
<1>3. [mem[a] EXCEPT !.pc = "aplicar", !.res = "bloqueado"] \in Memorias
    BY <1>1 DEF Memorias, Pasos, PasosDeEmision, Resultados
<1>4. PICK m \in Memorias : m = [mem[a] EXCEPT !.pc = "aplicar", !.res = "bloqueado"]
    BY <1>3
<1>5. /\ m.pc = "aplicar" /\ m.res = "bloqueado" /\ m.g = mem[a].g /\ m.i = mem[a].i
      /\ m.sel = mem[a].sel /\ m.pend = mem[a].pend /\ m.op = mem[a].op
      /\ m.toma = mem[a].toma
    BY <1>1, <1>4 DEF Memorias
<1>6. Mueve(a) /\ mem'[a] = m
    BY <1>1, <1>4 DEF Mueve, SinEnviar
<1>7. SinEnvio(a)' /\ Ocupa(a)'
    BY <1>5, <1>6 DEF Ocupa, SinEnvio, Enviado, PasosDeEmision
<1>8. Sesion(a)'
    BY <1>1, <1>2, <1>5, <1>6, <1>7 DEF Sesion, PasosDeEmision, IntentoPropio, Fase
<1>9. Dueno(a)'
    BY <1>5, <1>6 DEF Dueno
<1>. QED
    BY <1>1, <1>2, <1>5, <1>6, <1>7, <1>8, <1>9, PasoSinEscribir

LEMMA PublicarMantiene ==
    ASSUME ResolucionAssumption, InductivoResolucion, NEW a \in Reintentos, Publicar(a)
    PROVE  InductivoResolucion' /\ MarcoOp
<1>1. mem[a].pc = "publicar" /\ mem[a].pc # "inicio" /\ mem[a].pc \in PasosConBase
      /\ mem[a].pc \notin PasosDeGrupo /\ fallas' \in Nat
    BY DeLaSesion, FormasPartes DEF Publicar, En, SinFalla, PasosConBase, PasosDeGrupo
<1>2. ASSUME NEW e, e = EstadoPublicado(mem[a].v, K(a)), Fin(a), Publicable(K(a), e),
             Responder(K(a), e, "final")
      PROVE  InductivoResolucion' /\ MarcoOp
    BY <1>1, <1>2, PublicadoForma, FinalMantiene DEF Publicar, Publicable
<1>3. CASE TrasCorte(a) /\ UNCHANGED op
  <2>1. CASE Fin(a)
      BY <1>1, <1>3, <2>1, FinalMantiene DEF Publicar
  <2>2. CASE Ir(a, "recuperar_op")
      BY <1>1, <1>3, <2>2, SueltaMantiene DEF Publicar
  <2>. QED
      BY <1>1, <1>3, <2>1, <2>2 DEF TrasCorte
<1>. QED
    BY <1>2, <1>3 DEF Publicar

LEMMA CorteDeBaseMantiene ==
    ASSUME ResolucionAssumption, InductivoResolucion, NEW a \in Reintentos, CorteDeBase(a)
    PROVE  InductivoResolucion' /\ MarcoOp
<1>1. /\ mem[a].pc \in PasosConBase /\ mem[a].pc # "inicio" /\ a \in Sesiones /\ Formas
      /\ fallas' \in Nat /\ mem[a] \in Memorias /\ Sesion(a)
      /\ UNCHANGED <<lote, grupo, fila, op, intentos, arca, cruzados, comprobantes>>
    BY DeLaSesion, FormasPartes DEF CorteDeBase, Falla, PasosConBase, PasosDeGrupo, tablas
<1>2. CASE Fin(a)
    BY <1>1, <1>2, FinalMantiene
<1>3. CASE Ir(a, "recuperar_op")
    BY <1>1, <1>3, SueltaMantiene
<1>4. ASSUME Ir(a, "recuperar"), mem[a].pc \in PasosDeGrupo, ~mem[a].iniciada
      PROVE  InductivoResolucion' /\ MarcoOp
  <2>1. CASE mem[a].g = 0
      BY <1>1, <1>4, <2>1, SueltaMantiene
  <2>2. CASE mem[a].g # 0
    <3>1. mem[a].pc \in {"revalidar", "reservar", "marcar", "aplicar"}
        BY <1>1, <1>4, <2>2 DEF Sesion, PasosDeGrupo
    <3>2. SinEnvio(a) /\ Ocupa(a)
        BY <1>1, <1>4, <3>1 DEF Sesion, SinEnvio, Ocupa, Enviado, PasosDeEmision
    <3>3. /\ Mueve(a) /\ mem'[a].pc = "recuperar" /\ mem'[a].g = mem[a].g
          /\ mem'[a].op = mem[a].op /\ mem'[a].i = mem[a].i /\ mem'[a].sel = mem[a].sel
          /\ mem'[a].toma = mem[a].toma
        BY <1>1, <1>4, IrMueve DEF Pasos
    <3>4. SinEnvio(a)' /\ Ocupa(a)'
        BY <2>2, <3>3 DEF SinEnvio, Ocupa, Enviado, PasosDeEmision
    <3>5. Sesion(a)' /\ Dueno(a)'
        BY <1>1, <3>2, <3>3, <3>4 DEF Sesion, Dueno, PasosDeEmision
    <3>. QED
        BY <1>1, <3>2, <3>3, <3>4, <3>5, PasoSinEscribir
  <2>. QED
      BY <2>1, <2>2
<1>. QED
    BY <1>2, <1>3, <1>4 DEF CorteDeBase, TrasCorte

----------------------------------------------------------------------------
(* The steps that reserve a number, mark the guard and send the request.    *)

\* The attempt of a group about to be sent is written, or the commit fails and
\* nobody knows; either way nothing of the group is in ARCA.
LEMMA ReservaEscrita ==
    ASSUME ResolucionAssumption, InductivoResolucion, NEW a \in Reintentos,
           mem[a].pc = "reservar", NEW x, x = IntentoNuevo(a),
           NEW p \in {"marcar", "recuperar"},
           NEW m \in Memorias, mem' = [mem EXCEPT ![a] = m],
           m.pc = p, m.i = Len(intentos) + 1, m.g = mem[a].g, m.op = mem[a].op,
           m.v = mem[a].v, m.sel = mem[a].sel, m.pend = mem[a].pend, m.toma = mem[a].toma,
           \/ intentos' = Append(intentos, x)
           \/ p = "recuperar" /\ UNCHANGED intentos,
           lote.existe, fallas' \in Nat, UNCHANGED <<lote, grupo, fila, op, arca, cruzados, comprobantes>>
    PROVE  InductivoResolucion' /\ MarcoOp
<1>0. PICK g : g = mem[a].g
    OBVIOUS
<1>1. /\ a \in Sesiones /\ Formas /\ Sesion(a) /\ Dueno(a) /\ EnTrabajo(a) /\ FilaDe(a)
      /\ SinNumeroDe(a)
      /\ mem \in [Sesiones -> Memorias] /\ intentos \in Seq(FilaDeIntento)
      /\ arca \in Seq(TipoArca) /\ mem[a].op \in Operaciones /\ mem[a].i = 0
    BY DeLaSesion, FormasPartes DEF Sesion
<1>2. SinEnvio(a) /\ Ocupa(a) /\ g \in Grupos /\ g \in mem[a].sel /\ g # 0
      /\ \A b \in Reintentos \ {a} : Ocupa(b) => mem[b].g # g
  <2>1. SinEnvio(a) /\ Ocupa(a)
      BY DEF SinEnvio, Ocupa, Enviado, PasosDeEmision
  <2>. QED
      BY <1>0, <1>1, <2>1, DeLaSesion, ResolucionAssumption DEF Sesion
<1>3. /\ x \in FilaDeIntento /\ x.op = mem[a].op /\ x.grupo = g /\ x.fase = "pre_arca"
      /\ x.estado = "en_proceso"
  <2>1. Len(arca) \in Nat
      BY <1>1, LenProperties
  <2>. QED
      BY <1>0, <1>1, <1>2, <2>1
         DEF IntentoNuevo, Intento, FilaDeIntento, EstadosIntento, FasesGuarda, Inciertos, K, G
<1>4. /\ Mueve(a) /\ mem'[a] = m
    BY <1>1 DEF Mueve
<1>5. /\ intentos' \in Seq(FilaDeIntento)
      /\ DOMAIN intentos' \subseteq DOMAIN intentos \cup {Len(intentos) + 1}
      /\ DOMAIN intentos \subseteq DOMAIN intentos'
      /\ \A i \in DOMAIN intentos : intentos'[i] = intentos[i]
      /\ Len(intentos) + 1 \in DOMAIN intentos' => intentos'[Len(intentos) + 1] = x
      /\ p = "marcar" => Len(intentos) + 1 \in DOMAIN intentos'
  <2>1. CASE intentos' = Append(intentos, x)
      BY <1>1, <1>3, <2>1, IntentoAgregado
  <2>2. CASE UNCHANGED intentos /\ p = "recuperar"
    <3>1. Len(intentos) \in Nat /\ DOMAIN intentos = 1..Len(intentos)
        BY <1>1, LenProperties
    <3>. QED
        BY <1>1, <2>2, <3>1
  <2>. QED
      BY <2>1, <2>2
<1>6. MarcoIntentos({}) /\ MarcoIntentos({g})
    BY <1>3, <1>5 DEF MarcoIntentos, EnArca
<1>7. Formas'
    BY <1>1, <1>4, <1>5, FormasPartes, FormasPartesSiguientes DEF Mueve
<1>8. VueloEnProceso' /\ DuenoDelVuelo'
    BY <1>3, <1>5 DEF InductivoResolucion, VueloEnProceso, DuenoDelVuelo
<1>9. /\ MarcoArca({}) /\ MarcoArca({g}) /\ MarcoGrupo(a, {g}) /\ MarcoOp /\ MarcoLote
      /\ MarcoFilas({g})
    BY MarcosIguales
<1>10. DebeGrupo(g)
  <2>1. ~Resuelto(g)
      BY <1>0, <1>2 DEF Resuelto
  <2>. QED
      BY <1>2, <1>6, <1>7, <2>1, GrupoIgual
<1>11. DebeSesion(a, {g})
  <2>1. Ocupa(a)' /\ SinEnvio(a)'
      BY <1>0, <1>2, <1>4 DEF Ocupa, SinEnvio, Enviado, PasosDeEmision
  <2>2. Sesion(a)'
    <3>1. p = "marcar" => IntentoPropio(a)' /\ Fase(a)' \in Antes
        BY <1>0, <1>3, <1>4, <1>5 DEF IntentoPropio, Fase, Antes
    <3>. QED
        BY <1>0, <1>1, <1>2, <1>4, <2>1, <3>1 DEF Sesion, PasosDeEmision
  <2>3. Dueno(a)'
      BY <1>1, <1>4 DEF Dueno
  <2>4. EnTrabajo(a)'
    <3>1. NadaEnArca(g, 0)
        BY <1>0, <1>1, <1>2 DEF EnTrabajo
    <3>2. NadaEnArca(g, 0)'
        BY <1>2, <1>6, <1>9, <3>1, NadaSigue
    <3>3. 0 \notin DOMAIN intentos'
        BY <1>5, LenProperties
    <3>5. NadaEnArca(mem[a].g, mem[a].i)'
        BY <1>0, <1>4, <3>2, <3>3 DEF NadaEnArca
    <3>. QED
        BY <1>0, <1>1, <1>2, <1>4, <3>5 DEF EnTrabajo
  <2>5. FilaDe(a)' /\ SinNumeroDe(a)'
      BY <1>1, <1>2, <1>4 DEF FilaDe, SinNumeroDe
  <2>. QED
      BY <1>0, <1>2, <1>4, <2>2, <2>3, <2>4, <2>5 DEF DebeSesion
<1>. QED
    BY <1>2, <1>4, <1>6, <1>7, <1>8, <1>9, <1>10, <1>11, PasoDelGrupo

LEMMA ReservarMantiene ==
    ASSUME ResolucionAssumption, InductivoResolucion, NEW a \in Reintentos,
           Reservar(a) \/ ReservarAmbigua(a)
    PROVE  InductivoResolucion' /\ MarcoOp
<1>1. /\ mem[a].pc = "reservar" /\ mem[a].pc # "inicio" /\ a \in Sesiones /\ Formas
      /\ fallas' \in Nat /\ mem[a] \in Memorias
      /\ mem \in [Sesiones -> Memorias] /\ Len(intentos) + 1 \in Nat
      /\ UNCHANGED <<lote, grupo, fila, op, arca, cruzados, comprobantes>>
    BY DeLaSesion, FormasPartes, LenProperties DEF Reservar, ReservarAmbigua, En, SinFalla, Falla
<1>2. CASE SinEnviar(a) /\ UNCHANGED <<intentos, fallas>>
    BY <1>1, <1>2, SinEnviarMantiene
<1>3. CASE Fin(a) /\ UNCHANGED intentos
    BY <1>1, <1>3, FinalMantiene
<1>4. CASE /\ lote.existe /\ intentos' = Append(intentos, IntentoNuevo(a))
           /\ mem' = [mem EXCEPT ![a].pc = "marcar", ![a].i = Len(intentos) + 1,
                                 ![a].iniciada = FALSE]
  <2>1. [mem[a] EXCEPT !.pc = "marcar", !.i = Len(intentos) + 1, !.iniciada = FALSE] \in Memorias
      BY <1>1 DEF Memorias, Pasos, PasosDeEmision
  <2>2. PICK m \in Memorias :
          m = [mem[a] EXCEPT !.pc = "marcar", !.i = Len(intentos) + 1, !.iniciada = FALSE]
      BY <2>1
  <2>3. /\ m.pc = "marcar" /\ m.i = Len(intentos) + 1 /\ m.g = mem[a].g /\ m.op = mem[a].op
        /\ m.v = mem[a].v /\ m.sel = mem[a].sel /\ m.pend = mem[a].pend
        /\ m.toma = mem[a].toma
      BY <1>1, <2>2 DEF Memorias
  <2>4. mem' = [mem EXCEPT ![a] = m]
      BY <1>1, <1>4, <2>2
  <2>. QED
      BY <1>1, <1>4, <2>3, <2>4, ReservaEscrita
<1>5. CASE /\ lote.existe /\ (UNCHANGED intentos \/ intentos' = Append(intentos, IntentoNuevo(a)))
           /\ mem' = [mem EXCEPT ![a].pc = "recuperar", ![a].i = Len(intentos) + 1]
  <2>1. [mem[a] EXCEPT !.pc = "recuperar", !.i = Len(intentos) + 1] \in Memorias
      BY <1>1 DEF Memorias, Pasos
  <2>2. PICK m \in Memorias : m = [mem[a] EXCEPT !.pc = "recuperar", !.i = Len(intentos) + 1]
      BY <2>1
  <2>3. /\ m.pc = "recuperar" /\ m.i = Len(intentos) + 1 /\ m.g = mem[a].g /\ m.op = mem[a].op
        /\ m.v = mem[a].v /\ m.sel = mem[a].sel /\ m.pend = mem[a].pend
        /\ m.toma = mem[a].toma
      BY <1>1, <2>2 DEF Memorias
  <2>4. mem' = [mem EXCEPT ![a] = m]
      BY <1>1, <1>5, <2>2
  <2>5. PICK x : /\ x = IntentoNuevo(a)
                 /\ intentos' = Append(intentos, x) \/ UNCHANGED intentos
      BY <1>5
  <2>6. PICK p \in {"marcar", "recuperar"} : p = "recuperar" /\ m.pc = p
      BY <2>3
  <2>7. /\ intentos' = Append(intentos, x) \/ (p = "recuperar" /\ UNCHANGED intentos)
        /\ lote.existe /\ x = IntentoNuevo(a) /\ m.pc = p
      BY <1>5, <2>5, <2>6
  <2>. QED
      BY <1>1, <2>3, <2>4, <2>7, ReservaEscrita
<1>. QED
    BY <1>2, <1>3, <1>4, <1>5 DEF Reservar, ReservarAmbigua, SinFalla

\* The guard says that the request goes out; the retry sends it, or its session
\* is lost and the recovery is tried.
LEMMA GuardaMarcada ==
    ASSUME ResolucionAssumption, InductivoResolucion, NEW a \in Reintentos,
           mem[a].pc = "marcar", Marcable(a), mem[a].sel \cap Tomados = {},
           intentos' = [intentos EXCEPT ![I(a)].fase = "arca_iniciada"],
           NEW m \in Memorias, mem' = [mem EXCEPT ![a] = m],
           \/ m.pc = "solicitar" /\ m.iniciada
           \/ m.pc = "recuperar",
           m.i = mem[a].i, m.g = mem[a].g, m.op = mem[a].op,
           m.sel = mem[a].sel, m.pend = mem[a].pend, m.toma = mem[a].toma,
           fallas' \in Nat, UNCHANGED <<lote, grupo, fila, op, arca, cruzados, comprobantes>>
    PROVE  InductivoResolucion' /\ MarcoOp
<1>0. PICK g : g = mem[a].g
    OBVIOUS
<1>1. /\ a \in Sesiones /\ Formas /\ Sesion(a) /\ Dueno(a) /\ EnTrabajo(a) /\ FilaDe(a)
      /\ SinNumeroDe(a)
      /\ mem \in [Sesiones -> Memorias] /\ intentos \in Seq(FilaDeIntento)
      /\ mem[a].op \in Operaciones /\ grupo[g].estado = "reintentando"
    BY <1>0, DeLaSesion, FormasPartes DEF Marcable, G
<1>2. SinEnvio(a) /\ Ocupa(a) /\ g \in Grupos /\ g \in mem[a].sel /\ g # 0
      /\ \A b \in Reintentos \ {a} : Ocupa(b) => mem[b].g # g
  <2>1. SinEnvio(a) /\ Ocupa(a)
      BY DEF SinEnvio, Ocupa, Enviado, PasosDeEmision
  <2>. QED
      BY <1>0, <1>1, <2>1, DeLaSesion, ResolucionAssumption DEF Sesion
<1>3. /\ I(a) \in DOMAIN intentos /\ I(a) = mem[a].i
      /\ intentos[I(a)].op = mem[a].op /\ intentos[I(a)].grupo = g
      /\ intentos[I(a)].estado = "en_proceso"
    BY <1>0, <1>1 DEF Sesion, IntentoPropio, I, Marcable
<1>4. Mueve(a) /\ mem'[a] = m
    BY <1>1 DEF Mueve
<1>5. /\ intentos' \in Seq(FilaDeIntento) /\ DOMAIN intentos' = DOMAIN intentos
      /\ \A i \in DOMAIN intentos :
            /\ intentos'[i].op = intentos[i].op /\ intentos'[i].grupo = intentos[i].grupo
            /\ intentos'[i].numero = intentos[i].numero
            /\ intentos'[i].estado = intentos[i].estado
            /\ intentos'[i].fase = IF i = I(a) THEN "arca_iniciada" ELSE intentos[i].fase
  <2>1. "en_proceso" \in EstadosIntento /\ "arca_iniciada" \in FasesGuarda
      BY DEF Inciertos, EnArca, EstadosIntento, FasesGuarda
  <2>2. PICK n \in DOMAIN intentos, e \in EstadosIntento, f \in FasesGuarda :
            n = I(a) /\ e = "en_proceso" /\ f = "arca_iniciada"
      BY <1>3, <2>1
  <2>3. PICK s : s = intentos'
      OBVIOUS
  <2>4. Escrito(s, n, e, f)
      BY <1>3, <2>2, <2>3 DEF Escrito
  <2>5. /\ s \in Seq(FilaDeIntento) /\ DOMAIN s = DOMAIN intentos
        /\ \A i \in DOMAIN intentos :
              /\ s[i].op = intentos[i].op /\ s[i].grupo = intentos[i].grupo
              /\ s[i].numero = intentos[i].numero
              /\ s[i].estado = IF i = n THEN e ELSE intentos[i].estado
              /\ s[i].fase = IF i = n THEN f ELSE intentos[i].fase
      BY <1>1, <2>4, IntentoEscrito
  <2>6. \A i \in DOMAIN intentos :
            /\ s[i].estado = intentos[i].estado
            /\ s[i].fase = IF i = I(a) THEN "arca_iniciada" ELSE intentos[i].fase
      BY <1>3, <2>2, <2>5
  <2>. QED
      BY <2>3, <2>5, <2>6
<1>6. MarcoIntentos({g})
    BY <1>3, <1>5 DEF MarcoIntentos
<1>7. Formas'
    BY <1>1, <1>4, <1>5, FormasPartes, FormasPartesSiguientes DEF Mueve
<1>8. VueloEnProceso' /\ DuenoDelVuelo'
  <2>1. lote.dueno = mem[a].op
      BY <1>1 DEF Dueno, Marcable, K
  <2>. QED
      BY <1>3, <1>5, <2>1 DEF InductivoResolucion, VueloEnProceso, DuenoDelVuelo
<1>9. /\ MarcoArca({g}) /\ MarcoGrupo(a, {g}) /\ MarcoOp /\ MarcoLote /\ MarcoFilas({g})
    BY MarcosIguales
<1>10. NadaEnArca(g, mem[a].i) /\ Propias(g)' = {}
    BY <1>0, <1>1, <1>2 DEF EnTrabajo, NadaEnArca, Propias
<1>11. DebeGrupo(g)
  <2>1. ~Resuelto(g)
      BY <1>0, <1>2 DEF Resuelto
  <2>2. g \notin Soltables'
      BY <1>1 DEF Soltables, Con, Resolubles
  <2>3. (\A x, y \in Propias(g) : x = y)'
      BY <1>10
  <2>. QED
      BY <1>1, <1>10, <2>1, <2>2, <2>3 DEF DebeGrupo, Quieto
<1>12. DebeSesion(a, {g})
  <2>1. Ocupa(a)' /\ SinEnvio(a)'
      BY <1>0, <1>2, <1>4 DEF Ocupa, SinEnvio, Enviado, PasosDeEmision
  <2>2. Sesion(a)'
    <3>1. IntentoPropio(a)' /\ Fase(a)' \in EnArca
        BY <1>0, <1>3, <1>4, <1>5 DEF IntentoPropio, Fase, EnArca
    <3>. QED
        BY <1>0, <1>1, <1>2, <1>4, <2>1, <3>1 DEF Sesion, PasosDeEmision
  <2>3. Dueno(a)'
      BY <1>4 DEF Dueno
  <2>4. EnTrabajo(a)'
    <3>1. NadaEnArca(mem[a].g, mem[a].i)'
        BY <1>0, <1>3, <1>4, <1>5, <1>10 DEF NadaEnArca
    <3>. QED
        BY <1>0, <1>1, <1>2, <1>4, <3>1 DEF EnTrabajo
  <2>5. FilaDe(a)' /\ SinNumeroDe(a)'
      BY <1>1, <1>2, <1>4 DEF FilaDe, SinNumeroDe
  <2>. QED
      BY <1>0, <1>2, <1>4, <2>2, <2>3, <2>4, <2>5 DEF DebeSesion
<1>. QED
    BY <1>2, <1>4, <1>6, <1>7, <1>8, <1>9, <1>11, <1>12, PasoDelGrupo

LEMMA MarcarMantiene ==
    ASSUME ResolucionAssumption, InductivoResolucion, NEW a \in Reintentos,
           Marcar(a) \/ MarcarAmbigua(a)
    PROVE  InductivoResolucion' /\ MarcoOp
<1>1. /\ mem[a].pc = "marcar" /\ mem[a].pc # "inicio" /\ a \in Sesiones /\ Formas
      /\ fallas' \in Nat /\ mem[a] \in Memorias
      /\ mem \in [Sesiones -> Memorias] /\ mem[a].sel \cap Tomados = {}
      /\ UNCHANGED <<lote, grupo, fila, op, arca, cruzados, comprobantes>>
    BY DeLaSesion, FormasPartes DEF Marcar, MarcarAmbigua, En, SinFalla, Falla
<1>2. CASE SinEnviar(a) /\ UNCHANGED <<intentos, fallas>>
    BY <1>1, <1>2, SinEnviarMantiene
<1>3. CASE Fin(a) /\ UNCHANGED intentos
    BY <1>1, <1>3, FinalMantiene
<1>4. CASE /\ Marcable(a) /\ intentos' = [intentos EXCEPT ![I(a)].fase = "arca_iniciada"]
           /\ mem' = [mem EXCEPT ![a].pc = "solicitar", ![a].iniciada = TRUE]
  <2>1. [mem[a] EXCEPT !.pc = "solicitar", !.iniciada = TRUE] \in Memorias
      BY <1>1 DEF Memorias, Pasos, PasosDeEmision
  <2>2. PICK m \in Memorias : m = [mem[a] EXCEPT !.pc = "solicitar", !.iniciada = TRUE]
      BY <2>1
  <2>3. /\ m.pc = "solicitar" /\ m.iniciada /\ m.i = mem[a].i /\ m.g = mem[a].g
        /\ m.op = mem[a].op /\ m.sel = mem[a].sel /\ m.pend = mem[a].pend
        /\ m.toma = mem[a].toma
      BY <1>1, <2>2 DEF Memorias
  <2>4. mem' = [mem EXCEPT ![a] = m]
      BY <1>1, <1>4, <2>2
  <2>. QED
      BY <1>1, <1>4, <2>3, <2>4, GuardaMarcada
<1>5. CASE /\ Marcable(a) /\ intentos' = [intentos EXCEPT ![I(a)].fase = "arca_iniciada"]
           /\ Ir(a, "recuperar")
  <2>1. [mem[a] EXCEPT !.pc = "recuperar"] \in Memorias
      BY <1>1 DEF Memorias, Pasos
  <2>2. PICK m \in Memorias : m = [mem[a] EXCEPT !.pc = "recuperar"]
      BY <2>1
  <2>3. /\ m.pc = "recuperar" /\ m.i = mem[a].i /\ m.g = mem[a].g
        /\ m.op = mem[a].op /\ m.sel = mem[a].sel /\ m.pend = mem[a].pend
        /\ m.toma = mem[a].toma
      BY <1>1, <2>2 DEF Memorias
  <2>4. mem' = [mem EXCEPT ![a] = m]
      BY <1>1, <1>5, <2>2 DEF Ir
  <2>. QED
      BY <1>1, <1>5, <2>3, <2>4, GuardaMarcada
<1>. QED
    BY <1>2, <1>3, <1>4, <1>5 DEF Marcar, MarcarAmbigua, SinFalla

LEMMA SolicitarMantiene ==
    ASSUME ResolucionAssumption, InductivoResolucion, NEW a \in Reintentos, Solicitar(a)
    PROVE  InductivoResolucion' /\ MarcoOp
<1>0. PICK g : g = mem[a].g
    OBVIOUS
<1>1. /\ a \in Sesiones /\ Formas /\ Sesion(a) /\ EnTrabajo(a) /\ FilaDe(a)
      /\ SinNumeroDe(a)
      /\ mem \in [Sesiones -> Memorias] /\ mem[a] \in Memorias
      /\ arca \in Seq(TipoArca) /\ comprobantes \subseteq DOMAIN arca
      /\ mem[a].op \in Operaciones /\ mem[a].op \in Claves /\ mem[a].pc = "solicitar"
      /\ fallas' \in Nat /\ cruzados \subseteq Grupos
      /\ UNCHANGED <<lote, grupo, fila, op, intentos, comprobantes, cruzados>>
    BY DeLaSesion, FormasPartes DEF Solicitar, En, tablas, SinFalla
<1>2. SinEnvio(a) /\ Ocupa(a) /\ g \in Grupos /\ g \in mem[a].sel /\ g # 0
      /\ \A b \in Reintentos \ {a} : Ocupa(b) => mem[b].g # g
  <2>1. SinEnvio(a) /\ Ocupa(a)
      BY <1>1 DEF SinEnvio, Ocupa, Enviado, PasosDeEmision
  <2>. QED
      BY <1>0, <1>1, <2>1, DeLaSesion, ResolucionAssumption DEF Sesion
<1>3. PICK r \in {"autorizado", "rechazado", "global", "incierto"}, procesa \in BOOLEAN :
        /\ r = "autorizado" => procesa
        /\ r \in {"rechazado", "global"} => ~procesa
        /\ procesa => intentos[I(a)].numero = Len(arca) + 1
        /\ arca' = IF procesa THEN Append(arca, [grupo |-> g, via |-> "propia"]) ELSE arca
        /\ mem' = [mem EXCEPT ![a].pc = "aplicar", ![a].res = r]
    BY <1>0 DEF Solicitar, G
<1>4. PICK m \in Memorias : m = [mem[a] EXCEPT !.pc = "aplicar", !.res = r]
  <2>1. [mem[a] EXCEPT !.pc = "aplicar", !.res = r] \in Memorias
      BY <1>1, <1>3 DEF Memorias, Pasos, PasosDeEmision, Resultados
  <2>. QED
      BY <2>1
<1>5. /\ m.pc = "aplicar" /\ m.res = r /\ m.i = mem[a].i /\ m.g = mem[a].g
      /\ m.op = mem[a].op /\ m.sel = mem[a].sel /\ m.pend = mem[a].pend
      /\ m.toma = mem[a].toma /\ m.iniciada = mem[a].iniciada
    BY <1>1, <1>4 DEF Memorias
<1>6. Mueve(a) /\ mem'[a] = m
    BY <1>1, <1>3, <1>4 DEF Mueve
<1>7. /\ arca' \in Seq(TipoArca) /\ DOMAIN arca \subseteq DOMAIN arca'
      /\ r = "autorizado" => Len(arca) + 1 \in DOMAIN arca'
      /\ r \in {"rechazado", "global"} => arca' = arca
      /\ \A h \in Grupos \ {g} : Propias(h)' = Propias(h)
      /\ \A x, y \in Propias(g)' : x = y
  <2>1. NadaEnArca(g, mem[a].i)
      BY <1>0, <1>1, <1>2 DEF EnTrabajo
  <2>2. CASE procesa
    <3>1. [grupo |-> g, via |-> "propia"] \in TipoArca
        BY <1>2 DEF TipoArca
    <3>2. arca' = Append(arca, [grupo |-> g, via |-> "propia"])
        BY <1>3, <2>2
    <3>3. /\ arca' \in Seq(TipoArca) /\ DOMAIN arca \subseteq DOMAIN arca'
          /\ Len(arca) + 1 \in DOMAIN arca'
          /\ \A h : Propias(h)' = IF [grupo |-> g, via |-> "propia"] = [grupo |-> h, via |-> "propia"]
                                   THEN Propias(h) \cup {Len(arca) + 1} ELSE Propias(h)
        BY <1>1, <3>1, <3>2, ArcaAgregada DEF TipoArca
    <3>4. /\ \A h \in Grupos \ {g} : Propias(h)' = Propias(h)
          /\ Propias(g)' = Propias(g) \cup {Len(arca) + 1}
        BY <3>3
    <3>. QED
        BY <1>3, <2>1, <2>2, <3>3, <3>4 DEF NadaEnArca
  <2>3. CASE ~procesa
    <3>1. arca' = arca /\ \A h : Propias(h)' = Propias(h)
        BY <1>3, <2>3 DEF Propias
    <3>2. Propias(g)' = {}
        BY <2>1, <3>1 DEF NadaEnArca
    <3>. QED
        BY <1>1, <1>3, <2>3, <3>1, <3>2
  <2>. QED
      BY <2>2, <2>3
<1>8. Formas'
    BY <1>1, <1>6, <1>7, FormasPartes, FormasPartesSiguientes DEF Mueve
<1>9. VueloEnProceso' /\ DuenoDelVuelo'
    BY <1>1, VueloIgual
<1>10. /\ MarcoIntentos({g}) /\ MarcoGrupo(a, {g}) /\ MarcoOp /\ MarcoLote /\ MarcoFilas({g})
       /\ MarcoArca({g})
    BY <1>1, <1>7, MarcosIguales DEF MarcoArca
<1>11. DebeGrupo(g)
  <2>1. ~Resuelto(g)
      BY <1>0, <1>2 DEF Resuelto
  <2>2. g \notin Soltables'
      BY <1>0, <1>1, <1>2 DEF Soltables, Con, Resolubles, EnTrabajo
  <2>3. (\A x, y \in Propias(g) : x = y)'
      BY <1>7
  <2>4. intentos # <<>>
      BY <1>1, <1>8 DEF Sesion, IntentoPropio, Formas
  <2>5. lote'.existe /\ ~lote'.compacto =>
          grupo'[g].estado = "reintentando" \/ fila'[g] = grupo'[g].estado
      BY <1>1, <1>2 DEF InductivoResolucion, FilasSiguen
  <2>. QED
      BY <1>1, <2>1, <2>2, <2>3, <2>4, <2>5 DEF DebeGrupo, Quieto
<1>12. DebeSesion(a, {g})
  <2>1. Ocupa(a)'
      BY <1>5, <1>6 DEF Ocupa, PasosDeEmision
  <2>2. Sesion(a)'
    <3>1. IntentoPropio(a)' /\ Fase(a)' \in EnArca /\ mem[a].iniciada
        BY <1>1, <1>5, <1>6 DEF IntentoPropio, Fase, Sesion
    <3>2. r = "autorizado" => intentos'[m.i].numero \in DOMAIN arca'
        BY <1>1, <1>3, <1>5, <1>7 DEF I
    <3>. QED
        BY <1>0, <1>1, <1>2, <1>3, <1>5, <1>6, <2>1, <3>1, <3>2 DEF Sesion, PasosDeEmision
  <2>3. Dueno(a)'
      BY <1>5, <1>6 DEF Dueno
  <2>4. SinEnvio(a)' => arca' = arca
      BY <1>3, <1>5, <1>6, <1>7 DEF SinEnvio, Enviado
  <2>5. EnTrabajo(a)'
    <3>1. NadaEnArca(mem[a].g, mem[a].i)
        BY <1>1, <1>2 DEF EnTrabajo
    <3>2. SinEnvio(a)' => NadaEnArca(mem[a].g, mem[a].i)'
        BY <1>1, <1>5, <1>6, <2>4, <3>1 DEF NadaEnArca, Propias
    <3>. QED
        BY <1>1, <1>2, <1>5, <1>6, <3>2 DEF EnTrabajo
  <2>6. FilaDe(a)' /\ SinNumeroDe(a)'
      BY <1>1, <1>2, <1>5, <1>6 DEF FilaDe, SinNumeroDe
  <2>. QED
      BY <1>0, <1>2, <1>5, <1>6, <2>2, <2>3, <2>5, <2>6 DEF DebeSesion
<1>. QED
    BY <1>1, <1>2, <1>6, <1>8, <1>9, <1>10, <1>11, <1>12, PasoDelGrupo

----------------------------------------------------------------------------
(* The steps that write down what became of the request.                    *)

\* A step of a retry that lets go of its group.
LEMMA PasoQueSuelta ==
    ASSUME ResolucionAssumption, InductivoResolucion, NEW a \in Reintentos, Mueve(a),
           Sesion(a)', ~Ocupa(a)', Ocupa(a), NEW g \in Grupos, g = mem[a].g,
           Formas', VueloEnProceso', DuenoDelVuelo', MarcoIntentos({g}), MarcoArca({g}),
           MarcoGrupo(a, {g}), MarcoOp, MarcoLote, MarcoFilas({g}), DebeGrupo(g),
           UNCHANGED cruzados
    PROVE  InductivoResolucion' /\ MarcoOp
<1>1. \A b \in Reintentos \ {a} : Ocupa(b) => mem[b].g # g
    BY DeLaSesion
<1>2. mem'[a].pc \notin PasosDeEmision
    BY DEF Ocupa
<1>3. DebeSesion(a, {g})
    BY <1>2 DEF DebeSesion, Dueno, EnTrabajo, FilaDe, SinNumeroDe, SinEnvio, PasosDeEmision
<1>. QED
    BY <1>1, <1>3, PasoDelGrupo

\* A group that nobody works on any more and cannot be resolved.
LEMMA QuietoAlSoltar ==
    ASSUME ResolucionAssumption, InductivoResolucion, NEW a \in Reintentos, Mueve(a),
           ~Ocupa(a)', Ocupa(a), NEW g, g = mem[a].g, grupo'[g].estado \notin Resolubles
    PROVE  Quieto(g)'
<1>1. \A b \in Reintentos \ {a} : Ocupa(b) => mem[b].g # g
    BY DeLaSesion
<1>2. \A b \in Reintentos \ {a} : mem'[b] = mem[b]
    BY DEF Mueve, Sesiones
<1>3. ASSUME NEW b \in Reintentos, SinEnvio(b)'
      PROVE  mem'[b].g # g
  <2>1. CASE b = a
      BY <1>3, <2>1 DEF SinEnvio
  <2>2. CASE b # a
    <3>1. Ocupa(b)' /\ mem'[b] = mem[b]
        BY <1>2, <1>3, <2>2 DEF SinEnvio
    <3>2. Ocupa(b)
        BY <3>1 DEF Ocupa
    <3>. QED
        BY <1>1, <2>2, <3>1, <3>2
  <2>. QED
      BY <2>1, <2>2
<1>. QED
    BY <1>3 DEF Quieto, Resuelto

LEMMA CopiaForma ==
    ASSUME NEW l \in Copias, NEW e \in EstadosLote
    PROVE  [l EXCEPT !.estado = e] \in Copias
BY DEF Copias

LEMMA MemoriaAlPublicar ==
    ASSUME NEW r \in Memorias, NEW k \in Claves \cup {Nadie}, NEW i \in Nat,
           NEW b \in BOOLEAN
    PROVE  [r EXCEPT !.pc = "publicar", !.op = k, !.i = i, !.iniciada = b] \in Memorias
BY DEF Memorias, Pasos

\* After the group the retry goes on to the next one, or to its answer.
LEMMA SeguirMueve ==
    ASSUME ResolucionAssumption, InductivoResolucion, NEW a \in Reintentos,
           mem[a].pc = "aplicar", NEW l \in Copias, Seguir(a, l)
    PROVE  Mueve(a) /\ ~Ocupa(a)' /\ Sesion(a)'
<1>1. /\ a \in Sesiones /\ Formas /\ Sesion(a) /\ mem[a].op \in Claves
      /\ mem \in [Sesiones -> Memorias] /\ mem[a] \in Memorias
    BY DeLaSesion, FormasPartes
<1>2. PICK v \in Copias : v = [l EXCEPT !.estado = EstadoLote(grupo')]
    BY EstadoLoteForma, CopiaForma
<1>3. CASE /\ mem[a].res \in {"autorizado", "rechazado"} /\ mem[a].pend # {}
           /\ mem' = [mem EXCEPT ![a] = [mem[a] EXCEPT !.pc = "reclamar", !.v = v]]
  <2>1. [mem[a] EXCEPT !.pc = "reclamar", !.v = v] \in Memorias
      BY <1>1 DEF Memorias, Pasos
  <2>2. PICK m \in Memorias : m = [mem[a] EXCEPT !.pc = "reclamar", !.v = v]
      BY <2>1
  <2>3. /\ m.pc = "reclamar" /\ m.i = mem[a].i /\ m.g = mem[a].g /\ m.op = mem[a].op
        /\ m.sel = mem[a].sel /\ m.pend = mem[a].pend /\ m.toma = mem[a].toma
        /\ m.iniciada = mem[a].iniciada
      BY <1>1, <2>2 DEF Memorias
  <2>4. Mueve(a) /\ mem'[a] = m
      BY <1>1, <1>3, <2>2 DEF Mueve
  <2>5. ~Ocupa(a)'
      BY <2>3, <2>4 DEF Ocupa, PasosDeEmision
  <2>6. Sesion(a)'
      BY <1>1, <1>3, <2>3, <2>4, <2>5 DEF Sesion, PasosDeEmision
  <2>. QED
      BY <2>4, <2>5, <2>6
<1>4. CASE mem' = [mem EXCEPT ![a] = [EnReposo(v) EXCEPT !.pc = "publicar", !.op = K(a),
                                         !.i = I(a), !.iniciada = mem[a].iniciada]]
  <2>1. PICK r \in Memorias : r = EnReposo(v) /\ r.g = 0 /\ r.toma = Libre
      BY ReposoForma
  <2>8. K(a) \in Claves \cup {Nadie} /\ I(a) \in Nat /\ mem[a].iniciada \in BOOLEAN
      BY <1>1 DEF Memorias, K, I
  <2>2. [r EXCEPT !.pc = "publicar", !.op = K(a), !.i = I(a), !.iniciada = mem[a].iniciada]
          \in Memorias
      BY <2>1, <2>8, MemoriaAlPublicar
  <2>3. PICK m \in Memorias :
           m = [r EXCEPT !.pc = "publicar", !.op = K(a), !.i = I(a), !.iniciada = mem[a].iniciada]
      BY <2>2
  <2>4. m.pc = "publicar" /\ m.op = mem[a].op /\ m.g = 0 /\ m.toma = Libre
      BY <2>1, <2>3 DEF Memorias, K
  <2>5. Mueve(a) /\ mem'[a] = m
      BY <1>1, <1>4, <2>1, <2>3 DEF Mueve
  <2>6. ~Ocupa(a)'
      BY <2>4, <2>5 DEF Ocupa, PasosDeEmision
  <2>7. Sesion(a)'
      BY <1>1, <2>4, <2>5, <2>6 DEF Sesion, PasosDeEmision
  <2>. QED
      BY <2>5, <2>6, <2>7
<1>. QED
    BY <1>2, <1>3, <1>4 DEF Seguir

\* The attempt of the group in its last state.
LEMMA CerradoEscrito ==
    ASSUME intentos \in Seq(FilaDeIntento), NEW a, I(a) \in DOMAIN intentos,
           NEW e \in EstadosIntento, NEW f \in FasesGuarda, NEW s, s = Cerrado(a, e, f)
    PROVE  /\ s \in Seq(FilaDeIntento) /\ DOMAIN s = DOMAIN intentos /\ s # <<>>
           /\ \A i \in DOMAIN intentos :
                 /\ s[i].op = intentos[i].op /\ s[i].grupo = intentos[i].grupo
                 /\ s[i].numero = intentos[i].numero
                 /\ s[i].estado = IF i = I(a) THEN e ELSE intentos[i].estado
                 /\ s[i].fase = IF i = I(a) THEN f ELSE intentos[i].fase
<1>1. PICK n \in DOMAIN intentos : n = I(a) /\ n # 0
    BY LenProperties
<1>2. Escrito(s, n, e, f)
    BY <1>1 DEF Cerrado, Escrito
<1>3. /\ s \in Seq(FilaDeIntento) /\ DOMAIN s = DOMAIN intentos /\ s # <<>>
      /\ \A i \in DOMAIN intentos :
            /\ s[i].op = intentos[i].op /\ s[i].grupo = intentos[i].grupo
            /\ s[i].numero = intentos[i].numero
            /\ s[i].estado = IF i = n THEN e ELSE intentos[i].estado
            /\ s[i].fase = IF i = n THEN f ELSE intentos[i].fase
    BY <1>2, IntentoEscrito
<1>. QED
    BY <1>1, <1>3

\* Closing the attempt of g disturbs no other group and no other flight.
LEMMA CerradoMarco ==
    ASSUME InductivoResolucion, NEW a, I(a) \in DOMAIN intentos,
           NEW e \in EstadosIntento, NEW f \in Cerradas, NEW g, intentos[I(a)].grupo = g,
           intentos' = Cerrado(a, e, f), lote'.existe = lote.existe, lote'.dueno = lote.dueno
    PROVE  /\ intentos' \in Seq(FilaDeIntento) /\ MarcoIntentos({g}) /\ intentos' # <<>>
           /\ VueloEnProceso' /\ DuenoDelVuelo'
           /\ \A i : NadaEnArca(g, i) /\ UNCHANGED arca /\ (i = I(a) \/ i = 0)
                     => NadaEnArca(g, 0)'
<1>1. intentos \in Seq(FilaDeIntento)
    BY FormasPartes DEF InductivoResolucion
<1>2. f \in FasesGuarda /\ f \notin EnArca /\ f # "arca_iniciada"
    BY DEF FasesGuarda, Cerradas, EnArca
<1>3. PICK s : s = Cerrado(a, e, f) /\ s = intentos'
    OBVIOUS
<1>4. /\ s \in Seq(FilaDeIntento) /\ DOMAIN s = DOMAIN intentos /\ s # <<>>
      /\ \A i \in DOMAIN intentos :
            /\ s[i].op = intentos[i].op /\ s[i].grupo = intentos[i].grupo
            /\ s[i].numero = intentos[i].numero
            /\ s[i].estado = IF i = I(a) THEN e ELSE intentos[i].estado
            /\ s[i].fase = IF i = I(a) THEN f ELSE intentos[i].fase
    BY <1>1, <1>2, <1>3, CerradoEscrito
<1>5. MarcoIntentos({g})
    BY <1>3, <1>4 DEF MarcoIntentos
<1>6. VueloEnProceso' /\ DuenoDelVuelo'
    BY <1>2, <1>3, <1>4 DEF InductivoResolucion, VueloEnProceso, DuenoDelVuelo
<1>7. ASSUME NEW i, NadaEnArca(g, i), UNCHANGED arca, i = I(a) \/ i = 0
      PROVE  NadaEnArca(g, 0)'
  <2>1. Propias(g)' = {}
      BY <1>7 DEF NadaEnArca, Propias
  <2>2. 0 \notin DOMAIN intentos
      BY <1>1, LenProperties
  <2>3. ASSUME NEW j \in DOMAIN intentos', intentos'[j].grupo = g, intentos'[j].fase \in EnArca
        PROVE  FALSE
      BY <1>2, <1>3, <1>4, <1>7, <2>2, <2>3 DEF NadaEnArca
  <2>. QED
      BY <2>1, <2>3 DEF NadaEnArca
<1>. QED
    BY <1>3, <1>4, <1>5, <1>6, <1>7

\* Where a retry is when it writes down what became of its group.
LEMMA AlAplicar ==
    ASSUME ResolucionAssumption, InductivoResolucion, NEW a \in Reintentos, Ocupa(a),
           mem[a].sel \cap Tomados = {}
    PROVE  /\ a \in Sesiones /\ a # Usuario /\ Formas /\ Sesion(a) /\ EnTrabajo(a)
           /\ mem[a] \in Memorias /\ mem[a].v \in Copias /\ mem[a].op \in Operaciones
           /\ mem[a].op \in Claves
           /\ mem[a].g \in Grupos /\ mem[a].g \notin Tomados
           /\ lote \in TipoLote /\ grupo \in [Grupos -> TipoGrupo]
           /\ fila \in [Grupos -> EstadosGrupo \cup {"borrada"}]
           /\ op \in [Operaciones -> TipoOp] /\ comprobantes \subseteq DOMAIN arca
           /\ intentos \in Seq(FilaDeIntento) /\ arca \in Seq(TipoArca)
           /\ fallas \in Nat /\ Tomados \subseteq Grupos /\ cruzados \subseteq Grupos
           /\ SinNumeroDe(a)
<1>1. /\ a \in Sesiones /\ a # Usuario /\ Formas /\ Sesion(a) /\ EnTrabajo(a)
      /\ mem[a] \in Memorias /\ mem[a].g \in Grupos /\ SinNumeroDe(a)
      /\ mem[a].op \in Operaciones /\ mem[a].op \in Claves
    BY DeLaSesion DEF Ocupa, PasosDeEmision
<1>2. Tomados \subseteq Grupos
  <2>1. \A b \in Sesiones : mem[b].toma.g \in Grupos \cup {0}
      BY <1>1, FormasPartes DEF Memorias, Tomas
  <2>. QED
      BY <2>1 DEF Tomados
<1>3. mem[a].v \in Copias /\ mem[a].g \notin Tomados
    BY <1>1 DEF Memorias, Sesion
<1>. QED
    BY <1>1, <1>2, <1>3, FormasPartes

LEMMA AplicarAutorizadoMantiene ==
    ASSUME ResolucionAssumption, InductivoResolucion, NEW a \in Reintentos,
           mem[a].pc = "aplicar", mem[a].sel \cap Tomados = {}, AplicarAutorizado(a),
           UNCHANGED <<fallas, arca, cruzados>>
    PROVE  InductivoResolucion' /\ MarcoOp
<1>0. PICK g : g = mem[a].g
    OBVIOUS
<1>1. Ocupa(a)
    BY DEF Ocupa, PasosDeEmision
<1>2. /\ a \in Sesiones /\ Formas /\ Sesion(a) /\ mem[a].v \in Copias
      /\ g \in Grupos /\ g \notin Tomados /\ lote \in TipoLote
      /\ grupo \in [Grupos -> TipoGrupo] /\ fila \in [Grupos -> EstadosGrupo \cup {"borrada"}]
      /\ op \in [Operaciones -> TipoOp] /\ comprobantes \subseteq DOMAIN arca
      /\ intentos \in Seq(FilaDeIntento) /\ arca \in Seq(TipoArca) /\ fallas \in Nat
      /\ Tomados \subseteq Grupos /\ cruzados \subseteq Grupos
    BY <1>0, <1>1, AlAplicar
<1>3. CASE Fin(a) /\ UNCHANGED <<comprobantes, grupo, fila, intentos, lote>>
    BY <1>2, <1>3, FinalMantiene DEF AplicarAutorizado
<1>4. /\ I(a) \in DOMAIN intentos /\ intentos[I(a)].grupo = g
      /\ intentos[I(a)].numero \in DOMAIN arca /\ I(a) = mem[a].i
    BY <1>0, <1>2 DEF Sesion, IntentoPropio, I, AplicarAutorizado
<1>5. intentos[I(a)].numero \in Nat
  <2>1. DOMAIN arca \subseteq Nat
      BY <1>2, LenProperties
  <2>. QED
      BY <1>4, <2>1
<1>6. ASSUME comprobantes' = comprobantes \cup {intentos[I(a)].numero},
             grupo' = [grupo EXCEPT ![g] = [estado |-> "autorizado", numero |-> intentos[I(a)].numero]],
             fila' = FilasMarcadas({g}, "autorizado"),
             intentos' = Cerrado(a, "autorizado", "cerrada_terminal"),
             lote' = Escribir(mem[a].v, EstadoLote(grupo')), Seguir(a, mem[a].v)
      PROVE  InductivoResolucion' /\ MarcoOp
  <2>1. Mueve(a) /\ ~Ocupa(a)' /\ Sesion(a)'
      BY <1>2, <1>6, SeguirMueve
  <2>2. /\ grupo' \in [Grupos -> TipoGrupo] /\ grupo'[g].estado = "autorizado"
        /\ \A h \in Grupos \ {g} : grupo'[h] = grupo[h]
      BY <1>2, <1>5, <1>6 DEF TipoGrupo, EstadosGrupo
  <2>3. /\ lote' \in TipoLote /\ lote'.estado \in {lote.estado, EstadoLote(grupo')}
        /\ lote'.dueno = lote.dueno /\ lote'.existe = lote.existe
        /\ lote'.compacto = lote.compacto
      BY <1>2, <1>6, EscribirForma, EstadoLoteForma DEF TipoLote
  <2>4. /\ fila' \in [Grupos -> EstadosGrupo \cup {"borrada"}]
        /\ ~lote.compacto => /\ fila'[g] = "autorizado"
                             /\ \A h \in Grupos \ {g} : fila'[h] = fila[h]
      BY <1>2, <1>6 DEF FilasMarcadas, EstadosGrupo
  <2>5. /\ intentos' \in Seq(FilaDeIntento) /\ MarcoIntentos({g}) /\ intentos' # <<>>
        /\ VueloEnProceso' /\ DuenoDelVuelo'
    <3>1. "autorizado" \in EstadosIntento /\ "cerrada_terminal" \in Cerradas
        BY DEF EstadosIntento, Cerradas
    <3>. QED
        BY <1>4, <1>6, <2>3, <3>1, CerradoMarco
  <2>6. Formas'
    <3>1. /\ op' \in [Operaciones -> TipoOp] /\ arca' \in Seq(TipoArca) /\ fallas' \in Nat
          /\ comprobantes' \subseteq DOMAIN arca' /\ mem' \in [Sesiones -> Memorias]
          /\ cruzados' \subseteq Grupos
        BY <1>2, <1>4, <1>6, <2>1 DEF Mueve, AplicarAutorizado
    <3>. QED
        BY <2>2, <2>3, <2>4, <2>5, <3>1, FormasPartesSiguientes
  <2>7. MarcoArca({g}) /\ MarcoOp
      BY MarcosIguales DEF AplicarAutorizado
  <2>8. MarcoGrupo(a, {g})
      BY <1>2, <2>2 DEF MarcoGrupo
  <2>9. MarcoLote
    <3>1. EstadoLote(grupo') = EstadoLote(grupo)'
        BY DEF EstadoLote, Con
    <3>. QED
        BY <2>3, <3>1 DEF MarcoLote
  <2>10. MarcoFilas({g})
      BY <2>2, <2>3, <2>4 DEF MarcoFilas
  <2>11. DebeGrupo(g)
    <3>1. g \notin Soltables'
        BY <2>2 DEF Soltables, Con, Resolubles
    <3>2. Propias(g)' = Propias(g)
        BY DEF Propias
    <3>3. (\A x, y \in Propias(g) : x = y)'
        BY <1>2, <3>2, IgualesSiguientes DEF InductivoResolucion, UnaPropia
    <3>4. Quieto(g)'
        BY <1>0, <1>1, <2>1, <2>2, QuietoAlSoltar DEF Resolubles
    <3>. QED
        BY <2>2, <2>3, <2>4, <2>5, <3>1, <3>3, <3>4 DEF DebeGrupo
  <2>. QED
      BY <1>0, <1>1, <1>2, <2>1, <2>5, <2>6, <2>7, <2>8, <2>9, <2>10, <2>11, PasoQueSuelta
<1>. QED
    BY <1>0, <1>3, <1>6 DEF AplicarAutorizado, G

\* A group given back to what can be retried, with nothing of it in ARCA.
LEMMA GrupoDevuelto ==
    ASSUME InductivoResolucion, NEW a \in Reintentos, SinEnvio(a), NEW g, g = mem[a].g,
           NadaEnArca(g, 0)', grupo'[g].estado = "fallido",
           grupo'[g].numero = 0 \/ g \in cruzados', UNCHANGED cruzados,
           lote'.existe /\ ~lote'.compacto => fila'[g] = "fallido"
    PROVE  DebeGrupo(g)
<1>1. ~Resuelto(g)
    BY DEF Resuelto
<1>2. (\A x, y \in Propias(g) : x = y)' /\ Propias(g)' = {}
    BY DEF NadaEnArca
<1>. QED
    BY <1>1, <1>2 DEF DebeGrupo, Quieto

\* The attempt in hand, if there is one, is closed and leaves nothing in ARCA.
LEMMA CierreSinArca ==
    ASSUME InductivoResolucion, NEW a \in Reintentos, NEW g, g = mem[a].g,
           Sesion(a), EnTrabajo(a), SinEnvio(a), mem[a].pc = "aplicar", UNCHANGED arca,
           NEW e \in EstadosIntento, NEW f \in Cerradas, intentos' = Cerrado(a, e, f),
           lote'.existe = lote.existe, lote'.dueno = lote.dueno
    PROVE  /\ intentos' \in Seq(FilaDeIntento) /\ MarcoIntentos({g})
           /\ VueloEnProceso' /\ DuenoDelVuelo' /\ NadaEnArca(g, 0)'
<1>1. NadaEnArca(g, mem[a].i)
    BY DEF EnTrabajo
<1>2. CASE mem[a].i = 0
  <2>1. UNCHANGED intentos /\ intentos \in Seq(FilaDeIntento)
      BY <1>2, FormasPartes DEF Cerrado, I, InductivoResolucion
  <2>2. NadaEnArca(g, 0)'
      BY <1>1, <1>2, <2>1 DEF NadaEnArca, Propias
  <2>. QED
      BY <2>1, <2>2, VueloIgual, MarcosIguales
<1>3. CASE mem[a].i # 0
  <2>1. I(a) \in DOMAIN intentos /\ intentos[I(a)].grupo = g /\ I(a) = mem[a].i
      BY <1>3 DEF Sesion, IntentoPropio, I
  <2>. QED
      BY <1>1, <2>1, CerradoMarco
<1>. QED
    BY <1>2, <1>3

LEMMA AplicarFallidoMantiene ==
    ASSUME ResolucionAssumption, InductivoResolucion, NEW a \in Reintentos,
           mem[a].pc = "aplicar", mem[a].sel \cap Tomados = {}, AplicarFallido(a),
           UNCHANGED <<fallas, arca, cruzados>>
    PROVE  InductivoResolucion' /\ MarcoOp
<1>0. PICK g : g = mem[a].g
    OBVIOUS
<1>1. Ocupa(a) /\ SinEnvio(a)
    BY DEF Ocupa, PasosDeEmision, SinEnvio, Enviado, AplicarFallido, Fallidos
<1>2. /\ a \in Sesiones /\ Formas /\ Sesion(a) /\ EnTrabajo(a) /\ mem[a].v \in Copias
      /\ g \in Grupos /\ g \notin Tomados /\ lote \in TipoLote
      /\ grupo \in [Grupos -> TipoGrupo] /\ fila \in [Grupos -> EstadosGrupo \cup {"borrada"}]
      /\ op \in [Operaciones -> TipoOp] /\ comprobantes \subseteq DOMAIN arca
      /\ intentos \in Seq(FilaDeIntento) /\ arca \in Seq(TipoArca) /\ fallas \in Nat
      /\ Tomados \subseteq Grupos /\ cruzados \subseteq Grupos /\ SinNumeroDe(a)
    BY <1>0, <1>1, AlAplicar
<1>3. /\ grupo' = Marcados({g}, "fallido") /\ fila' = FilasMarcadas({g}, "fallido")
      /\ lote' = Escribir(mem[a].v, EstadoLote(grupo')) /\ Seguir(a, mem[a].v)
      /\ UNCHANGED <<comprobantes, op, fallas, arca, cruzados>>
    BY <1>0 DEF AplicarFallido, G
<1>4. Mueve(a) /\ ~Ocupa(a)' /\ Sesion(a)'
    BY <1>2, <1>3, SeguirMueve
<1>5. /\ grupo' \in [Grupos -> TipoGrupo] /\ grupo'[g].estado = "fallido"
      /\ grupo'[g].numero = grupo[g].numero
      /\ \A h \in Grupos \ {g} : grupo'[h] = grupo[h]
    BY <1>2, <1>3 DEF TipoGrupo, EstadosGrupo, Marcados
<1>6. /\ lote' \in TipoLote /\ lote'.estado \in {lote.estado, EstadoLote(grupo')}
      /\ lote'.dueno = lote.dueno /\ lote'.existe = lote.existe
      /\ lote'.compacto = lote.compacto
    BY <1>2, <1>3, EscribirForma, EstadoLoteForma DEF TipoLote
<1>7. /\ fila' \in [Grupos -> EstadosGrupo \cup {"borrada"}]
      /\ ~lote.compacto => /\ fila'[g] = "fallido"
                           /\ \A h \in Grupos \ {g} : fila'[h] = fila[h]
    BY <1>2, <1>3 DEF FilasMarcadas, EstadosGrupo
<1>8. /\ intentos' \in Seq(FilaDeIntento) /\ MarcoIntentos({g})
      /\ VueloEnProceso' /\ DuenoDelVuelo' /\ NadaEnArca(g, 0)'
  <2>1. PICK e \in EstadosIntento, f \in Cerradas : intentos' = Cerrado(a, e, f)
      BY DEF AplicarFallido, EstadosIntento, Cerradas
  <2>. QED
      BY <1>0, <1>1, <1>2, <1>3, <1>6, <2>1, CierreSinArca
<1>9. Formas'
  <2>1. /\ op' \in [Operaciones -> TipoOp] /\ arca' \in Seq(TipoArca) /\ fallas' \in Nat
        /\ comprobantes' \subseteq DOMAIN arca' /\ mem' \in [Sesiones -> Memorias]
        /\ cruzados' \subseteq Grupos
      BY <1>2, <1>3, <1>4 DEF Mueve
  <2>. QED
      BY <1>5, <1>6, <1>7, <1>8, <2>1, FormasPartesSiguientes
<1>10. MarcoArca({g}) /\ MarcoOp
    BY <1>3, MarcosIguales
<1>11. MarcoGrupo(a, {g}) /\ MarcoFilas({g})
    BY <1>2, <1>5, <1>6, <1>7 DEF MarcoGrupo, MarcoFilas
<1>12. MarcoLote
  <2>1. EstadoLote(grupo') = EstadoLote(grupo)'
      BY DEF EstadoLote, Con
  <2>. QED
      BY <1>6, <2>1 DEF MarcoLote
<1>13. DebeGrupo(g)
  <2>1. grupo'[g].numero = 0 \/ g \in cruzados'
      BY <1>0, <1>1, <1>2, <1>5 DEF SinNumeroDe
  <2>. QED
      BY <1>0, <1>1, <1>5, <1>6, <1>7, <1>8, <2>1, GrupoDevuelto
<1>. QED
    BY <1>0, <1>1, <1>2, <1>4, <1>8, <1>9, <1>10, <1>11, <1>12, <1>13, PasoQueSuelta

LEMMA AplicarGlobalMantiene ==
    ASSUME ResolucionAssumption, InductivoResolucion, NEW a \in Reintentos,
           mem[a].pc = "aplicar", mem[a].sel \cap Tomados = {}, AplicarGlobal(a),
           UNCHANGED <<fallas, arca, cruzados>>
    PROVE  InductivoResolucion' /\ MarcoOp
<1>0. PICK g : g = mem[a].g
    OBVIOUS
<1>1. Ocupa(a) /\ SinEnvio(a)
    BY DEF Ocupa, PasosDeEmision, SinEnvio, Enviado, AplicarGlobal
<1>2. /\ a \in Sesiones /\ Formas /\ Sesion(a) /\ EnTrabajo(a)
      /\ mem[a].op \in Claves
      /\ g \in Grupos /\ g \notin Tomados /\ lote \in TipoLote
      /\ grupo \in [Grupos -> TipoGrupo] /\ fila \in [Grupos -> EstadosGrupo \cup {"borrada"}]
      /\ op \in [Operaciones -> TipoOp] /\ comprobantes \subseteq DOMAIN arca
      /\ intentos \in Seq(FilaDeIntento) /\ arca \in Seq(TipoArca) /\ fallas \in Nat
      /\ Tomados \subseteq Grupos /\ cruzados \subseteq Grupos /\ SinNumeroDe(a)
    BY <1>0, <1>1, AlAplicar
<1>3. UNCHANGED <<comprobantes, op, fallas, arca, cruzados>>
    BY DEF AplicarGlobal
<1>4. CASE Fin(a) /\ UNCHANGED <<grupo, fila, intentos, lote>>
    BY <1>2, <1>3, <1>4, FinalMantiene
<1>5. ASSUME \A h \in mem[a].pend : grupo[h] = [estado |-> "fallido", numero |-> 0],
             grupo' = [grupo EXCEPT ![g] =
                          [estado |-> "fallido", numero |-> IF mem[a].cae = 0 THEN @.numero ELSE 0]],
             fila' = FilasMarcadas(SinTerminar(a), "fallido"),
             intentos' = Cerrado(a, "rechazado_arca", "cerrada_terminal"),
             lote' = [lote EXCEPT !.estado = EstadoLote(grupo'), !.rechazo = K(a)],
             Seguir(a, Visto(lote'))
      PROVE  InductivoResolucion' /\ MarcoOp
  <2>1. /\ lote' \in TipoLote /\ lote'.estado = EstadoLote(grupo')
        /\ lote'.dueno = lote.dueno /\ lote'.existe = lote.existe
        /\ lote'.compacto = lote.compacto
      BY <1>2, <1>5, EstadoLoteForma DEF TipoLote, K
  <2>2. Mueve(a) /\ ~Ocupa(a)' /\ Sesion(a)'
    <3>1. Visto(lote') \in Copias
        BY <2>1 DEF Visto, Copias, TipoLote
    <3>. QED
        BY <1>5, <3>1, SeguirMueve
  <2>3. /\ grupo' \in [Grupos -> TipoGrupo] /\ grupo'[g].estado = "fallido"
        /\ grupo'[g].numero \in {grupo[g].numero, 0}
        /\ \A h \in Grupos \ {g} : grupo'[h] = grupo[h]
      BY <1>2, <1>5 DEF TipoGrupo, EstadosGrupo
  <2>4. /\ fila' \in [Grupos -> EstadosGrupo \cup {"borrada"}]
        /\ ~lote.compacto => /\ fila'[g] = "fallido"
                             /\ \A h \in Grupos \ {g} :
                                    fila'[h] = fila[h] \/ (h \in mem[a].pend /\ fila'[h] = "fallido")
      BY <1>0, <1>2, <1>5 DEF FilasMarcadas, EstadosGrupo, SinTerminar, G
  <2>5. /\ intentos' \in Seq(FilaDeIntento) /\ MarcoIntentos({g})
        /\ VueloEnProceso' /\ DuenoDelVuelo' /\ NadaEnArca(g, 0)'
    <3>1. "rechazado_arca" \in EstadosIntento /\ "cerrada_terminal" \in Cerradas
        BY DEF EstadosIntento, Cerradas
    <3>. QED
        BY <1>0, <1>1, <1>2, <1>3, <1>5, <2>1, <3>1, CierreSinArca
  <2>6. Formas'
      BY <1>2, <1>3, <2>1, <2>2, <2>3, <2>4, <2>5, FormasPartesSiguientes DEF Mueve
  <2>7. MarcoArca({g}) /\ MarcoOp
      BY <1>3, MarcosIguales
  <2>8. MarcoGrupo(a, {g})
      BY <1>2, <2>3 DEF MarcoGrupo
  <2>9. MarcoFilas({g})
      BY <1>5, <2>1, <2>3, <2>4 DEF MarcoFilas
  <2>10. MarcoLote
    <3>1. EstadoLote(grupo') = EstadoLote(grupo)'
        BY DEF EstadoLote, Con
    <3>. QED
        BY <2>1, <3>1 DEF MarcoLote
  <2>11. DebeGrupo(g)
    <3>1. grupo'[g].numero = 0 \/ g \in cruzados'
        BY <1>0, <1>1, <1>2, <2>3 DEF SinNumeroDe
    <3>. QED
        BY <1>0, <1>1, <2>1, <2>3, <2>4, <2>5, <3>1, GrupoDevuelto
  <2>. QED
      BY <1>0, <1>1, <1>2, <2>2, <2>5, <2>6, <2>7, <2>8, <2>9, <2>10, <2>11, PasoQueSuelta
<1>. QED
    BY <1>0, <1>4, <1>5 DEF AplicarGlobal, G

\* The attempts of the operation are immobilised: none starts or ends its flight.
Inmoviliza(a, s) ==
    s = [i \in DOMAIN intentos |->
           IF i \in IntentosDe(K(a)) /\ intentos[i].grupo \in SinTerminar(a)
           THEN [intentos[i] EXCEPT !.estado = "requiere_reconciliacion",
                   !.fase = IF @ = "arca_iniciada" THEN "requiere_reconciliacion" ELSE @]
           ELSE intentos[i]]

LEMMA Inmovilizados ==
    ASSUME InductivoResolucion, NEW a \in Reintentos, NEW s, Inmoviliza(a, s),
           intentos' = s, lote'.existe = lote.existe, lote'.dueno = lote.dueno
    PROVE  /\ intentos' \in Seq(FilaDeIntento) /\ MarcoIntentos({})
           /\ (intentos # <<>> => intentos' # <<>>) /\ VueloEnProceso' /\ DuenoDelVuelo'
<1>1. intentos \in Seq(FilaDeIntento)
    BY FormasPartes DEF InductivoResolucion
<1>2. \A i \in DOMAIN intentos : intentos[i] \in FilaDeIntento
    BY <1>1, ElementOfSeq, LenProperties
<1>3. ASSUME NEW i \in DOMAIN intentos
      PROVE  /\ s[i] \in FilaDeIntento
             /\ s[i].op = intentos[i].op /\ s[i].grupo = intentos[i].grupo
             /\ s[i].numero = intentos[i].numero
             /\ s[i].fase \in EnArca <=> intentos[i].fase \in EnArca
             /\ s[i].fase \in Antes <=> intentos[i].fase \in Antes
             /\ s[i].fase = "arca_iniciada" => s[i] = intentos[i]
  <2>1. PICK x \in FilaDeIntento : x = intentos[i]
      BY <1>2
  <2>2. CASE s[i] = x
      BY <2>1, <2>2 DEF Inmoviliza
  <2>3. CASE s[i] = [x EXCEPT !.estado = "requiere_reconciliacion",
                       !.fase = IF @ = "arca_iniciada" THEN "requiere_reconciliacion" ELSE @]
    <3>1. PICK f : f = IF x.fase = "arca_iniciada" THEN "requiere_reconciliacion" ELSE x.fase
        OBVIOUS
    <3>2. f \in FasesGuarda /\ f # "arca_iniciada" /\ (f \in EnArca <=> x.fase \in EnArca)
          /\ (f \in Antes <=> x.fase \in Antes)
        BY <2>1, <3>1 DEF FilaDeIntento, FasesGuarda, EnArca, Antes
    <3>3. "requiere_reconciliacion" \in EstadosIntento
        BY DEF EstadosIntento, Inciertos
    <3>4. s[i] = [x EXCEPT !.estado = "requiere_reconciliacion", !.fase = f]
        BY <2>3, <3>1
    <3>. QED
        BY <2>1, <3>2, <3>3, <3>4 DEF FilaDeIntento
  <2>. QED
      BY <2>1, <2>2, <2>3 DEF Inmoviliza
<1>4. /\ s \in Seq(FilaDeIntento) /\ DOMAIN s = DOMAIN intentos
      /\ intentos # <<>> => s # <<>>
  <2>1. s = [i \in DOMAIN intentos |-> s[i]]
      BY DEF Inmoviliza
  <2>. QED
      BY <1>1, <1>3, <2>1, IntentosEscritos
<1>5. PICK t : t = intentos' /\ t = s
    OBVIOUS
<1>6. MarcoIntentos({})
    BY <1>3, <1>4, <1>5 DEF MarcoIntentos
<1>7. \A i \in DOMAIN intentos' :
         /\ i \in DOMAIN intentos /\ intentos'[i].op = intentos[i].op
         /\ intentos'[i].fase = "arca_iniciada" => intentos'[i] = intentos[i]
    BY <1>3, <1>4, <1>5
<1>8. VueloEnProceso'
    BY <1>7 DEF InductivoResolucion, VueloEnProceso
<1>9. DuenoDelVuelo'
    BY <1>7 DEF InductivoResolucion, DuenoDelVuelo
<1>. QED
    BY <1>4, <1>5, <1>6, <1>8, <1>9

\* A frame without groups is one for any of them.
LEMMA MarcoIntentosMayor ==
    ASSUME NEW s, MarcoIntentos({})
    PROVE  MarcoIntentos(s)
BY DEF MarcoIntentos

\* A group immobilised by the session that worked on it.
LEMMA GrupoInmovilizado ==
    ASSUME ResolucionAssumption, InductivoResolucion, Formas', NEW a \in Reintentos, Mueve(a),
           Ocupa(a), ~Ocupa(a)', NEW g \in Grupos, g = mem[a].g, UNCHANGED arca,
           MarcoIntentos({}), grupo'[g].estado = "requiere_reconciliacion",
           lote'.existe /\ ~lote'.compacto => fila'[g] = "requiere_reconciliacion"
    PROVE  DebeGrupo(g)
<1>1. g \notin Soltables'
    BY DEF Soltables, Con, Resolubles
<1>2. Propias(g)' = Propias(g)
    BY DEF Propias
<1>3. (\A x, y \in Propias(g) : x = y)'
    BY <1>2, IgualesSiguientes DEF InductivoResolucion, UnaPropia
<1>4. Quieto(g)'
    BY QuietoAlSoltar DEF Resolubles
<1>5. (Propias(g) # {} => intentos # <<>>)'
    BY <1>2, IntentosQuedan DEF InductivoResolucion, PropiaConIntento
<1>. QED
    BY <1>1, <1>3, <1>4, <1>5 DEF DebeGrupo

\* An operation that has not answered changes its state and still has not.
LEMMA EstadoEscrito ==
    ASSUME op \in [Operaciones -> TipoOp], NEW k \in Operaciones, op[k].resp = "nula",
           NEW e \in {"interrumpida_pre_arca", "requiere_reconciliacion"},
           op' = [op EXCEPT ![k].estado = e]
    PROVE  op' \in [Operaciones -> TipoOp] /\ MarcoOp
<1>1. PICK x \in TipoOp : x = op[k]
    OBVIOUS
<1>2. [x EXCEPT !.estado = e] \in TipoOp /\ [x EXCEPT !.estado = e].resp = "nula"
    BY <1>1 DEF TipoOp
<1>3. op' = [op EXCEPT ![k] = [x EXCEPT !.estado = e]]
    BY <1>1
<1>4. op'[k] = [x EXCEPT !.estado = e] /\ \A j \in Operaciones \ {k} : op'[j] = op[j]
    BY <1>3
<1>5. MarcoOp
    BY <1>2, <1>4 DEF MarcoOp
<1>. QED
    BY <1>2, <1>3, <1>5

LEMMA AplicarInciertoMantiene ==
    ASSUME ResolucionAssumption, InductivoResolucion, NEW a \in Reintentos,
           mem[a].pc = "aplicar", mem[a].sel \cap Tomados = {}, AplicarIncierto(a),
           UNCHANGED <<fallas, arca, cruzados>>
    PROVE  InductivoResolucion' /\ MarcoOp
<1>0. PICK g : g = mem[a].g
    OBVIOUS
<1>1. Ocupa(a)
    BY DEF Ocupa, PasosDeEmision
<1>2. /\ a \in Sesiones /\ Formas /\ Sesion(a) /\ mem[a].op \in Operaciones
      /\ g \in Grupos /\ g \notin Tomados /\ lote \in TipoLote
      /\ grupo \in [Grupos -> TipoGrupo] /\ fila \in [Grupos -> EstadosGrupo \cup {"borrada"}]
      /\ op \in [Operaciones -> TipoOp] /\ comprobantes \subseteq DOMAIN arca
      /\ intentos \in Seq(FilaDeIntento) /\ arca \in Seq(TipoArca) /\ fallas \in Nat
      /\ cruzados \subseteq Grupos
    BY <1>0, <1>1, AlAplicar
<1>3. UNCHANGED <<comprobantes, fallas, arca, cruzados>>
    BY DEF AplicarIncierto
<1>4. CASE Fin(a) /\ UNCHANGED <<grupo, fila, intentos, op, lote>>
    BY <1>2, <1>3, <1>4, FinalMantiene
<1>5. PICK S : S = SinTerminar(a)
    OBVIOUS
<1>6. g \in S /\ S \subseteq mem[a].sel /\ S \cap Tomados = {}
    BY <1>0, <1>1, <1>2, <1>5 DEF SinTerminar, G, Sesion, PasosDeEmision
<1>7. ASSUME op[K(a)].resp = "nula",
             grupo' = Marcados(S, "requiere_reconciliacion"),
             fila' = FilasMarcadas(S, "requiere_reconciliacion"),
             Inmoviliza(a, intentos'),
             op' = [op EXCEPT ![K(a)].estado = "requiere_reconciliacion"],
             lote' = [lote EXCEPT !.estado = "requiere_reconciliacion"],
             Seguir(a, Visto(lote'))
      PROVE  InductivoResolucion' /\ MarcoOp
  <2>1. /\ lote' \in TipoLote /\ lote'.estado = "requiere_reconciliacion"
        /\ lote'.dueno = lote.dueno /\ lote'.existe = lote.existe
        /\ lote'.compacto = lote.compacto
      BY <1>2, <1>7 DEF TipoLote, EstadosLote, Terminales
  <2>2. Mueve(a) /\ ~Ocupa(a)' /\ Sesion(a)'
    <3>1. Visto(lote') \in Copias
        BY <2>1 DEF Visto, Copias, TipoLote
    <3>. QED
        BY <1>7, <3>1, SeguirMueve
  <2>3. /\ grupo' \in [Grupos -> TipoGrupo] /\ grupo'[g].estado = "requiere_reconciliacion"
        /\ \A h \in Grupos \ S : grupo'[h] = grupo[h]
        /\ \A h \in Grupos \cap S : /\ grupo'[h].estado = "requiere_reconciliacion"
                                    /\ grupo'[h].numero = grupo[h].numero
    <3>1. ASSUME NEW h \in Grupos
          PROVE  [grupo[h] EXCEPT !.estado = "requiere_reconciliacion"] \in TipoGrupo
      <4>1. PICK x \in TipoGrupo : x = grupo[h]
          BY <1>2
      <4>2. [x EXCEPT !.estado = "requiere_reconciliacion"] \in TipoGrupo
          BY DEF TipoGrupo, EstadosGrupo
      <4>. QED
          BY <4>1, <4>2
    <3>2. grupo' = [h \in Grupos |->
             IF h \in S THEN [grupo[h] EXCEPT !.estado = "requiere_reconciliacion"] ELSE grupo[h]]
        BY <1>7 DEF Marcados
    <3>3. grupo' \in [Grupos -> TipoGrupo]
        BY <1>2, <3>1, <3>2
    <3>4. \A h \in Grupos : grupo[h] \in TipoGrupo
        BY <1>2
    <3>5. ASSUME NEW h \in Grupos \cap S
          PROVE  /\ grupo'[h].estado = "requiere_reconciliacion"
                 /\ grupo'[h].numero = grupo[h].numero
        BY <3>2, <3>4 DEF TipoGrupo
    <3>. QED
        BY <1>2, <1>6, <3>2, <3>3, <3>5
  <2>4. /\ fila' \in [Grupos -> EstadosGrupo \cup {"borrada"}]
        /\ ~lote.compacto =>
              \A h \in Grupos : IF h \in S THEN fila'[h] = "requiere_reconciliacion"
                                ELSE fila'[h] = fila[h]
      BY <1>2, <1>7 DEF FilasMarcadas, EstadosGrupo
  <2>5. /\ intentos' \in Seq(FilaDeIntento) /\ MarcoIntentos({})
        /\ VueloEnProceso' /\ DuenoDelVuelo'
    <3>1. PICK s : s = intentos' /\ Inmoviliza(a, s)
        BY <1>7
    <3>. QED
        BY <2>1, <3>1, Inmovilizados
  <2>6. op' \in [Operaciones -> TipoOp] /\ MarcoOp
      BY <1>2, <1>7, EstadoEscrito DEF K
  <2>7. Formas'
      BY <1>2, <1>3, <2>1, <2>2, <2>3, <2>4, <2>5, <2>6, FormasPartesSiguientes DEF Mueve
  <2>8. MarcoArca({g}) /\ MarcoIntentos({g})
      BY <1>3, <2>5, MarcosIguales, MarcoIntentosMayor
  <2>9. MarcoGrupo(a, {g})
    <3>1. Tomados \subseteq Grupos
        BY <1>1, AlAplicar
    <3>. QED
        BY <1>6, <2>3, <3>1 DEF MarcoGrupo
  <2>10. MarcoFilas({g})
      BY <2>1, <2>3, <2>4 DEF MarcoFilas
  <2>11. MarcoLote
      BY <2>1 DEF MarcoLote, Cerrados
  <2>12. DebeGrupo(g)
      BY <1>0, <1>1, <1>2, <1>3, <1>6, <2>1, <2>2, <2>3, <2>4, <2>5, <2>7, GrupoInmovilizado
  <2>. QED
      BY <1>0, <1>1, <1>2, <2>2, <2>5, <2>6, <2>7, <2>8, <2>9, <2>10, <2>11, <2>12, PasoQueSuelta
<1>. QED
    BY <1>4, <1>5, <1>7 DEF AplicarIncierto, Inmoviliza

LEMMA AplicarMantiene ==
    ASSUME ResolucionAssumption, InductivoResolucion, NEW a \in Reintentos, Aplicar(a)
    PROVE  InductivoResolucion' /\ MarcoOp
BY AplicarAutorizadoMantiene, AplicarFallidoMantiene, AplicarGlobalMantiene,
   AplicarInciertoMantiene DEF Aplicar, En, SinFalla

----------------------------------------------------------------------------
(* The recovery of a retry that an outage interrupted.                      *)

\* A guard that moves without entering or leaving ARCA disturbs no group.
LEMMA GuardaDeSuClase ==
    ASSUME InductivoResolucion, NEW a, I(a) \in DOMAIN intentos,
           NEW e \in EstadosIntento, NEW f \in FasesGuarda \ {"arca_iniciada"},
           f \in EnArca <=> intentos[I(a)].fase \in EnArca,
           f \in Antes <=> intentos[I(a)].fase \in Antes,
           intentos' = Cerrado(a, e, f), lote'.existe = lote.existe, lote'.dueno = lote.dueno
    PROVE  /\ intentos' \in Seq(FilaDeIntento) /\ MarcoIntentos({})
           /\ VueloEnProceso' /\ DuenoDelVuelo'
<1>1. intentos \in Seq(FilaDeIntento)
    BY FormasPartes DEF InductivoResolucion
<1>2. PICK s : s = Cerrado(a, e, f) /\ s = intentos'
    OBVIOUS
<1>3. /\ s \in Seq(FilaDeIntento) /\ DOMAIN s = DOMAIN intentos /\ s # <<>>
      /\ \A i \in DOMAIN intentos :
            /\ s[i].op = intentos[i].op /\ s[i].grupo = intentos[i].grupo
            /\ s[i].numero = intentos[i].numero
            /\ s[i].estado = IF i = I(a) THEN e ELSE intentos[i].estado
            /\ s[i].fase = IF i = I(a) THEN f ELSE intentos[i].fase
    BY <1>1, <1>2, CerradoEscrito
<1>4. MarcoIntentos({})
    BY <1>2, <1>3 DEF MarcoIntentos
<1>5. VueloEnProceso' /\ DuenoDelVuelo'
    BY <1>2, <1>3 DEF InductivoResolucion, VueloEnProceso, DuenoDelVuelo
<1>. QED
    BY <1>2, <1>3, <1>4, <1>5

\* What the recovery proves: the operation has not answered, the guard keeps its
\* side of ARCA, and an operation that may start again has nothing there.
LEMMA RecuperadoForma ==
    ASSUME ResolucionAssumption, InductivoResolucion, NEW a \in Reintentos,
           Recuperado(a) # "nada", intentos' = IntentosRecuperados(a), UNCHANGED arca,
           lote'.existe = lote.existe, lote'.dueno = lote.dueno
    PROVE  /\ op[K(a)].resp = "nula"
           /\ Recuperado(a) \in {"interrumpida_pre_arca", "requiere_reconciliacion"}
           /\ intentos' \in Seq(FilaDeIntento) /\ MarcoIntentos({})
           /\ VueloEnProceso' /\ DuenoDelVuelo'
           /\ Recuperado(a) = "interrumpida_pre_arca" =>
                 \A g \in Grupos : NadaEnArca(g, I(a)) => NadaEnArca(g, 0)'
<1>1. intentos \in Seq(FilaDeIntento)
    BY FormasPartes DEF InductivoResolucion
<1>2. MarcoArca({})
    BY MarcosIguales
<1>3. CASE GuardaSinArca(a)
  <2>1. /\ I(a) \in DOMAIN intentos /\ op[K(a)].resp = "nula"
        /\ intentos[I(a)].fase \in {"pre_arca", "cerrada_pre_arca"}
        /\ intentos' = Cerrado(a, "fallido_verificado", "cerrada_pre_arca")
      BY <1>3 DEF GuardaSinArca, GuardaPropia, IntentosDe, IntentosRecuperados
  <2>2. /\ "fallido_verificado" \in EstadosIntento
        /\ "cerrada_pre_arca" \in FasesGuarda \ {"arca_iniciada"}
        /\ "cerrada_pre_arca" \notin EnArca /\ "cerrada_pre_arca" \in Antes
        /\ intentos[I(a)].fase \notin EnArca /\ intentos[I(a)].fase \in Antes
      BY <2>1 DEF EstadosIntento, FasesGuarda, Cerradas, EnArca, Antes
  <2>3. /\ intentos' \in Seq(FilaDeIntento) /\ MarcoIntentos({})
        /\ VueloEnProceso' /\ DuenoDelVuelo'
      BY <2>1, <2>2, GuardaDeSuClase
  <2>4. ASSUME NEW g \in Grupos, NadaEnArca(g, I(a))
        PROVE  NadaEnArca(g, 0)'
    <3>1. NadaEnArca(g, 0)
        BY <2>2, <2>4 DEF NadaEnArca
    <3>. QED
        BY <1>2, <2>3, <3>1, NadaSigue
  <2>5. Recuperado(a) \in {"interrumpida_pre_arca", "requiere_reconciliacion"}
      BY <1>3 DEF Recuperado
  <2>. QED
      BY <2>1, <2>3, <2>4, <2>5
<1>4. CASE ~GuardaSinArca(a) /\ GuardaAmbigua(a)
  <2>1. /\ I(a) \in DOMAIN intentos /\ op[K(a)].resp = "nula"
        /\ intentos[I(a)].fase \in {"arca_iniciada", "requiere_reconciliacion"}
        /\ intentos' = Cerrado(a, "requiere_reconciliacion", "requiere_reconciliacion")
      BY <1>4 DEF GuardaAmbigua, GuardaPropia, IntentosDe, IntentosRecuperados
  <2>2. /\ "requiere_reconciliacion" \in EstadosIntento
        /\ "requiere_reconciliacion" \in FasesGuarda \ {"arca_iniciada"}
        /\ "requiere_reconciliacion" \in EnArca /\ "requiere_reconciliacion" \notin Antes
        /\ intentos[I(a)].fase \in EnArca /\ intentos[I(a)].fase \notin Antes
      BY <2>1 DEF EstadosIntento, Inciertos, FasesGuarda, EnArca, Antes
  <2>3. /\ intentos' \in Seq(FilaDeIntento) /\ MarcoIntentos({})
        /\ VueloEnProceso' /\ DuenoDelVuelo'
      BY <2>1, <2>2, GuardaDeSuClase
  <2>4. Recuperado(a) = "requiere_reconciliacion"
      BY <1>4 DEF Recuperado
  <2>. QED
      BY <2>1, <2>3, <2>4
<1>5. CASE ~GuardaSinArca(a) /\ ~GuardaAmbigua(a)
  <2>1. /\ I(a) = 0 /\ op[K(a)].resp = "nula" /\ Recuperado(a) = "interrumpida_pre_arca"
      BY <1>5 DEF Recuperado
  <2>2. UNCHANGED intentos
      BY <1>5 DEF IntentosRecuperados
  <2>3. MarcoIntentos({}) /\ VueloEnProceso' /\ DuenoDelVuelo'
      BY <2>2, MarcosIguales, VueloIgual
  <2>4. ASSUME NEW g \in Grupos, NadaEnArca(g, I(a))
        PROVE  NadaEnArca(g, 0)'
      BY <2>1, <2>2, <2>4 DEF NadaEnArca, Propias
  <2>. QED
      BY <1>1, <2>1, <2>2, <2>3, <2>4
<1>. QED
    BY <1>3, <1>4, <1>5

\* A retry that ends writes only its operation and its attempt.
LEMMA RecuperarOperacionMantiene ==
    ASSUME ResolucionAssumption, InductivoResolucion, NEW a \in Reintentos,
           RecuperarOperacion(a)
    PROVE  InductivoResolucion' /\ MarcoOp
<1>1. /\ mem[a].pc = "recuperar_op" /\ mem[a].pc # "inicio" /\ a \in Sesiones /\ a # Usuario
      /\ Formas /\ Fin(a) /\ fallas' \in Nat /\ op \in [Operaciones -> TipoOp]
      /\ K(a) \in Operaciones
      /\ UNCHANGED <<lote, grupo, fila, arca, cruzados, comprobantes>>
    BY DeLaSesion, FormasPartes DEF RecuperarOperacion, En, SinFalla, K
<1>2. CASE UNCHANGED <<op, intentos>>
    BY <1>1, <1>2, FinalMantiene
<1>3. ASSUME NEW e, e = Recuperado(a), e # "nada", op' = [op EXCEPT ![K(a)].estado = e],
             intentos' = IntentosRecuperados(a)
      PROVE  InductivoResolucion' /\ MarcoOp
  <2>1. /\ op[K(a)].resp = "nula" /\ e \in {"interrumpida_pre_arca", "requiere_reconciliacion"}
        /\ intentos' \in Seq(FilaDeIntento) /\ MarcoIntentos({})
        /\ VueloEnProceso' /\ DuenoDelVuelo'
      BY <1>1, <1>3, RecuperadoForma
  <2>2. op' \in [Operaciones -> TipoOp] /\ MarcoOp
      BY <1>1, <1>3, <2>1, EstadoEscrito
  <2>3. Mueve(a) /\ Sesion(a)' /\ ~Ocupa(a)'
      BY <1>1, FinMueve, FinSesion
  <2>4. Formas'
      BY <1>1, <2>1, <2>2, <2>3, FormasPartes, FormasPartesSiguientes DEF Mueve
  <2>5. Marco(a, {})
      BY <1>1, <2>1, <2>2, <2>3, MarcosIguales DEF Marco, MarcoMem, Mueve
  <2>6. mem'[a].pc \notin PasosDeEmision
      BY <2>3 DEF Ocupa
  <2>7. DebeSesion(a, {})
      BY <2>3, <2>6 DEF DebeSesion, Dueno, EnTrabajo, FilaDe, SinNumeroDe, SinEnvio,
                        PasosDeEmision
  <2>8. Debe(a, {})
      BY <1>1, <2>1, <2>4, <2>7 DEF Debe
  <2>. QED
      BY <1>1, <2>2, <2>5, <2>8, PasoConMarco
<1>. QED
    BY <1>2, <1>3 DEF RecuperarOperacion

LEMMA RecuperarMantiene ==
    ASSUME ResolucionAssumption, InductivoResolucion, NEW a \in Reintentos, Recuperar(a)
    PROVE  InductivoResolucion' /\ MarcoOp
<1>0. PICK g : g = mem[a].g
    OBVIOUS
<1>1. /\ mem[a].pc = "recuperar" /\ mem[a].pc # "inicio" /\ a \in Sesiones /\ Formas
      /\ Fin(a) /\ fallas' \in Nat /\ op \in [Operaciones -> TipoOp] /\ K(a) \in Operaciones
      /\ mem[a].sel \cap Tomados = {}
      /\ UNCHANGED <<arca, cruzados, comprobantes>>
    BY DeLaSesion, FormasPartes DEF Recuperar, En, SinFalla, K
<1>2. CASE UNCHANGED <<op, intentos, grupo, fila, lote>>
    BY <1>1, <1>2, FinalMantiene
<1>3. PICK e : e = Recuperado(a)
    OBVIOUS
<1>4. ASSUME e # "nada", g # 0, grupo[g].estado = "reintentando",
             op' = [op EXCEPT ![K(a)].estado = e], intentos' = IntentosRecuperados(a),
             grupo' = Marcados({g}, IF e = "interrumpida_pre_arca" THEN "fallido" ELSE e),
             fila' = IF e = "interrumpida_pre_arca" THEN fila ELSE FilasMarcadas({g}, e),
             lote' = IF e = "interrumpida_pre_arca" THEN lote ELSE [lote EXCEPT !.estado = e]
      PROVE  InductivoResolucion' /\ MarcoOp
  <2>1. Ocupa(a) /\ SinEnvio(a)
      BY <1>0, <1>1, <1>4 DEF Ocupa, SinEnvio, Enviado
  <2>2. /\ g \in Grupos /\ g \notin Tomados /\ lote \in TipoLote /\ FilaDe(a) /\ EnTrabajo(a)
        /\ grupo \in [Grupos -> TipoGrupo] /\ fila \in [Grupos -> EstadosGrupo \cup {"borrada"}]
        /\ Tomados \subseteq Grupos /\ SinNumeroDe(a)
        /\ comprobantes \subseteq DOMAIN arca /\ arca \in Seq(TipoArca)
        /\ cruzados \subseteq Grupos
      BY <1>0, <1>1, <2>1, AlAplicar, DeLaSesion
  <2>3. lote'.existe = lote.existe /\ lote'.dueno = lote.dueno /\ lote'.compacto = lote.compacto
      BY <1>4, <2>2 DEF TipoLote
  <2>4. /\ op[K(a)].resp = "nula" /\ e \in {"interrumpida_pre_arca", "requiere_reconciliacion"}
        /\ intentos' \in Seq(FilaDeIntento) /\ MarcoIntentos({})
        /\ VueloEnProceso' /\ DuenoDelVuelo'
        /\ e = "interrumpida_pre_arca" => NadaEnArca(g, 0)'
    <3>1. NadaEnArca(g, I(a))
        BY <1>0, <2>1, <2>2 DEF EnTrabajo, I
    <3>. QED
        BY <1>1, <1>3, <1>4, <2>2, <2>3, <3>1, RecuperadoForma
  <2>5. op' \in [Operaciones -> TipoOp] /\ MarcoOp
      BY <1>1, <1>4, <2>4, EstadoEscrito
  <2>6. Mueve(a) /\ Sesion(a)' /\ ~Ocupa(a)'
      BY <1>1, FinMueve, FinSesion
  <2>7. PICK d \in EstadosGrupo :
           /\ d = IF e = "interrumpida_pre_arca" THEN "fallido" ELSE e
           /\ grupo' = Marcados({g}, d)
    <3>1. (IF e = "interrumpida_pre_arca" THEN "fallido" ELSE e) \in EstadosGrupo
        BY <2>4 DEF EstadosGrupo
    <3>. QED
        BY <1>4, <3>1
  <2>8. /\ grupo' \in [Grupos -> TipoGrupo] /\ grupo'[g].estado = d
        /\ grupo'[g].numero = grupo[g].numero
        /\ \A h \in Grupos \ {g} : grupo'[h] = grupo[h]
      BY <2>2, <2>7 DEF TipoGrupo, Marcados
  <2>9. /\ lote' \in TipoLote /\ MarcoLote
    <3>1. CASE e = "interrumpida_pre_arca"
        BY <1>4, <2>2, <3>1, MarcosIguales
    <3>2. CASE e = "requiere_reconciliacion"
      <4>1. lote' \in TipoLote /\ lote'.estado = "requiere_reconciliacion"
          BY <1>4, <2>2, <3>2 DEF TipoLote, EstadosLote, Terminales
      <4>. QED
          BY <2>3, <4>1 DEF MarcoLote, Cerrados
    <3>. QED
        BY <2>4, <3>1, <3>2
  <2>10. /\ fila' \in [Grupos -> EstadosGrupo \cup {"borrada"}]
         /\ ~lote.compacto => \A h \in Grupos \ {g} : fila'[h] = fila[h]
         /\ lote'.existe /\ ~lote'.compacto => fila'[g] = d
    <3>1. CASE e = "interrumpida_pre_arca"
        BY <1>0, <1>4, <2>1, <2>2, <2>3, <2>7, <3>1 DEF FilaDe
    <3>2. CASE e = "requiere_reconciliacion"
      <4>1. fila' = FilasMarcadas({g}, e) /\ e \in EstadosGrupo /\ d = e
          BY <1>4, <2>7, <3>2 DEF EstadosGrupo
      <4>. QED
          BY <2>2, <2>3, <4>1 DEF FilasMarcadas
    <3>. QED
        BY <2>4, <3>1, <3>2
  <2>11. Formas'
      BY <1>1, <2>2, <2>4, <2>5, <2>6, <2>8, <2>9, <2>10, FormasPartesSiguientes DEF Mueve
  <2>12. MarcoArca({g}) /\ MarcoIntentos({g})
      BY <1>1, <2>4, MarcosIguales, MarcoIntentosMayor
  <2>13. MarcoGrupo(a, {g}) /\ MarcoFilas({g})
      BY <2>2, <2>3, <2>8, <2>10 DEF MarcoGrupo, MarcoFilas
  <2>14. DebeGrupo(g)
    <3>1. CASE e = "interrumpida_pre_arca"
      <4>1. grupo'[g].numero = 0 \/ g \in cruzados'
          BY <1>0, <1>1, <2>1, <2>2, <2>8 DEF SinNumeroDe
      <4>. QED
          BY <1>0, <1>1, <2>1, <2>4, <2>7, <2>8, <2>10, <3>1, <4>1, GrupoDevuelto
    <3>2. CASE e = "requiere_reconciliacion"
        BY <1>0, <1>1, <2>1, <2>2, <2>4, <2>6, <2>7, <2>8, <2>10, <2>11, <3>2,
           GrupoInmovilizado
    <3>. QED
        BY <2>4, <3>1, <3>2
  <2>. QED
      BY <1>0, <1>1, <2>1, <2>2, <2>4, <2>5, <2>6, <2>9, <2>11, <2>12, <2>13, <2>14,
         PasoQueSuelta
<1>. QED
    BY <1>0, <1>2, <1>3, <1>4 DEF Recuperar, G

----------------------------------------------------------------------------
(* The other actions on the lote.                                           *)

\* What the invariant says of the session of the other actions.
LEMMA DelUsuario ==
    ASSUME ResolucionAssumption, InductivoResolucion
    PROVE  /\ Usuario \in Sesiones /\ Usuario \notin Reintentos /\ mem[Usuario] \in Memorias
           /\ mem[Usuario].toma \in Tomas /\ mem[Usuario].v \in Copias
           /\ SesionUsuario /\ Toma /\ TomaFirme /\ Formas
           /\ lote \in TipoLote /\ grupo \in [Grupos -> TipoGrupo]
           /\ fila \in [Grupos -> EstadosGrupo \cup {"borrada"}]
           /\ op \in [Operaciones -> TipoOp] /\ comprobantes \subseteq DOMAIN arca
           /\ intentos \in Seq(FilaDeIntento) /\ arca \in Seq(TipoArca)
           /\ mem \in [Sesiones -> Memorias] /\ fallas \in Nat /\ cruzados \subseteq Grupos
           /\ \A b \in Reintentos : Ocupa(b) => grupo[mem[b].g].estado \notin Resolubles
<1>1. /\ Usuario \in Sesiones /\ Usuario \notin Reintentos /\ Formas /\ SesionUsuario /\ Toma
      /\ TomaFirme
    BY ResolucionAssumption DEF Sesiones, InductivoResolucion
<1>2. mem[Usuario] \in Memorias /\ mem[Usuario].toma \in Tomas /\ mem[Usuario].v \in Copias
    BY <1>1, FormasPartes DEF Memorias
<1>3. \A b \in Reintentos : Ocupa(b) => grupo[mem[b].g].estado \notin Resolubles
    BY DEF InductivoResolucion, EnTrabajo, Resolubles
<1>. QED
    BY <1>1, <1>2, <1>3, FormasPartes

\* A step of the user that writes no table.
LEMMA PasoDelUsuario ==
    ASSUME ResolucionAssumption, InductivoResolucion, Mueve(Usuario), DebeUsuario,
           fallas' \in Nat, cruzados' \subseteq Grupos, cruzados \subseteq cruzados',
           UNCHANGED <<lote, grupo, fila, op, intentos, arca, comprobantes>>
    PROVE  InductivoResolucion' /\ MarcoOp
<1>1. Usuario \in Sesiones /\ Formas
    BY DelUsuario
<1>2. Marco(Usuario, {})
    BY MarcosIguales DEF Marco, MarcoMem, Mueve
<1>3. Formas' /\ VueloEnProceso' /\ DuenoDelVuelo'
    BY <1>1, VueloIgual, FormasPartes, FormasPartesSiguientes DEF Mueve
<1>4. Debe(Usuario, {})
    BY <1>3 DEF Debe
<1>. QED
    BY <1>1, <1>2, <1>4, PasoConMarco DEF Marco

\* The session of the user at rest holds nothing.
LEMMA FinDelUsuario ==
    ASSUME ResolucionAssumption, InductivoResolucion, Fin(Usuario)
    PROVE  Mueve(Usuario) /\ DebeUsuario
<1>1. Mueve(Usuario) /\ mem'[Usuario] = EnReposo(SinVer)
    BY DelUsuario, FinMueve
<1>2. mem'[Usuario].pc = "inicio" /\ mem'[Usuario].sel = {} /\ mem'[Usuario].toma.g = 0
    BY <1>1, LibreForma DEF EnReposo
<1>. QED
    BY <1>1, <1>2 DEF DebeUsuario, SesionUsuario, Toma, TomaFirme

LEMMA CorteDelUsuarioMantiene ==
    ASSUME ResolucionAssumption, InductivoResolucion, CorteDelUsuario
    PROVE  InductivoResolucion' /\ MarcoOp
<1>1. fallas' \in Nat /\ cruzados' \subseteq Grupos /\ UNCHANGED cruzados
    BY DelUsuario DEF CorteDelUsuario, Falla
<1>. QED
    BY <1>1, FinDelUsuario, PasoDelUsuario DEF CorteDelUsuario, tablas

LEMMA ComprobarEliminableMantiene ==
    ASSUME ResolucionAssumption, InductivoResolucion, ComprobarEliminable
    PROVE  InductivoResolucion' /\ MarcoOp
<1>1. Usuario \in Sesiones /\ Formas /\ fallas' \in Nat /\ mem[Usuario].pc = "inicio"
      /\ cruzados' \subseteq Grupos /\ UNCHANGED cruzados /\ SesionUsuario /\ Ir(Usuario, "borrar")
    BY DelUsuario DEF ComprobarEliminable, SinFalla, En
<1>2. /\ Mueve(Usuario) /\ mem'[Usuario].pc = "borrar" /\ mem'[Usuario].sel = mem[Usuario].sel
      /\ mem'[Usuario].toma = mem[Usuario].toma
    BY <1>1, IrMueve DEF Pasos
<1>3. DebeUsuario
    BY <1>1, <1>2 DEF DebeUsuario, SesionUsuario, Toma, TomaFirme
<1>. QED
    BY <1>1, <1>2, <1>3, PasoDelUsuario DEF ComprobarEliminable, tablas

\* The count that a discard or a reconciliation takes closes the lote only when
\* every other group is resolved for good.
LEMMA TomaQuieta ==
    ASSUME ResolucionAssumption, InductivoResolucion, NEW g \in Grupos, NEW e,
           EstadoLote([grupo EXCEPT ![g].estado = e]) \in Cerrados, NEW h \in Grupos \ {g}
    PROVE  Quieto(h)
<1>1. PICK gr : gr = [grupo EXCEPT ![g].estado = e]
    OBVIOUS
<1>2. gr[h] = grupo[h]
    BY <1>1, DelUsuario
<1>3. gr[h].estado \in {"autorizado", "autorizado_externo", "descartado"}
    BY <1>1, CierreResuelto
<1>4. ASSUME NEW b \in Reintentos, SinEnvio(b)
      PROVE  mem[b].g # h \/ h \in cruzados
    BY <1>2, <1>3, <1>4 DEF InductivoResolucion, SinNumero, SinNumeroDe, EnTrabajo, SinEnvio
<1>. QED
    BY <1>2, <1>3, <1>4 DEF Quieto, Resuelto, Resolubles

LEMMA TomarMantiene ==
    ASSUME ResolucionAssumption, InductivoResolucion, NEW g \in Grupos, NEW n \in Nat,
           NEW e \in {"descartado", "autorizado_externo"}, Tomar(g, e, n),
           mem[Usuario].pc = "inicio",
           e = "descartado" => grupo[g].estado \in Resolubles /\ (n = 0 \/ g \in cruzados'),
           e = "autorizado_externo" => n \in DOMAIN arca,
           g \in cruzados' \/ \A b \in Reintentos : SinEnvio(b) => mem[b].g # g,
           cruzados' \subseteq Grupos, cruzados \subseteq cruzados',
           UNCHANGED <<lote, grupo, fila, op, intentos, arca, comprobantes, fallas>>
    PROVE  InductivoResolucion' /\ MarcoOp
<1>1. PICK l \in EstadosLote : l = EstadoLote([grupo EXCEPT ![g].estado = e])
    BY EstadoLoteForma
<1>2. PICK t \in Tomas : t = [g |-> g, estado |-> e, numero |-> n, lote |-> l]
  <2>1. [g |-> g, estado |-> e, numero |-> n, lote |-> l] \in Tomas
      BY DEF Tomas
  <2>. QED
      BY <2>1
<1>3. t.g = g /\ t.estado = e /\ t.numero = n /\ t.lote = l
    BY <1>2
<1>4. PICK v \in Copias : v = [mem[Usuario].v EXCEPT !.estado = lote.estado]
  <2>1. lote.estado \in EstadosLote
      BY DelUsuario DEF TipoLote
  <2>. QED
      BY <2>1, DelUsuario, CopiaForma
<1>5. mem' = [mem EXCEPT ![Usuario] = [mem[Usuario] EXCEPT !.pc = "confirmar", !.v = v, !.toma = t]]
  <2>1. mem' = [mem EXCEPT ![Usuario] =
                  [@ EXCEPT !.pc = "confirmar", !.v.estado = lote.estado, !.toma = t]]
      BY <1>1, <1>2 DEF Tomar
  <2>2. PICK r \in Memorias : r = mem[Usuario]
      BY DelUsuario
  <2>3. [r EXCEPT !.pc = "confirmar", !.v.estado = lote.estado, !.toma = t]
          = [r EXCEPT !.pc = "confirmar", !.v = [r.v EXCEPT !.estado = lote.estado], !.toma = t]
      BY DEF Memorias, Copias
  <2>4. mem' = [mem EXCEPT ![Usuario] =
                  [r EXCEPT !.pc = "confirmar", !.v.estado = lote.estado, !.toma = t]]
      BY <2>1, <2>2
  <2>. QED
      BY <1>4, <2>2, <2>3, <2>4
<1>6. PICK m \in Memorias : m = [mem[Usuario] EXCEPT !.pc = "confirmar", !.v = v, !.toma = t]
  <2>1. [mem[Usuario] EXCEPT !.pc = "confirmar", !.v = v, !.toma = t] \in Memorias
      BY DelUsuario DEF Memorias, Pasos
  <2>. QED
      BY <2>1
<1>7. m.pc = "confirmar" /\ m.toma = t /\ m.sel = mem[Usuario].sel
    BY <1>6, DelUsuario DEF Memorias
<1>8. Mueve(Usuario) /\ mem'[Usuario] = m
  <2>1. mem' = [mem EXCEPT ![Usuario] = m]
      BY <1>5, <1>6
  <2>2. mem \in [Sesiones -> Memorias] /\ Usuario \in Sesiones
      BY DelUsuario
  <2>. QED
      BY <2>1, <2>2 DEF Mueve
<1>9. SesionUsuario'
  <2>1. mem[Usuario].sel = {} /\ g # 0
      BY DelUsuario, ResolucionAssumption DEF SesionUsuario
  <2>. QED
      BY <1>3, <1>7, <1>8, <2>1 DEF SesionUsuario
<1>10. Toma'
    BY <1>3, <1>7, <1>8 DEF Toma
<1>11. TomaFirme'
  <2>1. \A b \in Reintentos : mem'[b] = mem[b]
      BY <1>8, DelUsuario DEF Mueve, Sesiones
  <2>2. \A b \in Reintentos : SinEnvio(b)' <=> SinEnvio(b)
      BY <2>1 DEF SinEnvio, Ocupa, Enviado
  <2>3. \A h \in Grupos : Quieto(h) => Quieto(h)'
      BY <2>1, <2>2 DEF Quieto, Resuelto
  <2>4. l \in Cerrados => \A h \in Grupos \ {g} : Quieto(h)'
      BY <1>1, <2>3, TomaQuieta
  <2>. QED
      BY <1>3, <1>7, <1>8, <2>1, <2>2, <2>4 DEF TomaFirme
<1>12. fallas' \in Nat
    BY DelUsuario
<1>. QED
    BY <1>8, <1>9, <1>10, <1>11, <1>12, PasoDelUsuario DEF DebeUsuario

LEMMA DescartarMantiene ==
    ASSUME ResolucionAssumption, InductivoResolucion, Descartar
    PROVE  InductivoResolucion' /\ MarcoOp
<1>1. PICK g \in Descartables : Tomar(g, "descartado", grupo[g].numero)
    BY DEF Descartar
<1>2. PICK n \in Nat : n = grupo[g].numero
    BY DelUsuario DEF Descartables, Con, TipoGrupo
<1>3. g \in Grupos /\ grupo[g].estado \in Resolubles /\ g \in Soltables
    BY DEF Descartables, Con, Soltables
<1>4. (n = 0 \/ g \in cruzados) /\ cruzados \subseteq Grupos /\ UNCHANGED cruzados
    BY <1>2, <1>3, DelUsuario, FormasPartes DEF InductivoResolucion, SinNumero, Descartar
<1>5. \A b \in Reintentos : SinEnvio(b) => mem[b].g # g
    BY <1>3, DelUsuario DEF SinEnvio
<1>6. Tomar(g, "descartado", n)
    BY <1>1, <1>2
<1>. QED
    BY <1>3, <1>4, <1>5, <1>6, TomarMantiene DEF Descartar, En, SinFalla, tablas

LEMMA ReconciliarMantiene ==
    ASSUME ResolucionAssumption, InductivoResolucion, Reconciliar
    PROVE  InductivoResolucion' /\ MarcoOp
<1>1. PICK g \in Con(grupo, Reconciliables), n \in DOMAIN arca :
         /\ ConfirmadoPorArca(g, n)
         /\ Tomar(g, "autorizado_externo", n)
         /\ cruzados' = IF arca[n].via = "web" /\ (\E b \in Reintentos : g \in mem[b].sel)
                        THEN cruzados \cup {g} ELSE cruzados
    BY DEF Reconciliar
<1>2. g \in Grupos /\ n \in Nat /\ arca[n] \in TipoArca
  <2>1. arca \in Seq(TipoArca)
      BY DelUsuario
  <2>2. Len(arca) \in Nat /\ DOMAIN arca = 1..Len(arca)
      BY <2>1, LenProperties
  <2>. QED
      BY <2>1, <2>2, ElementOfSeq DEF Con
<1>3. ASSUME g \notin cruzados', NEW b \in Reintentos, SinEnvio(b), mem[b].g = g
      PROVE  FALSE
  <2>1. g \in mem[b].sel
      BY <1>3 DEF InductivoResolucion, Sesion, SinEnvio
  <2>2. arca[n] = [grupo |-> g, via |-> "propia"]
      BY <1>1, <1>2, <1>3, <2>1 DEF ConfirmadoPorArca, TipoArca
  <2>3. n \in Propias(g)
      BY <2>2 DEF Propias
  <2>. QED
      BY <1>3, <2>3 DEF InductivoResolucion, EnTrabajo, NadaEnArca
<1>4. cruzados' \subseteq Grupos /\ cruzados \subseteq cruzados'
    BY <1>1, <1>2, DelUsuario, FormasPartes
<1>. QED
    BY <1>1, <1>2, <1>3, <1>4, TomarMantiene DEF Reconciliar, En, SinFalla, tablas

\* The commit of a discard or a reconciliation: a discarded group had nothing in
\* ARCA, and the lote is closed only with every group resolved.
LEMMA ConfirmarMantiene ==
    ASSUME ResolucionAssumption, InductivoResolucion, Confirmar
    PROVE  InductivoResolucion' /\ MarcoOp
<1>1. mem[Usuario].pc = "confirmar" /\ SesionUsuario /\ Toma /\ TomaFirme
      /\ Fin(Usuario) /\ UNCHANGED <<op, intentos, arca, cruzados, fallas>>
    BY DelUsuario DEF Confirmar, En, SinFalla
<1>2. PICK t \in Tomas : t = mem[Usuario].toma
    BY DelUsuario
<1>3. PICK g \in Grupos : g = t.g
    BY <1>1, <1>2 DEF SesionUsuario, Tomas
<1>4. /\ t.estado \in {"descartado", "autorizado_externo"} /\ t.numero \in Nat
      /\ t.lote \in EstadosLote
    BY <1>1, <1>2 DEF SesionUsuario, Tomas
<1>5. /\ grupo' = [grupo EXCEPT ![g] = [estado |-> t.estado, numero |-> t.numero]]
      /\ fila' = FilasMarcadas({g}, t.estado)
      /\ lote' = Escribir(mem[Usuario].v, t.lote)
      /\ comprobantes' = IF t.estado = "autorizado_externo" THEN comprobantes \cup {t.numero}
                         ELSE comprobantes
    BY <1>2, <1>3 DEF Confirmar, FilasResueltas
<1>6. Mueve(Usuario) /\ DebeUsuario
    BY <1>1, FinDelUsuario
<1>7. /\ grupo' \in [Grupos -> TipoGrupo] /\ grupo'[g].estado = t.estado
      /\ grupo'[g].numero = t.numero
      /\ \A h \in Grupos \ {g} : grupo'[h] = grupo[h]
  <2>1. [estado |-> t.estado, numero |-> t.numero] \in TipoGrupo
      BY <1>4 DEF TipoGrupo, EstadosGrupo
  <2>. QED
      BY <1>5, <2>1, DelUsuario
<1>8. /\ lote' \in TipoLote /\ lote'.estado \in {lote.estado, t.lote}
      /\ lote'.dueno = lote.dueno /\ lote'.existe = lote.existe
      /\ lote'.compacto = lote.compacto
    BY <1>4, <1>5, DelUsuario, EscribirForma DEF TipoLote
<1>9. /\ fila' \in [Grupos -> EstadosGrupo \cup {"borrada"}]
      /\ ~lote.compacto => fila'[g] = t.estado /\ \A h \in Grupos \ {g} : fila'[h] = fila[h]
  <2>1. t.estado \in EstadosGrupo
      BY <1>4 DEF EstadosGrupo
  <2>. QED
      BY <1>5, <2>1, DelUsuario DEF FilasMarcadas
<1>10. comprobantes' \subseteq DOMAIN arca'
  <2>1. t.estado = "autorizado_externo" => t.numero \in DOMAIN arca
      BY <1>1, <1>2 DEF Toma
  <2>. QED
      BY <1>1, <1>5, <2>1, DelUsuario
<1>11. Formas'
    BY <1>1, <1>6, <1>7, <1>8, <1>9, <1>10, DelUsuario, FormasPartesSiguientes DEF Mueve
<1>12. VueloEnProceso' /\ DuenoDelVuelo'
    BY <1>1, <1>8, VueloIgual
<1>13. g \in cruzados \/ \A b \in Reintentos : SinEnvio(b) => mem[b].g # g
    BY <1>1, <1>2, <1>3 DEF TomaFirme
<1>14. MarcoLote
  <2>1. ASSUME t.lote \in Cerrados, NEW h \in Grupos
        PROVE  Quieto(h)'
    <3>1. \A b \in Reintentos : mem'[b] = mem[b]
        BY <1>6, DelUsuario DEF Mueve, Sesiones
    <3>2. \A b \in Reintentos : SinEnvio(b)' <=> SinEnvio(b)
        BY <3>1 DEF SinEnvio, Ocupa, Enviado
    <3>3. CASE h = g
        BY <1>1, <1>4, <1>7, <1>13, <2>1, <3>1, <3>2, <3>3 DEF Quieto, Resuelto, Resolubles
    <3>4. CASE h # g
      <4>1. Quieto(h)
          BY <1>1, <1>2, <1>3, <2>1, <3>4 DEF TomaFirme
      <4>. QED
          BY <1>1, <1>7, <3>1, <3>2, <3>4, <4>1 DEF Quieto, Resuelto
    <3>. QED
        BY <3>3, <3>4
  <2>. QED
      BY <1>8, <2>1 DEF MarcoLote
<1>15. MarcoOp
    BY <1>1, MarcosIguales
<1>16. \A S : MarcoIntentos(S) /\ MarcoArca(S)
    BY <1>1, MarcosIguales
<1>17. CASE t.estado = "autorizado_externo"
  <2>1. MarcoMem(Usuario, {})
      BY <1>6 DEF MarcoMem, Mueve
  <2>2. MarcoGrupo(Usuario, {})
      BY <1>1, <1>7, <1>13, <1>17 DEF MarcoGrupo
  <2>3. MarcoFilas({})
      BY <1>7, <1>8, <1>9, <1>17 DEF MarcoFilas
  <2>4. Marco(Usuario, {})
      BY <1>1, <1>14, <1>15, <1>16, <2>1, <2>2, <2>3 DEF Marco
  <2>5. Debe(Usuario, {})
      BY <1>6, <1>11, <1>12 DEF Debe
  <2>. QED
      BY <1>15, <2>4, <2>5, DelUsuario, PasoConMarco
<1>18. CASE t.estado = "descartado"
  <2>0. grupo[g].estado \in Resolubles /\ g \in Soltables /\ ~Resuelto(g)
      BY <1>1, <1>2, <1>3, <1>18 DEF Toma, Soltables, Con, Resuelto
  <2>1. MarcoMem(Usuario, {g})
      BY <1>6, <2>0, DelUsuario DEF MarcoMem, Mueve
  <2>2. MarcoGrupo(Usuario, {g})
      BY <1>7 DEF MarcoGrupo
  <2>3. MarcoFilas({g})
      BY <1>7, <1>8, <1>9 DEF MarcoFilas
  <2>4. Marco(Usuario, {g})
      BY <1>1, <1>14, <1>15, <1>16, <2>1, <2>2, <2>3 DEF Marco
  <2>5. DebeGrupo(g)
    <3>1. NadaEnArca(g, 0) /\ Propias(g) = {}
        BY <2>0 DEF InductivoResolucion, SueltoSinArca, NadaEnArca
    <3>2. NadaEnArca(g, 0)' /\ Propias(g)' = {}
        BY <1>1, <3>1 DEF NadaEnArca, Propias
    <3>3. (\A x, y \in Propias(g) : x = y)'
        BY <3>2
    <3>4. grupo'[g].numero = 0 \/ g \in cruzados'
        BY <1>1, <1>2, <1>3, <1>7, <1>18 DEF TomaFirme
    <3>5. ~lote'.compacto => fila'[g] = grupo'[g].estado
        BY <1>7, <1>8, <1>9
    <3>. QED
        BY <1>1, <2>0, <3>2, <3>3, <3>4, <3>5 DEF DebeGrupo, Quieto
  <2>6. Debe(Usuario, {g})
      BY <1>6, <1>11, <1>12, <2>5 DEF Debe
  <2>. QED
      BY <1>15, <2>4, <2>6, DelUsuario, PasoConMarco
<1>. QED
    BY <1>4, <1>17, <1>18

\* A step of the user that writes the lote or its rows, and no group.
LEMMA PasoSinGrupos ==
    ASSUME ResolucionAssumption, InductivoResolucion, Mueve(Usuario), DebeUsuario,
           lote' \in TipoLote, fila' \in [Grupos -> EstadosGrupo \cup {"borrada"}],
           arca' \in Seq(TipoArca), MarcoArca({}),
           UNCHANGED <<grupo, op, intentos, comprobantes, fallas, cruzados>>,
           MarcoLote, MarcoFilas({}), VueloEnProceso', DuenoDelVuelo'
    PROVE  InductivoResolucion' /\ MarcoOp
<1>1. Marco(Usuario, {})
    BY MarcosIguales DEF Marco, MarcoMem, Mueve
<1>2. comprobantes' \subseteq DOMAIN arca'
    BY DelUsuario DEF MarcoArca
<1>3. Formas'
    BY <1>2, DelUsuario, FormasPartesSiguientes DEF Mueve
<1>4. Debe(Usuario, {})
    BY <1>3 DEF Debe
<1>. QED
    BY <1>1, <1>4, DelUsuario, PasoConMarco DEF Marco

\* The DELETE goes through only without attempts, of any operation.
LEMMA BorrarMantiene ==
    ASSUME ResolucionAssumption, InductivoResolucion, Borrar
    PROVE  InductivoResolucion' /\ MarcoOp
<1>1. /\ lote' = [lote EXCEPT !.existe = @ /\ ~Borrable] /\ Fin(Usuario)
      /\ UNCHANGED <<grupo, fila, op, intentos, arca, cruzados, comprobantes, fallas>>
    BY DEF Borrar, SinFalla
<1>2. Mueve(Usuario) /\ DebeUsuario
    BY <1>1, FinDelUsuario
<1>3. /\ lote' \in TipoLote /\ lote'.estado = lote.estado /\ lote'.dueno = lote.dueno
      /\ lote'.compacto = lote.compacto /\ (lote'.existe <=> lote.existe /\ ~Borrable)
  <2>1. PICK x \in BOOLEAN : x = (lote.existe /\ ~Borrable)
      OBVIOUS
  <2>2. lote' = [lote EXCEPT !.existe = x]
      BY <1>1, <2>1, DelUsuario
  <2>. QED
      BY <2>1, <2>2, DelUsuario DEF TipoLote
<1>4. MarcoLote /\ MarcoFilas({}) /\ MarcoArca({})
    BY <1>1, <1>3, MarcosIguales DEF MarcoLote, MarcoFilas
<1>5. VueloEnProceso' /\ DuenoDelVuelo'
  <2>1. ASSUME NEW i \in DOMAIN intentos
        PROVE  intentos # <<>>
      BY <2>1, DelUsuario, EmptySeq, LenProperties
  <2>2. DuenoDelVuelo'
      BY <1>1, <1>3, <2>1 DEF DuenoDelVuelo, InductivoResolucion, Borrable
  <2>. QED
      BY <1>1, <2>2 DEF VueloEnProceso, InductivoResolucion
<1>. QED
    BY <1>1, <1>2, <1>3, <1>4, <1>5, DelUsuario, PasoSinGrupos

\* What the user holds while its session and the groups stay as they are.
LEMMA UsuarioIgual ==
    ASSUME ResolucionAssumption, InductivoResolucion, UNCHANGED <<mem, grupo, cruzados>>,
           DOMAIN arca \subseteq DOMAIN arca'
    PROVE  Mueve(Usuario) /\ DebeUsuario
<1>1. Mueve(Usuario)
    BY DelUsuario DEF Mueve
<1>2. SesionUsuario' /\ Toma'
    BY DelUsuario DEF SesionUsuario, Toma
<1>3. \A b \in Reintentos : SinEnvio(b)' <=> SinEnvio(b)
    BY DEF SinEnvio, Ocupa, Enviado
<1>4. \A h \in Grupos : Quieto(h) => Quieto(h)'
    BY <1>3 DEF Quieto, Resuelto
<1>5. TomaFirme'
  <2>1. CASE TomaFirme
      BY <1>3, <1>4, <2>1 DEF TomaFirme, Tomas
  <2>. QED
      BY <2>1, DelUsuario
<1>. QED
    BY <1>1, <1>2, <1>5 DEF DebeUsuario

LEMMA CompactarMantiene ==
    ASSUME ResolucionAssumption, InductivoResolucion, Compactar
    PROVE  InductivoResolucion' /\ MarcoOp
<1>1. /\ fila' = [h \in Grupos |-> "borrada"] /\ lote' = [lote EXCEPT !.compacto = TRUE]
      /\ UNCHANGED <<grupo, op, intentos, arca, cruzados, comprobantes, mem, fallas>>
    BY DEF Compactar, SinFalla
<1>2. Mueve(Usuario) /\ DebeUsuario
    BY <1>1, UsuarioIgual
<1>3. /\ lote' \in TipoLote /\ lote'.estado = lote.estado /\ lote'.dueno = lote.dueno
      /\ lote'.compacto /\ lote'.existe = lote.existe
    BY <1>1, DelUsuario DEF TipoLote
<1>4. MarcoLote /\ MarcoFilas({}) /\ MarcoArca({})
    BY <1>1, <1>3, MarcosIguales DEF MarcoLote, MarcoFilas
<1>5. VueloEnProceso' /\ DuenoDelVuelo'
    BY <1>1, <1>3, VueloIgual
<1>. QED
    BY <1>1, <1>2, <1>3, <1>4, <1>5, DelUsuario, PasoSinGrupos

LEMMA EmitirEnWebMantiene ==
    ASSUME ResolucionAssumption, InductivoResolucion, EmitirEnWeb
    PROVE  InductivoResolucion' /\ MarcoOp
<1>1. PICK g \in Grupos : arca' = Append(arca, [grupo |-> g, via |-> "web"])
    BY DEF EmitirEnWeb, Con
<1>2. UNCHANGED <<lote, grupo, fila, op, intentos, comprobantes, mem, fallas, cruzados>>
    BY DEF EmitirEnWeb, SinFalla, tablas
<1>3. PICK x \in TipoArca : x = [grupo |-> g, via |-> "web"]
  <2>1. [grupo |-> g, via |-> "web"] \in TipoArca
      BY DEF TipoArca
  <2>. QED
      BY <2>1
<1>4. \A h : x # [grupo |-> h, via |-> "propia"]
    BY <1>3
<1>5. arca' \in Seq(TipoArca) /\ MarcoArca({})
    BY <1>1, <1>3, <1>4, DelUsuario, ArcaAgregada DEF MarcoArca, TipoArca
<1>6. Mueve(Usuario) /\ DebeUsuario
    BY <1>2, <1>5, UsuarioIgual DEF MarcoArca
<1>7. MarcoLote /\ MarcoFilas({})
    BY <1>2, MarcosIguales
<1>8. VueloEnProceso' /\ DuenoDelVuelo'
    BY <1>2, VueloIgual
<1>. QED
    BY <1>2, <1>5, <1>6, <1>7, <1>8, DelUsuario, PasoSinGrupos

----------------------------------------------------------------------------
(* Any lote that procesar left keeps the invariant.                         *)

\* An element and the sequence of it alone.
LEMMA SecuenciaUnitaria ==
    ASSUME NEW T, NEW x \in T
    PROVE  <<x>> \in Seq(T) /\ DOMAIN <<x>> = {1} /\ <<x>>[1] = x /\ <<x>> # <<>>
<1>1. <<x>> \in Seq(T) /\ Len(<<x>>) = 1 /\ <<x>>[1] = x
    OBVIOUS
<1>2. DOMAIN <<x>> = 1..1 /\ <<x>> # <<>>
    BY <1>1, LenProperties, EmptySeq
<1>. QED
    BY <1>1, <1>2

LEMMA SecuenciaVacia ==
    ASSUME NEW T
    PROVE  <<>> \in Seq(T) /\ DOMAIN <<>> = {}
BY EmptySeq

\* Two counts that add up to nothing.
LEMMA CuentaNula ==
    ASSUME ResolucionAssumption, NEW S \in SUBSET Grupos, NEW T \in SUBSET Grupos
    PROVE  Cardinality(S) + Cardinality(T) = 0 <=> S = {} /\ T = {}
<1>1. IsFiniteSet(S) /\ IsFiniteSet(T)
    BY FS_Subset DEF ResolucionAssumption
<1>2. Cardinality(S) \in Nat /\ Cardinality(T) \in Nat
    BY <1>1, FS_CardinalityType
<1>3. Cardinality(S) + Cardinality(T) = 0 <=> Cardinality(S) = 0 /\ Cardinality(T) = 0
    BY <1>2
<1>. QED
    BY <1>1, <1>3, FS_EmptySet

LEMMA InicioInductivo ==
    ASSUME ResolucionAssumption, Init
    PROVE  InductivoResolucion
<1>. DEFINE Emitidos(gr) == {g \in Grupos : gr[g] = "autorizado"}
            Dudosos(gr)  == {g \in Grupos : gr[g] = "requiere_reconciliacion"}
            Nunca(gr)    == \A g \in Grupos : gr[g] = "con_error"
<1>0. PICK gr \in Iniciales, enArca \in BOOLEAN :
       /\ enArca => Dudosos(gr) # {}
       /\ grupo = [g \in Grupos |->
                     [estado |-> gr[g], numero |-> IF g \in Emitidos(gr) THEN 1 ELSE 0]]
       /\ fila = gr
       /\ intentos = IF Cardinality(Emitidos(gr)) + Cardinality(Dudosos(gr)) = 0 THEN <<>>
                     ELSE << IF Dudosos(gr) = {}
                             THEN Intento(Previa, Primero(Emitidos(gr)), "autorizado", "cerrada_terminal", 1)
                             ELSE Intento(Previa, Primero(Dudosos(gr)), "requiere_reconciliacion",
                                          "requiere_reconciliacion", 1) >>
       /\ arca = IF Emitidos(gr) # {} \/ enArca
                 THEN << [grupo |-> Primero(Emitidos(gr) \cup Dudosos(gr)), via |-> "propia"] >> ELSE <<>>
       /\ comprobantes = IF Emitidos(gr) # {} THEN {1} ELSE {}
       /\ op = [k \in Operaciones |->
                  IF k # Previa \/ Nunca(gr) THEN SinOperacion
                  ELSE OperacionPrevia(IF Dudosos(gr) # {} THEN "requiere_reconciliacion" ELSE "finalizado")]
       /\ lote = LoteInicial(EstadoLote(grupo), IF Nunca(gr) THEN Nadie ELSE Previa)
       /\ mem = [a \in Sesiones |-> EnReposo(SinVer)]
       /\ fallas = 0 /\ cruzados = {}
    BY DEF Init
<1>. DEFINE emit  == Emitidos(gr)
            duda  == Dudosos(gr)
            nunca == Nunca(gr)
<1>1. /\ emit \in SUBSET Grupos /\ duda \in SUBSET Grupos
      /\ emit = {g \in Grupos : gr[g] = "autorizado"}
      /\ duda = {g \in Grupos : gr[g] = "requiere_reconciliacion"}
    OBVIOUS
<1>02. enArca => duda # {}
    BY <1>0
<1>2. /\ enArca => duda # {}
      /\ grupo = [g \in Grupos |->
                    [estado |-> gr[g], numero |-> IF g \in emit THEN 1 ELSE 0]]
      /\ fila = gr
      /\ intentos = IF Cardinality(emit) + Cardinality(duda) = 0 THEN <<>>
                    ELSE << IF duda = {}
                            THEN Intento(Previa, Primero(emit), "autorizado", "cerrada_terminal", 1)
                            ELSE Intento(Previa, Primero(duda), "requiere_reconciliacion",
                                         "requiere_reconciliacion", 1) >>
      /\ arca = IF emit # {} \/ enArca
                THEN << [grupo |-> Primero(emit \cup duda), via |-> "propia"] >> ELSE <<>>
      /\ comprobantes = IF emit # {} THEN {1} ELSE {}
      /\ op = [k \in Operaciones |->
                 IF k # Previa \/ nunca THEN SinOperacion
                 ELSE OperacionPrevia(IF duda # {} THEN "requiere_reconciliacion" ELSE "finalizado")]
      /\ lote = LoteInicial(EstadoLote(grupo), IF nunca THEN Nadie ELSE Previa)
      /\ mem = [a \in Sesiones |-> EnReposo(SinVer)]
      /\ fallas = 0 /\ cruzados = {}
    BY <1>0
<1>. HIDE DEF emit, duda, nunca
<1>3. \A g \in Grupos :
         gr[g] \in {"autorizado", "fallido", "con_error", "requiere_reconciliacion"}
  <2>1. gr \in [Grupos -> {"autorizado", "fallido", "con_error", "requiere_reconciliacion"}]
      BY DEF ResolucionAssumption
  <2>. QED
      BY <2>1
<1>4. Cardinality(emit) + Cardinality(duda) = 0 <=> emit = {} /\ duda = {}
    BY <1>1, CuentaNula
<1>5. \A a \in Sesiones :
         /\ mem[a] \in Memorias /\ mem[a].pc = "inicio" /\ mem[a].sel = {}
         /\ mem[a].g = 0 /\ mem[a].iniciada = FALSE /\ mem[a].toma = Libre
         /\ ~Ocupa(a) /\ ~SinEnvio(a)
    BY <1>1, <1>2, ReposoForma, SinVerForma DEF Ocupa, SinEnvio, PasosDeEmision
<1>6. /\ grupo \in [Grupos -> TipoGrupo] /\ fila \in [Grupos -> EstadosGrupo \cup {"borrada"}]
      /\ \A g \in Grupos : grupo[g].estado = gr[g] /\ fila[g] = gr[g]
                           /\ grupo[g].numero = IF g \in emit THEN 1 ELSE 0
  <2>1. gr \in [Grupos -> {"autorizado", "fallido", "con_error", "requiere_reconciliacion"}]
      BY DEF ResolucionAssumption
  <2>2. \A g \in Grupos : gr[g] \in EstadosGrupo
      BY <1>3 DEF EstadosGrupo
  <2>3. \A g \in Grupos :
           [estado |-> gr[g], numero |-> IF g \in emit THEN 1 ELSE 0] \in TipoGrupo
      BY <2>2 DEF TipoGrupo
  <2>. QED
      BY <1>1, <1>2, <2>1, <2>2, <2>3
<1>7. lote \in TipoLote /\ lote.existe /\ lote.estado = EstadoLote(grupo)
    BY <1>1, <1>2, EstadoLoteForma DEF LoteInicial, TipoLote, Operaciones
<1>8. op \in [Operaciones -> TipoOp] /\ SinRespuesta
  <2>1. SinOperacion \in TipoOp /\ SinOperacion.resp = "nula"
      BY DEF SinOperacion, TipoOp
  <2>2. PICK x \in TipoOp :
           /\ x = OperacionPrevia(IF duda # {} THEN "requiere_reconciliacion" ELSE "finalizado")
           /\ x.estado \notin {"inexistente", "interrumpida_pre_arca"}
    <3>1. PICK e \in {"requiere_reconciliacion", "finalizado"} :
             e = IF duda # {} THEN "requiere_reconciliacion" ELSE "finalizado"
        OBVIOUS
    <3>2. OperacionPrevia(e) \in TipoOp
        BY DEF OperacionPrevia, TipoOp
    <3>3. OperacionPrevia(e).estado = e
        BY DEF OperacionPrevia
    <3>. QED
        BY <3>1, <3>2, <3>3
  <2>3. \A k \in Operaciones : op[k] = SinOperacion \/ op[k] = x
      BY <1>1, <1>2, <2>2
  <2>4. op \in [Operaciones -> TipoOp]
      BY <1>1, <1>2, <2>1, <2>2
  <2>. QED
      BY <2>1, <2>2, <2>3, <2>4 DEF SinRespuesta
<1>9. /\ intentos \in Seq(FilaDeIntento) /\ DOMAIN intentos \subseteq {1}
      /\ intentos = <<>> => emit = {} /\ duda = {}
      /\ \A i \in DOMAIN intentos : intentos[i].grupo \in emit \cup duda
                                    /\ intentos[i].fase # "arca_iniciada"
  <2>1. CASE emit = {} /\ duda = {}
      BY <1>1, <1>2, <1>4, <2>1, SecuenciaVacia
  <2>2. CASE ~(emit = {} /\ duda = {})
    <3>1. PICK x : /\ x = IF duda = {}
                          THEN Intento(Previa, Primero(emit), "autorizado", "cerrada_terminal", 1)
                          ELSE Intento(Previa, Primero(duda), "requiere_reconciliacion",
                                       "requiere_reconciliacion", 1)
                   /\ intentos = <<x>>
        BY <1>1, <1>2, <1>4, <2>2
    <3>2. x \in FilaDeIntento /\ x.grupo \in emit \cup duda /\ x.fase # "arca_iniciada"
      <4>1. CASE duda = {}
        <5>1. PICK p \in emit : p = Primero(emit)
            BY <1>1, <2>2, <4>1, PrimeroPertenece
        <5>. QED
            BY <1>1, <3>1, <4>1, <5>1 DEF Intento, FilaDeIntento, EstadosIntento, FasesGuarda,
                                    Cerradas, Operaciones
      <4>2. CASE duda # {}
        <5>1. PICK p \in duda : p = Primero(duda)
            BY <1>1, <4>2, PrimeroPertenece
        <5>. QED
            BY <1>1, <3>1, <4>2, <5>1 DEF Intento, FilaDeIntento, EstadosIntento, Inciertos,
                                    FasesGuarda, EnArca, Operaciones
      <4>. QED
          BY <4>1, <4>2
    <3>3. <<x>> \in Seq(FilaDeIntento) /\ DOMAIN <<x>> = {1} /\ <<x>>[1] = x /\ <<x>> # <<>>
        BY <3>2, SecuenciaUnitaria
    <3>. QED
        BY <2>2, <3>1, <3>2, <3>3
  <2>. QED
      BY <2>1, <2>2
<1>10. /\ arca \in Seq(TipoArca) /\ DOMAIN arca \subseteq {1}
      /\ comprobantes \subseteq DOMAIN arca
      /\ \A n \in DOMAIN arca : arca[n].grupo \in emit \cup duda
  <2>1. CASE ~(emit # {} \/ enArca)
      BY <1>1, <1>2, <2>1, SecuenciaVacia
  <2>2. CASE emit # {} \/ enArca
    <3>0. PICK S \in SUBSET Grupos : S = emit \cup duda /\ S # {}
      <4>1. emit \cup duda # {}
          BY <1>02, <2>2
      <4>2. emit \cup duda \in SUBSET Grupos
          BY <1>1
      <4>. QED
          BY <4>1, <4>2
    <3>1. PICK p \in emit \cup duda : p = Primero(emit \cup duda)
        BY <3>0, PrimeroPertenece
    <3>2. PICK x \in TipoArca : x = [grupo |-> p, via |-> "propia"] /\ x.grupo = p
      <4>1. [grupo |-> p, via |-> "propia"] \in TipoArca
          BY <1>1 DEF TipoArca
      <4>. QED
          BY <4>1
    <3>3. <<x>> \in Seq(TipoArca) /\ DOMAIN <<x>> = {1} /\ <<x>>[1] = x
        BY SecuenciaUnitaria
    <3>4. arca = <<x>>
        BY <1>1, <1>2, <2>2, <3>1, <3>2
    <3>. QED
        BY <1>1, <1>2, <3>2, <3>3, <3>4
  <2>. QED
      BY <2>1, <2>2
<1>11. Formas
    BY <1>1, <1>2, <1>5, <1>6, <1>7, <1>8, <1>9, <1>10, FormasPartes
<1>12. SesionUsuario /\ Toma /\ TomaFirme
    BY <1>5, LibreForma DEF SesionUsuario, Toma, TomaFirme, Sesiones
<1>13. ASSUME NEW a \in Reintentos
       PROVE  Sesion(a) /\ Dueno(a) /\ EnTrabajo(a) /\ ~Ocupa(a) /\ ~SinEnvio(a)
  <2>1. a \in Sesiones
      BY DEF Sesiones
  <2>. QED
      BY <1>5, <2>1 DEF Sesion, Dueno, EnTrabajo, PasosDeEmision
<1>14. UnoPorGrupo /\ FilaDelReintento
    BY <1>13 DEF UnoPorGrupo, FilaDelReintento
<1>15. \A g \in Soltables : g \in Grupos /\ g \notin emit \cup duda
    BY <1>1, <1>2, <1>6 DEF Soltables, Con, Resolubles
<1>16. SueltoSinArca
  <2>1. ASSUME NEW g \in Soltables
        PROVE  NadaEnArca(g, 0)
    <3>1. Propias(g) = {}
        BY <1>10, <1>15 DEF Propias
    <3>2. \A j \in DOMAIN intentos : intentos[j].grupo # g
        BY <1>9, <1>15
    <3>. QED
        BY <3>1, <3>2 DEF NadaEnArca
  <2>. QED
      BY <2>1 DEF SueltoSinArca
<1>17. UnaPropia
  <2>1. \A g \in Grupos : Propias(g) \subseteq {1}
      BY <1>10 DEF Propias
  <2>. QED
      BY <2>1 DEF UnaPropia
<1>18. PropiaConIntento
  <2>1. intentos = <<>> => DOMAIN arca = {}
      BY <1>9, <1>10
  <2>. QED
      BY <2>1 DEF PropiaConIntento, Propias
<1>19. VueloEnProceso /\ DuenoDelVuelo
    BY <1>7, <1>9 DEF VueloEnProceso, DuenoDelVuelo
<1>20. FilasSiguen
    BY <1>6 DEF FilasSiguen
<1>21. SinNumero /\ CerradoQuieto
  <2>1. SinNumero
      BY <1>6, <1>13, <1>15 DEF SinNumero, SinNumeroDe
  <2>2. CerradoQuieto
    <3>1. ASSUME lote.estado \in Cerrados, NEW g \in Grupos
          PROVE  Quieto(g)
      <4>1. grupo[g].estado \in {"autorizado", "autorizado_externo", "descartado"}
          BY <1>7, <3>1, CierreResuelto
      <4>. QED
          BY <1>13, <4>1 DEF Quieto, Resuelto, Resolubles
    <3>. QED
        BY <3>1 DEF CerradoQuieto
  <2>. QED
      BY <2>1, <2>2
<1>. QED
    BY <1>8, <1>11, <1>12, <1>13, <1>14, <1>16, <1>17, <1>18, <1>19, <1>20, <1>21
       DEF InductivoResolucion

----------------------------------------------------------------------------
(* Theorems.                                                                *)

LEMMA NextMantiene ==
    ASSUME ResolucionAssumption, InductivoResolucion, Next
    PROVE  InductivoResolucion' /\ MarcoOp
<1>1. ASSUME NEW a \in Reintentos, Reclamo(a)
      PROVE  InductivoResolucion' /\ MarcoOp
    BY <1>1, LeerMantiene, ResponderEnCursoMantiene, PrepararMantiene, ReclamarMantiene,
       RevalidarMantiene DEF Reclamo
<1>2. ASSUME NEW a \in Reintentos, Emision(a)
      PROVE  InductivoResolucion' /\ MarcoOp
    BY <1>2, ReservarMantiene, MarcarMantiene, SolicitarMantiene, AplicarMantiene,
       PublicarMantiene DEF Emision
<1>3. ASSUME NEW a \in Reintentos, Corte(a)
      PROVE  InductivoResolucion' /\ MarcoOp
    BY <1>3, CorteDeBaseMantiene, RecuperarMantiene, RecuperarOperacionMantiene DEF Corte
<1>4. CASE Resolucion
    BY <1>4, DescartarMantiene, ReconciliarMantiene, ConfirmarMantiene, CorteDelUsuarioMantiene,
       ComprobarEliminableMantiene, BorrarMantiene, CompactarMantiene DEF Resolucion
<1>5. CASE EmitirEnWeb
    BY <1>5, EmitirEnWebMantiene
<1>. QED
    BY <1>1, <1>2, <1>3, <1>4, <1>5 DEF Next

LEMMA PasoMantiene ==
    ASSUME ResolucionAssumption, InductivoResolucion, [Next]_vars
    PROVE  InductivoResolucion' /\ MarcoOp
<1>1. CASE Next
    BY <1>1, NextMantiene
<1>2. CASE UNCHANGED vars
  <2>1. UNCHANGED <<lote, grupo, fila, op, intentos, arca, cruzados, comprobantes, mem, fallas>>
      BY <1>2 DEF vars
  <2>2. Mueve(Usuario) /\ DebeUsuario
      BY <2>1, UsuarioIgual
  <2>3. fallas' \in Nat /\ cruzados' \subseteq Grupos
      BY <2>1, DelUsuario, FormasPartes
  <2>. QED
      BY <2>1, <2>2, <2>3, PasoDelUsuario
<1>. QED
    BY <1>1, <1>2

\* The invariant of the retries, discards and reconciliations of a lote: nobody
\* else works on the group a retry claimed, and until its request goes out ARCA
\* has nothing of it.
THEOREM ResolucionInductiva == Spec => []InductivoResolucion
<1>1. Init => InductivoResolucion
    BY ResolucionAssumption, InicioInductivo
<1>2. InductivoResolucion /\ [Next]_vars => InductivoResolucion'
    BY ResolucionAssumption, PasoMantiene
<1>. QED
    BY <1>1, <1>2, PTL DEF Spec

\* The rows keep their shape.
THEOREM ResolucionTipada == Spec => []TypeOK
<1>1. InductivoResolucion => TypeOK
    BY DEF InductivoResolucion, Formas
<1>. QED
    BY <1>1, ResolucionInductiva, PTL

\* ARCA authorises a group at most once by the program's own requests.
THEOREM GrupoUnaSolaVez == Spec => []UnaAutorizacionPropia
<1>1. ASSUME InductivoResolucion, NEW g \in Grupos
      PROVE  Cardinality(Propias(g)) <= 1
  <2>1. CASE Propias(g) = {}
      BY <2>1, FS_EmptySet
  <2>2. CASE Propias(g) # {}
    <3>1. PICK n : n \in Propias(g)
        BY <2>2
    <3>2. Propias(g) = {n}
        BY <1>1, <3>1 DEF InductivoResolucion, UnaPropia
    <3>. QED
        BY <3>2, FS_Singleton
  <2>. QED
      BY <2>1, <2>2
<1>2. InductivoResolucion => UnaAutorizacionPropia
    BY <1>1 DEF UnaAutorizacionPropia
<1>. QED
    BY <1>2, ResolucionInductiva, PTL

\* A lote with attempts is not deleted, and belongs to the operation whose request
\* may be in ARCA.
THEOREM VueloConDueno == Spec => []DuenoDelVuelo
<1>1. InductivoResolucion => DuenoDelVuelo
    BY DEF InductivoResolucion
<1>. QED
    BY <1>1, ResolucionInductiva, PTL

\* The answer stored for a key does not change.
THEOREM RespuestaDeLaClave == Spec => ReplayEstable
<1>1. ASSUME InductivoResolucion, [Next]_vars, NEW k \in Operaciones,
             op[k].resp # "nula"
      PROVE  op'[k].resp = op[k].resp /\ op'[k].estado = op[k].estado
    BY <1>1, ResolucionAssumption, PasoMantiene DEF MarcoOp
<1>2. InductivoResolucion /\ [Next]_vars =>
        [\A k \in Operaciones :
           op[k].resp # "nula" => op'[k].resp = op[k].resp /\ op'[k].estado = op[k].estado]_vars
    BY <1>1
<1>. QED
    BY <1>2, ResolucionInductiva, PTL DEF Spec, ReplayEstable

\* What can be retried or was discarded has nothing of its own in ARCA nor on its
\* way there, and has a number only if the user reconciled it with a comprobante of
\* the web while a request had it selected.
THEOREM SueltoSinVuelo == Spec => []SinDescarteEnVuelo
<1>1. ASSUME InductivoResolucion, NEW g \in Con(grupo, Resolubles \cup {"descartado"})
      PROVE  /\ Propias(g) = {} /\ (grupo[g].numero = 0 \/ g \in cruzados)
             /\ \A i \in DOMAIN intentos :
                   intentos[i].grupo = g =>
                     intentos[i].fase \notin {"arca_iniciada", "requiere_reconciliacion"}
  <2>1. g \in Soltables
      BY DEF Soltables
  <2>2. NadaEnArca(g, 0) /\ (grupo[g].numero = 0 \/ g \in cruzados)
      BY <1>1, <2>1 DEF InductivoResolucion, SueltoSinArca, SinNumero
  <2>3. 0 \notin DOMAIN intentos
      BY <1>1, FormasPartes, LenProperties DEF InductivoResolucion
  <2>. QED
      BY <2>2, <2>3 DEF NadaEnArca, EnArca
<1>2. InductivoResolucion => SinDescarteEnVuelo
    BY <1>1 DEF SinDescarteEnVuelo
<1>. QED
    BY <1>2, ResolucionInductiva, PTL

\* The rows shown for a group tell its state, except while it is retried, wherever
\* the comprobantes reconciled with come from.
THEOREM FilasDelLote == Spec => []FilasSiguen
<1>1. InductivoResolucion => FilasSiguen
    BY DEF InductivoResolucion
<1>. QED
    BY <1>1, ResolucionInductiva, PTL

\* A closed lote has no group left to resolve, but for those that the user
\* reconciled while a request had them selected, and the rows of each group tell
\* its state.
THEOREM ResumenDelLote == Spec => []ResumenFiel
<1>1. ASSUME InductivoResolucion
      PROVE  CerradoSinResolubles
    BY <1>1 DEF InductivoResolucion, CerradoQuieto, Quieto, Resuelto, CerradoSinResolubles,
       Con
<1>2. InductivoResolucion => ResumenFiel
    BY <1>1 DEF InductivoResolucion, Formas, ResumenFiel
<1>. QED
    BY <1>2, ResolucionInductiva, PTL
=============================================================================
