------------------------- MODULE VpsImportacionProofs -------------------------
(* The import leaves the target as it should, for any processes, any package  *)
(* and any number of runs and of changes by others: InductivoImportacion is   *)
(* kept by every step, and what the run of TLC checks follows from it.        *)
EXTENDS VpsImportacionInv, FiniteSetTheorems, TLAPS

----------------------------------------------------------------------------
(* The order of the manifest.                                               *)

\* The items that come before one, or after it, are finitely many: the strict
\* order between these sets is well founded
LEMMA ConPrimeroYUltimo ==
    ASSUME NEW S \in SUBSET Archivos, S # {}
    PROVE  /\ \E f \in S : \A g \in S : f <= g
           /\ \E f \in S : \A g \in S : f >= g
<1> DEFINE Antes(f) == {g \in S : g < f}
           Tras(f) == {g \in S : g > f}
           R == StrictSubsetOrdering(S)
           F == FiniteSubsetsOf(S)
<1>1. S \subseteq Nat /\ IsFiniteSet(S)
  BY ArchivosAssumption, FS_Subset
<1>2. IsWellFoundedOn(R, F)
  BY <1>1, FS_StrictSubsetOrderingWellFounded
<1>3. \A f \in S : Antes(f) \in F /\ Tras(f) \in F
  BY <1>1, FS_Subset DEF FiniteSubsetsOf
<1>4. \E f \in S : \A g \in S : f <= g
  <2> DEFINE T == {Antes(f) : f \in S}
  <2>1. T \subseteq F /\ T # {}
    BY <1>3
  <2>2. PICK x \in T : \A y \in T : ~(<<y, x>> \in R)
    <3> HIDE DEF T, R, F
    <3> QED BY <2>1, <1>2, WFMin
  <2>3. PICK f \in S : x = Antes(f)
    OBVIOUS
  <2>4. ASSUME NEW g \in S, ~(f <= g)  PROVE FALSE
    <3>1. g < f /\ ~(g < g) /\ \A h \in S : h < g => h < f
      BY <1>1, <2>4
    <3>2. Antes(g) \subseteq Antes(f) /\ g \in Antes(f) /\ g \notin Antes(g)
      BY <3>1
    <3>3. Antes(g) \in SUBSET S /\ Antes(f) \in SUBSET S /\ Antes(g) # Antes(f)
      BY <3>2
    <3>4. <<Antes(g), Antes(f)>> \in R
      <4> HIDE DEF Antes
      <4> QED BY <3>2, <3>3 DEF StrictSubsetOrdering
    <3>5. Antes(g) \in T
      OBVIOUS
    <3> HIDE DEF Antes, R, T
    <3> QED BY <2>2, <2>3, <3>4, <3>5
  <2> QED BY <2>4
<1>5. \E f \in S : \A g \in S : f >= g
  <2> DEFINE T == {Tras(f) : f \in S}
  <2>1. T \subseteq F /\ T # {}
    BY <1>3
  <2>2. PICK x \in T : \A y \in T : ~(<<y, x>> \in R)
    <3> HIDE DEF T, R, F
    <3> QED BY <2>1, <1>2, WFMin
  <2>3. PICK f \in S : x = Tras(f)
    OBVIOUS
  <2>4. ASSUME NEW g \in S, ~(f >= g)  PROVE FALSE
    <3>1. g > f /\ ~(g > g) /\ \A h \in S : h > g => h > f
      BY <1>1, <2>4
    <3>2. Tras(g) \subseteq Tras(f) /\ g \in Tras(f) /\ g \notin Tras(g)
      BY <3>1
    <3>3. Tras(g) \in SUBSET S /\ Tras(f) \in SUBSET S /\ Tras(g) # Tras(f)
      BY <3>2
    <3>4. <<Tras(g), Tras(f)>> \in R
      <4> HIDE DEF Tras
      <4> QED BY <3>2, <3>3 DEF StrictSubsetOrdering
    <3>5. Tras(g) \in T
      OBVIOUS
    <3> HIDE DEF Tras, R, T
    <3> QED BY <2>2, <2>3, <3>4, <3>5
  <2> QED BY <2>4
<1> QED BY <1>4, <1>5

LEMMA SiguientePendiente ==
    ASSUME Forma, NEW i \in Importadores, imp[i].hechos # Archivos
    PROVE  Siguiente(i) \in Archivos \ imp[i].hechos
<1>1. imp[i].hechos \in SUBSET Archivos
  BY DEF Forma, FormaCorrida
<1>2. Archivos \ imp[i].hechos \in SUBSET Archivos /\ Archivos \ imp[i].hechos # {}
  BY <1>1
<1> HIDE DEF Primero
<1> QED BY <1>2, ConPrimeroYUltimo DEF Siguiente, Primero

LEMMA UltimoPendiente ==
    ASSUME NEW S \in SUBSET Archivos, S # {}
    PROVE  Ultimo(S) \in S
BY ConPrimeroYUltimo DEF Ultimo

----------------------------------------------------------------------------
(* The initial states.                                                      *)

LEMMA InitInductivo == Init => InductivoImportacion
<1> SUFFICES ASSUME Init PROVE InductivoImportacion
  OBVIOUS
<1> USE NingunoAssumption
<1>0. NuevaCorrida \in FormaCorrida /\ NuevaCorrida.pc = "inicio" /\ NuevaCorrida.n = 0
  BY DEF NuevaCorrida, FormaCorrida, Pasos, Terminales
<1>1. \A i \in Importadores : imp[i] = NuevaCorrida
  BY DEF Init
<1>2. tocados \subseteq Archivos /\ IsFiniteSet(tocados) /\ externos \in Nat
  BY ArchivosAssumption, FS_Subset, FS_CardinalityType DEF Init
<1>3. Forma
  BY <1>0, <1>1, <1>2 DEF Forma, Init, Corriendo, Terminales
<1>4. \A f \in Archivos : disco[f] # Ninguno => disco[f].de = AJENO
  BY DEF Init
<1>5. \A i \in Importadores, n \in Nat : AJENO # <<i, n>>
  BY DEF AJENO
<1>6. TypeOK
  <2>1. disco \in [Archivos -> {Ninguno} \cup Ficheros]
    BY DEF Init, Ficheros, Contenidos
  <2> QED BY <1>0, <1>1, <2>1 DEF TypeOK, Init, NuevaCorrida, Pasos, Terminales, EnCuerpo
<1>7. ReintentoPosible /\ DiarioCompleto
  <2>1. \A i \in Importadores : Corrida(i) = <<i, 0>>
    BY <1>0, <1>1 DEF Corrida
  <2> QED BY <1>4, <1>5, <2>1 DEF ReintentoPosible, DiarioCompleto
<1>8. CopiaNueva /\ LimpiezaEnCurso /\ SemillaBajoCandado /\ UnaPorVez /\ PaqueteEnDisco
  BY <1>0, <1>1 DEF CopiaNueva, LimpiezaEnCurso, SemillaBajoCandado, UnaPorVez,
     PaqueteEnDisco, Corriendo, Terminales, EnCuerpo, Init
<1> QED BY <1>3, <1>6, <1>7, <1>8 DEF InductivoImportacion

----------------------------------------------------------------------------
(* Steps that leave the directory and the journals alone.                   *)

EnCandado == EnCuerpo \cup {"commit"}

\* A run that goes on to pc, keeps or gives up the locks, and may commit
LEMMA Prosigue ==
    ASSUME InductivoImportacion, NEW i \in Importadores, NEW pc \in Pasos, Ir(i, pc),
           Corriendo(i), UNCHANGED <<disco, externos, tocados, deAUno>>,
           temporales' \subseteq temporales,
           base' = base \/ (imp[i].pc = "commit" /\ base' = "paquete" /\ pc \in Terminales),
           candado' \in Importadores \cup {Ninguno},
           (candado' = i) = (pc \in EnCandado),
           \A j \in Importadores \ {i} : (candado' = j) = (candado = j),
           pc \notin {"copiando", "compensar"},
           pc \in EnCandado \cup {"planificado"} => imp[i].pc \in EnCandado \cup {"planificado"},
           pc = "limpio" => imp[i].creados = {} /\ Corrida(i) \notin temporales',
           pc \in EnCandado \ {"comprobar"} => base' = "semilla",
           pc = "commit" => \A f \in Archivos : Igual(f)
    PROVE  InductivoImportacion'
<1> USE DEF Ir, InductivoImportacion
<1>1. /\ imp' \in [Importadores -> FormaCorrida]
      /\ imp'[i].pc = pc
      /\ \A j \in Importadores : j # i => imp'[j].pc = imp[j].pc
      /\ \A j \in Importadores :
            /\ imp'[j].n = imp[j].n /\ imp'[j].existian = imp[j].existian
            /\ imp'[j].hechos = imp[j].hechos /\ imp'[j].creados = imp[j].creados
            /\ imp'[j].quedan = imp[j].quedan
  BY DEF Forma, FormaCorrida
<1>2. \A j \in Importadores : Corrida(j)' = Corrida(j) /\ Siguiente(j)' = Siguiente(j)
  BY <1>1 DEF Corrida, Siguiente
<1>3. \A f \in Archivos : Igual(f)' = Igual(f)
  BY DEF Igual
<1>4. Forma'
  BY <1>1 DEF Forma, Corriendo
<1>5. TypeOK'
  BY <1>1 DEF TypeOK, EnCandado
<1>6. ReintentoPosible' /\ DiarioCompleto'
  BY <1>1, <1>2 DEF ReintentoPosible, DiarioCompleto
<1>7. CopiaNueva'
  BY <1>1, <1>2 DEF CopiaNueva
<1>8. LimpiezaEnCurso'
  BY <1>1, <1>2 DEF LimpiezaEnCurso, EnCandado, EnCuerpo
<1>9. SemillaBajoCandado'
  <2> SUFFICES ASSUME NEW j \in Importadores,
                      imp'[j].pc \in (EnCuerpo \ {"comprobar"}) \cup {"commit"}
               PROVE  base' = "semilla"
    BY DEF SemillaBajoCandado
  <2>1. CASE j = i
    BY <1>1, <2>1 DEF EnCandado, EnCuerpo
  <2>2. CASE j # i
    <3>1. base = "semilla" /\ candado = j
      BY <1>1, <2>2 DEF SemillaBajoCandado, TypeOK
    <3>2. imp[i].pc # "commit"
      BY <2>2, <3>1, NingunoAssumption DEF TypeOK, EnCandado
    <3> QED BY <3>1, <3>2
  <2> QED BY <2>1, <2>2
<1>10. UnaPorVez'
  BY <1>1 DEF UnaPorVez, Corriendo
<1>11. PaqueteEnDisco'
  <2> SUFFICES ASSUME deAUno
               PROVE  /\ \A j \in Importadores :
                            imp'[j].pc = "commit" => \A f \in Archivos \ tocados : Igual(f)
                      /\ base' = "paquete" =>
                            /\ \A f \in Archivos \ tocados : Igual(f)
                            /\ \A j \in Importadores :
                                  Corriendo(j)' => Archivos \ tocados \subseteq imp[j].existian
    BY <1>1, <1>3 DEF PaqueteEnDisco
  <2>1. \A j \in Importadores :
           imp'[j].pc = "commit" => \A f \in Archivos \ tocados : Igual(f)
    BY <1>1 DEF PaqueteEnDisco
  <2>2. CASE base' = base
    BY <1>1, <2>1, <2>2 DEF PaqueteEnDisco, Corriendo
  <2>3. CASE imp[i].pc = "commit" /\ pc \in Terminales
    <3>1. \A j \in Importadores : ~Corriendo(j)'
      BY <1>1, <2>3 DEF UnaPorVez, Corriendo
    <3> QED BY <2>1, <2>3, <3>1 DEF PaqueteEnDisco
  <2> QED BY <2>1, <2>2, <2>3
<1> QED BY <1>4, <1>5, <1>6, <1>7, <1>8, <1>9, <1>10, <1>11

\* The steps of that shape
LEMMA BloquearInductivo ==
    ASSUME InductivoImportacion, NEW i \in Importadores, Bloquear(i)
    PROVE  InductivoImportacion'
<1>1. /\ Ir(i, "comprobar") /\ imp[i].pc = "planificado" /\ candado = Ninguno /\ candado' = i
      /\ base' = base /\ temporales' = temporales /\ UNCHANGED <<disco, externos, tocados, deAUno>>
  BY DEF Bloquear, afuera
<1>2. \A j \in Importadores \ {i} : (candado' = j) = (candado = j)
  BY <1>1, NingunoAssumption
<1>3. Corriendo(i) /\ "comprobar" \in Pasos /\ "comprobar" \in EnCandado
  BY <1>1 DEF Corriendo, Pasos, Terminales, EnCandado, EnCuerpo
<1> QED BY <1>1, <1>2, <1>3, Prosigue DEF EnCandado, EnCuerpo

\* The transaction is rolled back before the cleanup
LEMMA RevertirInductivo ==
    ASSUME InductivoImportacion, NEW i \in Importadores, Revertir(i), imp[i].pc \in EnCuerpo,
           base' = base, UNCHANGED <<disco, afuera>>, temporales' \subseteq temporales
    PROVE  InductivoImportacion'
<1>1. candado = i /\ candado' = Ninguno /\ Ir(i, "limpiar")
  BY DEF InductivoImportacion, TypeOK, Revertir
<1>2. (candado' # i) /\ \A j \in Importadores \ {i} : (candado' = j) = (candado = j)
  BY <1>1, NingunoAssumption
<1>3. /\ Corriendo(i) /\ "limpiar" \in Pasos /\ "limpiar" \notin EnCandado
      /\ "limpiar" \notin {"copiando", "compensar", "limpio", "commit", "planificado"}
  BY DEF Corriendo, Pasos, Terminales, EnCandado, EnCuerpo
<1>4. UNCHANGED <<disco, externos, tocados, deAUno>>
  BY DEF afuera
<1> QED BY <1>1, <1>2, <1>3, <1>4, Prosigue

\* The transaction goes on with its next step
LEMMA SigueTransaccion ==
    ASSUME InductivoImportacion, NEW i \in Importadores,
           NEW pc \in {"archivos", "cargar", "verificar", "commit"}, Ir(i, pc),
           imp[i].pc \in EnCuerpo, base = "semilla",
           pc = "commit" => \A f \in Archivos : Igual(f),
           UNCHANGED <<base, candado, disco, temporales, afuera>>
    PROVE  InductivoImportacion'
<1>1. candado = i /\ candado' = candado /\ candado \in Importadores \cup {Ninguno}
  BY DEF InductivoImportacion, TypeOK
<1>2. \A j \in Importadores \ {i} : (candado' = j) = (candado = j)
  BY <1>1
<1>3. /\ pc \in Pasos /\ pc \in EnCandado /\ (candado' = i) = (pc \in EnCandado)
      /\ pc \notin {"copiando", "compensar", "limpio"}
  BY <1>1 DEF Pasos, EnCandado, EnCuerpo
<1>4. Corriendo(i) /\ imp[i].pc \in EnCandado
  BY DEF Corriendo, Terminales, EnCandado, EnCuerpo
<1>5. UNCHANGED <<disco, externos, tocados, deAUno>> /\ temporales' = temporales /\ base' = base
  BY DEF afuera
<1> HIDE DEF EnCandado
<1> QED BY <1>1, <1>2, <1>3, <1>4, <1>5, Prosigue

\* The transaction ends, and it may have been committed
LEMMA AcabaTransaccion ==
    ASSUME InductivoImportacion, NEW i \in Importadores, NEW pc \in {"ok", "incierto"},
           Ir(i, pc), imp[i].pc = "commit", base' \in {base, "paquete"}, candado' = Ninguno,
           UNCHANGED <<disco, temporales, afuera>>
    PROVE  InductivoImportacion'
<1>1. candado = i
  BY DEF InductivoImportacion, TypeOK
<1>2. candado' # i /\ \A j \in Importadores \ {i} : (candado' = j) = (candado = j)
  BY <1>1, NingunoAssumption
<1>3. /\ pc \in Pasos /\ pc \in Terminales /\ pc \notin EnCandado
      /\ pc \notin {"copiando", "compensar", "limpio", "commit", "planificado"}
  BY DEF Pasos, Terminales, EnCandado, EnCuerpo
<1>4. Corriendo(i)
  BY DEF Corriendo, Terminales
<1>5. UNCHANGED <<disco, externos, tocados, deAUno>> /\ temporales' = temporales
  BY DEF afuera
<1>6. base' = base \/ (imp[i].pc = "commit" /\ base' = "paquete" /\ pc \in Terminales)
  BY <1>3
<1> HIDE DEF EnCandado
<1> QED BY <1>2, <1>3, <1>4, <1>5, <1>6, Prosigue

LEMMA CuerpoInductivo ==
    ASSUME InductivoImportacion, NEW i \in Importadores,
           \/ Comprobar(i) \/ ArchivosListos(i) \/ Cargar(i) \/ VerificarArchivos(i)
           \/ Fallar(i) \/ CopiaFallida(i)
    PROVE  InductivoImportacion'
<1> USE DEF EnCuerpo, afuera
<1>1. CASE Comprobar(i) /\ DestinoListo
  <2> DEFINE pc == "archivos"
  <2>1. /\ imp[i].pc \in EnCuerpo /\ base = "semilla" /\ Ir(i, pc) /\ pc # "commit"
        /\ pc \in {"archivos", "cargar", "verificar", "commit"}
        /\ UNCHANGED <<base, candado, disco, temporales, afuera>>
    BY <1>1 DEF Comprobar, DestinoListo
  <2> HIDE DEF pc
  <2> QED BY <2>1, SigueTransaccion
<1>2. CASE Comprobar(i) /\ ~DestinoListo
  BY <1>2, RevertirInductivo DEF Comprobar
<1>3. CASE ArchivosListos(i) \/ Cargar(i)
  <2>1. PICK pc \in {"cargar", "verificar"} : Ir(i, pc)
    BY <1>3 DEF ArchivosListos, Cargar
  <2>2. /\ imp[i].pc \in {"archivos", "cargar"}
        /\ UNCHANGED <<base, candado, disco, temporales, afuera>>
    BY <1>3 DEF ArchivosListos, Cargar
  <2>3. base = "semilla"
    BY <2>2 DEF InductivoImportacion, SemillaBajoCandado
  <2> QED BY <2>1, <2>2, <2>3, SigueTransaccion
<1>4. CASE VerificarArchivos(i) /\ \A f \in Archivos : Igual(f)
  <2> DEFINE pc == "commit"
  <2>1. /\ imp[i].pc = "verificar" /\ Ir(i, pc)
        /\ pc \in {"archivos", "cargar", "verificar", "commit"}
        /\ UNCHANGED <<base, candado, disco, temporales, afuera>>
    BY <1>4 DEF VerificarArchivos
  <2>2. base = "semilla"
    BY <2>1 DEF InductivoImportacion, SemillaBajoCandado
  <2> HIDE DEF pc
  <2> QED BY <1>4, <2>1, <2>2, SigueTransaccion
<1>5. CASE VerificarArchivos(i) /\ ~\A f \in Archivos : Igual(f)
  BY <1>5, RevertirInductivo DEF VerificarArchivos
<1>6. CASE Fallar(i) \/ CopiaFallida(i)
  BY <1>6, RevertirInductivo DEF Fallar, CopiaFallida
<1> QED BY <1>1, <1>2, <1>3, <1>4, <1>5, <1>6

LEMMA FinalInductivo ==
    ASSUME InductivoImportacion, NEW i \in Importadores,
           Confirmar(i) \/ ConfirmarSinRespuesta(i) \/ TerminarLimpieza(i) \/ Matar(i)
    PROVE  InductivoImportacion'
<1> USE DEF Corriendo, Pasos, Terminales, EnCandado, EnCuerpo, Ir, afuera
<1>1. CASE Confirmar(i) \/ ConfirmarSinRespuesta(i)
  <2>1. PICK pc \in {"ok", "incierto"} : Ir(i, pc)
    BY <1>1 DEF Confirmar, ConfirmarSinRespuesta, TrasCommitPerdido
  <2>2. /\ imp[i].pc = "commit" /\ base' \in {base, "paquete"} /\ candado' = Ninguno
        /\ UNCHANGED <<disco, temporales, afuera>>
    BY <1>1 DEF Confirmar, ConfirmarSinRespuesta
  <2> HIDE DEF Ir, afuera
  <2> QED BY <2>1, <2>2, AcabaTransaccion
<1>2. CASE TerminarLimpieza(i)
  <2>1. imp[i].quedan \subseteq imp[i].creados /\ candado # i
    BY <1>2 DEF TerminarLimpieza, InductivoImportacion, TypeOK
  <2>2. imp[i].quedan = {} => imp[i].creados = {}
    BY <1>2, <2>1 DEF TerminarLimpieza, Pendientes
  <2>3. PICK t \in {temporales, temporales \ {Corrida(i)}} :
           /\ temporales' = t
           /\ Ir(i, IF imp[i].quedan = {} /\ Corrida(i) \notin t THEN "limpio" ELSE "incompleto")
    BY <1>2 DEF TerminarLimpieza
  <2> DEFINE pc == IF imp[i].quedan = {} /\ Corrida(i) \notin t THEN "limpio" ELSE "incompleto"
  <2>4. /\ pc \in {"limpio", "incompleto"} /\ Ir(i, pc)
        /\ pc = "limpio" => imp[i].creados = {} /\ Corrida(i) \notin temporales'
    BY <2>2, <2>3
  <2>5. imp[i].pc = "limpiar" /\ temporales' \subseteq temporales
    BY <1>2, <2>3 DEF TerminarLimpieza
  <2> HIDE DEF pc
  <2>6. /\ Corriendo(i) /\ pc \in Pasos /\ pc \notin EnCandado
        /\ pc \notin {"copiando", "compensar", "commit", "planificado"}
    BY <2>4, <2>5
  <2>7. base' = base /\ candado' = candado /\ UNCHANGED <<disco, externos, tocados, deAUno>>
    BY <1>2 DEF TerminarLimpieza
  <2>8. candado \in Importadores \cup {Ninguno}
    BY DEF InductivoImportacion, TypeOK
  <2> HIDE DEF pc, Ir, Corriendo, Pasos, EnCandado
  <2> QED BY <2>1, <2>4, <2>5, <2>6, <2>7, <2>8, Prosigue
<1>3. CASE Matar(i)
  <2>1. /\ Ir(i, "muerto") /\ candado' = (IF candado = i THEN Ninguno ELSE candado)
        /\ UNCHANGED <<disco, externos, tocados, deAUno>> /\ temporales' = temporales
        /\ base' = base \/ (imp[i].pc = "commit" /\ base' = "paquete")
        /\ Corriendo(i)
    BY <1>3 DEF Matar
  <2>2. /\ candado' \in Importadores \cup {Ninguno} /\ candado' # i
        /\ \A j \in Importadores \ {i} : (candado' = j) = (candado = j)
    BY <2>1, NingunoAssumption DEF InductivoImportacion, TypeOK
  <2>3. /\ "muerto" \in Pasos /\ "muerto" \in Terminales /\ "muerto" \notin EnCandado
        /\ "muerto" \notin {"copiando", "compensar", "limpio", "commit", "planificado"}
    OBVIOUS
  <2> HIDE DEF Ir, Corriendo, Pasos, Terminales, EnCandado
  <2> QED BY <2>1, <2>2, <2>3, Prosigue
<1> QED BY <1>1, <1>2, <1>3

----------------------------------------------------------------------------
(* Steps on one file.                                                       *)

LEMMA CorridaValida ==
    ASSUME Forma, NEW i \in Importadores, Corriendo(i)
    PROVE  Corrida(i) \in Corridas
<1>1. imp[i].n \in 1..MaxCorridas
  BY NingunoAssumption DEF Forma, FormaCorrida
<1> QED BY <1>1 DEF Corrida, Corridas

LEMMA DiarioValido ==
    ASSUME Forma, NEW f
    PROVE  EnDiario(f) \in SUBSET Corridas
<1>1. \A j \in Importadores : Corriendo(j) => Corrida(j) \in Corridas
  BY CorridaValida
<1> QED BY <1>1 DEF EnDiario

LEMMA PublicadoValido ==
    ASSUME Forma, NEW i \in Importadores, Corriendo(i), NEW f
    PROVE  Publicado(i, f) \in Ficheros
BY CorridaValida, DiarioValido DEF Publicado, Ficheros, Contenidos

\* A run works on the file f, which it links, takes away or leaves: what it does
\* not own stays, and its journal e has what it owns
LEMMA Trabaja ==
    ASSUME InductivoImportacion, NEW i \in Importadores, Corriendo(i),
           NEW e \in FormaCorrida, imp' = [imp EXCEPT ![i] = e],
           NEW f \in Archivos, NEW x \in {Ninguno, disco[f], Publicado(i, f)},
           disco' = [disco EXCEPT ![f] = x],
           UNCHANGED <<base, externos, tocados, deAUno>>,
           temporales' \subseteq temporales \cup {Corrida(i)},
           candado' \in Importadores \cup {Ninguno},
           (candado' = i) = (e.pc \in EnCandado),
           \A j \in Importadores \ {i} : (candado' = j) = (candado = j),
           e.n = imp[i].n, e.existian = imp[i].existian,
           e.creados \cap e.existian = {}, e.quedan \subseteq e.creados,
           e.pc \in {"archivos", "copiando", "compensar", "limpiar"},
           e.pc # "limpiar" => /\ imp[i].pc \in EnCuerpo \ {"comprobar"} /\ e.quedan = {},
           e.pc \in {"copiando", "compensar"} => e.hechos # Archivos,
           e.pc = "copiando" => Primero(Archivos \ e.hechos) \notin e.existian,
           e.pc = "compensar" => Primero(Archivos \ e.hechos) \in e.creados,
           \A g \in Archivos :
              disco'[g] # Ninguno /\ disco'[g].de = Corrida(i) => g \in e.creados,
           x = Ninguno => disco[f] = Ninguno \/ f \in imp[i].creados
    PROVE  InductivoImportacion'
<1> USE DEF InductivoImportacion
<1>1. /\ imp' \in [Importadores -> FormaCorrida] /\ imp'[i] = e
      /\ \A j \in Importadores : j # i => imp'[j] = imp[j]
      /\ \A j \in Importadores : imp'[j].n = imp[j].n /\ imp'[j].existian = imp[j].existian
  BY DEF Forma
<1>2. /\ \A j \in Importadores : Corrida(j)' = Corrida(j)
      /\ \A j \in Importadores : j # i => Siguiente(j)' = Siguiente(j)
      /\ Siguiente(i)' = Primero(Archivos \ e.hechos)
  BY <1>1 DEF Corrida, Siguiente
<1>3. Corrida(i) \in Corridas /\ Publicado(i, f) \in Ficheros
  BY CorridaValida, PublicadoValido
<1>4. /\ disco' \in [Archivos -> {Ninguno} \cup Ficheros]
      /\ disco'[f] = x /\ \A g \in Archivos : g # f => disco'[g] = disco[g]
  BY <1>3 DEF TypeOK
<1>5. /\ e.pc \in Pasos /\ e.pc \notin Terminales
      /\ e.pc \notin {"commit", "comprobar", "planificado", "limpio"}
  BY DEF Pasos, EnCuerpo, Terminales
<1>6. Forma'
  <2>1. \A j \in Importadores : Corriendo(j)' => Corriendo(j)
    BY <1>1 DEF Corriendo
  <2> QED BY <1>1, <2>1 DEF Forma
<1>7. TypeOK'
  <2>1. temporales' \subseteq Corridas
    BY <1>3 DEF TypeOK
  <2>2. ASSUME NEW j \in Importadores
        PROVE  /\ imp'[j].pc \in Pasos /\ imp'[j].n \in 0..MaxCorridas
               /\ imp'[j].quedan \subseteq imp'[j].creados
               /\ imp'[j].creados \cap imp'[j].existian = {}
               /\ (candado' = j) = (imp'[j].pc \in EnCuerpo \cup {"commit"})
    BY <1>1, <1>5 DEF TypeOK, EnCandado
  <2> QED BY <1>4, <2>1, <2>2 DEF TypeOK
<1>8. Publicado(i, f).sha = "paquete" /\ Publicado(i, f).de = Corrida(i)
  BY DEF Publicado
<1>9. ReintentoPosible'
  BY <1>4, <1>8 DEF ReintentoPosible
<1>10. DiarioCompleto'
  <2> SUFFICES ASSUME NEW g \in Archivos, disco'[g] # Ninguno, NEW j \in Importadores
               PROVE  /\ disco'[g].de = Corrida(j) => g \in imp'[j].creados
                      /\ \A n \in 1..MaxCorridas : disco'[g].de = <<j, n>> => n <= imp[j].n
    BY <1>1, <1>2 DEF DiarioCompleto
  <2>1. CASE disco'[g] = disco[g]
    BY <1>1, <2>1 DEF DiarioCompleto
  <2>2. CASE disco'[g] = Publicado(i, f)
    <3>1. \A n \in 1..MaxCorridas : Corrida(i) = <<j, n>> => i = j /\ n = imp[i].n
      BY DEF Corrida
    <3>2. Corrida(i) = Corrida(j) => i = j
      BY DEF Corrida
    <3>3. imp[j].n \in Nat
      BY NingunoAssumption DEF TypeOK
    <3>4. disco'[g].de = Corrida(i) /\ g \in e.creados
      BY <1>8, <2>2
    <3>5. disco'[g].de = Corrida(j) => g \in imp'[j].creados
      BY <1>1, <3>2, <3>4
    <3>6. \A n \in 1..MaxCorridas : disco'[g].de = <<j, n>> => n <= imp[j].n
      <4> SUFFICES ASSUME NEW n \in 1..MaxCorridas, Corrida(i) = <<j, n>>
                   PROVE  n <= imp[j].n
        BY <3>4
      <4>1. i = j /\ n = imp[i].n
        BY <3>1
      <4> QED BY <3>3, <4>1
    <3> QED BY <3>5, <3>6
  <2> QED BY <1>4, <2>1, <2>2
<1>11. CopiaNueva'
  BY <1>1, <1>2 DEF CopiaNueva
<1>12. LimpiezaEnCurso'
  <2> SUFFICES ASSUME NEW j \in Importadores
               PROVE  /\ imp'[j].pc \in EnCuerpo \cup {"planificado", "commit"} => imp'[j].quedan = {}
                      /\ imp'[j].pc = "limpio" =>
                            imp'[j].creados = {} /\ Corrida(j)' \notin temporales'
    BY DEF LimpiezaEnCurso
  <2>1. CASE j = i
    BY <1>1, <1>5, <2>1 DEF EnCuerpo
  <2>2. CASE j # i
    <3>1. Corrida(j) # Corrida(i)
      BY <2>2 DEF Corrida
    <3> QED BY <1>1, <1>2, <2>2, <3>1 DEF LimpiezaEnCurso
  <2> QED BY <2>1, <2>2
<1>13. SemillaBajoCandado'
  BY <1>1 DEF SemillaBajoCandado, EnCuerpo
<1>14. UnaPorVez'
  BY <1>1 DEF UnaPorVez, Corriendo
<1>15. PaqueteEnDisco'
  <2> SUFFICES ASSUME deAUno
               PROVE  /\ \A j \in Importadores :
                            imp'[j].pc = "commit" => \A g \in Archivos \ tocados : Igual(g)'
                      /\ base = "paquete" =>
                            /\ \A g \in Archivos \ tocados : Igual(g)'
                            /\ \A j \in Importadores :
                                  Corriendo(j)' => Archivos \ tocados \subseteq imp[j].existian
    BY <1>1 DEF PaqueteEnDisco
  <2>1. \A j \in Importadores : imp'[j].pc # "commit"
    <3>1. \A j \in Importadores : j # i => imp'[j].pc \in Terminales
      BY <1>1 DEF UnaPorVez, Corriendo
    <3> QED BY <1>1, <1>5, <3>1 DEF Terminales
  <2>2. ASSUME base = "paquete"  PROVE \A g \in Archivos \ tocados : Igual(g)'
    <3> SUFFICES ASSUME NEW g \in Archivos \ tocados PROVE Igual(g)'
      OBVIOUS
    <3>1. Igual(g) /\ g \in imp[i].existian
      BY <2>2 DEF PaqueteEnDisco
    <3>2. g \notin imp[i].creados
      BY <3>1 DEF TypeOK
    <3>3. disco'[g] = disco[g] \/ disco'[g] = Publicado(i, f)
      BY <1>4, <3>1, <3>2 DEF Igual
    <3> QED BY <1>3, <1>8, <3>1, <3>3, NingunoAssumption DEF Igual
  <2>3. \A j \in Importadores : Corriendo(j)' => Corriendo(j)
    BY <1>1 DEF Corriendo
  <2> QED BY <2>1, <2>2, <2>3 DEF PaqueteEnDisco
<1> QED BY <1>6, <1>7, <1>9, <1>10, <1>11, <1>12, <1>13, <1>14, <1>15

\* The entry the steps of a file replace
LEMMA EntradaDe ==
    ASSUME Forma, NEW i \in Importadores
    PROVE  /\ imp[i] \in FormaCorrida
           /\ imp[i] = [pc |-> imp[i].pc, n |-> imp[i].n, existian |-> imp[i].existian,
                        hechos |-> imp[i].hechos, creados |-> imp[i].creados,
                        quedan |-> imp[i].quedan]
BY DEF Forma, FormaCorrida

\* An item: kept as it is, refused, or a copy begins
LEMMA TomarInductivo ==
    ASSUME InductivoImportacion, NEW i \in Importadores, Tomar(i)
    PROVE  InductivoImportacion'
<1> DEFINE f == Siguiente(i)
<1>1. /\ imp[i].pc = "archivos" /\ imp[i].hechos # Archivos /\ Corriendo(i)
      /\ candado = i /\ imp[i].quedan = {} /\ imp[i].creados \cap imp[i].existian = {}
      /\ \A j \in Importadores \ {i} : (candado = j) = FALSE
  BY DEF Tomar, InductivoImportacion, TypeOK, LimpiezaEnCurso, Corriendo, Terminales, EnCuerpo
<1>2. f \in Archivos \ imp[i].hechos
  BY <1>1, SiguientePendiente DEF InductivoImportacion
<1>3. /\ imp[i] \in FormaCorrida /\ disco = [disco EXCEPT ![f] = disco[f]]
      /\ UNCHANGED <<base, disco, externos, tocados, deAUno>>
      /\ \A g \in Archivos : disco[g] # Ninguno /\ disco[g].de = Corrida(i) => g \in imp[i].creados
  BY <1>2, EntradaDe DEF InductivoImportacion, TypeOK, Tomar, afuera, DiarioCompleto
<1>4. CASE Igual(f)
  <2> DEFINE e == [imp[i] EXCEPT !.hechos = @ \cup {f}]
  <2>1. /\ imp' = [imp EXCEPT ![i] = e] /\ candado' = candado /\ temporales' = temporales
    BY <1>4, EntradaDe DEF Tomar, InductivoImportacion
  <2>2. /\ e \in FormaCorrida /\ e.pc = "archivos" /\ e.n = imp[i].n
        /\ e.existian = imp[i].existian /\ e.creados = imp[i].creados /\ e.quedan = imp[i].quedan
    BY <1>1, <1>2, <1>3 DEF FormaCorrida
  <2>3. /\ e.creados \cap e.existian = {} /\ e.quedan = {} /\ e.quedan \subseteq e.creados
        /\ e.pc \in EnCandado /\ imp[i].pc \in EnCuerpo \ {"comprobar"}
        /\ temporales' \subseteq temporales \cup {Corrida(i)}
        /\ disco' = [disco EXCEPT ![f] = disco[f]]
    BY <1>1, <1>3, <2>1, <2>2 DEF EnCandado, EnCuerpo
  <2>4. \A g \in Archivos : disco'[g] # Ninguno /\ disco'[g].de = Corrida(i) => g \in e.creados
    BY <1>3, <2>2
  <2> HIDE DEF e, f
  <2> QED BY <1>1, <1>2, <1>3, <2>1, <2>2, <2>3, <2>4, Trabaja
<1>5. CASE ~Igual(f) /\ (f \in imp[i].existian \/ disco[f] # Ninguno)
  BY <1>1, <1>5, RevertirInductivo DEF Tomar, EnCuerpo
<1>6. CASE ~Igual(f) /\ ~(f \in imp[i].existian \/ disco[f] # Ninguno)
  <2> DEFINE e == [imp[i] EXCEPT !.pc = "copiando"]
  <2>1. /\ imp' = [imp EXCEPT ![i] = e] /\ candado' = candado
        /\ temporales' = temporales \cup {Corrida(i)}
    BY <1>6, EntradaDe DEF Tomar, InductivoImportacion, Ir
  <2>2. /\ e \in FormaCorrida /\ e.pc = "copiando" /\ e.n = imp[i].n /\ e.hechos = imp[i].hechos
        /\ e.existian = imp[i].existian /\ e.creados = imp[i].creados /\ e.quedan = imp[i].quedan
    BY <1>1, <1>2, <1>3 DEF FormaCorrida, Pasos, EnCuerpo
  <2>3. Primero(Archivos \ e.hechos) \notin e.existian
    BY <1>6, <2>2 DEF Siguiente
  <2> HIDE DEF e, f
  <2>4. /\ e.creados \cap e.existian = {} /\ e.quedan = {} /\ e.quedan \subseteq e.creados
        /\ e.pc \in EnCandado /\ imp[i].pc \in EnCuerpo \ {"comprobar"} /\ e.hechos # Archivos
        /\ temporales' \subseteq temporales \cup {Corrida(i)}
        /\ disco' = [disco EXCEPT ![f] = disco[f]]
    BY <1>1, <1>3, <2>1, <2>2 DEF EnCandado, EnCuerpo
  <2>5. \A g \in Archivos : disco'[g] # Ninguno /\ disco'[g].de = Corrida(i) => g \in e.creados
    BY <1>3, <2>2
  <2> HIDE DEF e, f
  <2> QED BY <1>1, <1>2, <1>3, <2>1, <2>2, <2>3, <2>4, <2>5, Trabaja
<1> QED BY <1>4, <1>5, <1>6

\* The link, journalled at once or by the handler of the interruption, which also
\* enters a name that was not linked
LEMMA EnlazarInductivo ==
    ASSUME InductivoImportacion, NEW i \in Importadores, Enlazar(i) \/ EnlaceInterrumpido(i)
    PROVE  InductivoImportacion'
<1> DEFINE f == Siguiente(i)
<1>1. /\ imp[i].pc = "copiando" /\ imp[i].hechos # Archivos /\ Corriendo(i)
      /\ candado = i /\ imp[i].quedan = {} /\ imp[i].creados \cap imp[i].existian = {}
      /\ f \notin imp[i].existian
      /\ \A j \in Importadores \ {i} : (candado = j) = FALSE
  BY DEF Enlazar, EnlaceInterrumpido, InductivoImportacion, TypeOK, LimpiezaEnCurso, CopiaNueva,
     Corriendo, Terminales, EnCuerpo
<1>2. f \in Archivos \ imp[i].hechos
  BY <1>1, SiguientePendiente DEF InductivoImportacion
<1>3. /\ imp[i] \in FormaCorrida /\ candado' = candado /\ temporales' \subseteq temporales
      /\ UNCHANGED <<base, externos, tocados, deAUno>>
      /\ disco \in [Archivos -> {Ninguno} \cup Ficheros]
      /\ \A g \in Archivos : disco[g] # Ninguno /\ disco[g].de = Corrida(i) => g \in imp[i].creados
  BY <1>2, EntradaDe DEF InductivoImportacion, TypeOK, Enlazar, EnlaceInterrumpido, Publicar,
     afuera, DiarioCompleto
<1>4. PICK x \in {disco[f], Publicado(i, f)} :
         disco' = [disco EXCEPT ![f] = x] /\ (x = Ninguno => disco[f] = Ninguno)
  <2>1. Publicado(i, f) # Ninguno
    BY <1>1, PublicadoValido, NingunoAssumption DEF InductivoImportacion
  <2>2. \/ disco' = [disco EXCEPT ![f] = Publicado(i, f)]
        \/ disco' = [disco EXCEPT ![f] = disco[f]]
    BY <1>3 DEF Enlazar, EnlaceInterrumpido, Publicar
  <2> QED BY <2>1, <2>2
<1>5. PICK e \in FormaCorrida :
         /\ imp' = [imp EXCEPT ![i] = e] /\ e.n = imp[i].n /\ e.existian = imp[i].existian
         /\ e.creados = imp[i].creados \cup {f} /\ e.quedan = imp[i].quedan
         /\ \/ e.pc = "archivos"
            \/ e.pc = "compensar" /\ e.hechos = imp[i].hechos
  <2>1. CASE Enlazar(i)
    <3> DEFINE e == [imp[i] EXCEPT !.pc = "archivos", !.hechos = @ \cup {f}, !.creados = @ \cup {f}]
    <3>1. imp' = [imp EXCEPT ![i] = e]
      BY <2>1, EntradaDe DEF Enlazar, Publicar, InductivoImportacion
    <3>2. /\ e \in FormaCorrida /\ e.pc = "archivos" /\ e.n = imp[i].n /\ e.existian = imp[i].existian
          /\ e.creados = imp[i].creados \cup {f} /\ e.quedan = imp[i].quedan
      BY <1>2, <1>3 DEF FormaCorrida, Pasos, EnCuerpo
    <3> HIDE DEF e
    <3> QED BY <3>1, <3>2
  <2>2. CASE EnlaceInterrumpido(i)
    <3> DEFINE e == [imp[i] EXCEPT !.pc = "compensar", !.creados = @ \cup {f}]
    <3>1. imp' = [imp EXCEPT ![i] = e]
      BY <2>2, EntradaDe DEF EnlaceInterrumpido, InductivoImportacion
    <3>2. /\ e \in FormaCorrida /\ e.pc = "compensar" /\ e.n = imp[i].n /\ e.existian = imp[i].existian
          /\ e.creados = imp[i].creados \cup {f} /\ e.quedan = imp[i].quedan
          /\ e.hechos = imp[i].hechos
      BY <1>2, <1>3 DEF FormaCorrida, Pasos, EnCuerpo
    <3> HIDE DEF e
    <3> QED BY <3>1, <3>2
  <2> QED BY <2>1, <2>2
<1>6. \A g \in Archivos : disco'[g] # Ninguno /\ disco'[g].de = Corrida(i) => g \in e.creados
  <2> SUFFICES ASSUME NEW g \in Archivos, disco'[g] # Ninguno, disco'[g].de = Corrida(i)
               PROVE  g \in e.creados
    OBVIOUS
  <2>1. CASE g = f
    BY <1>5, <2>1
  <2>2. CASE g # f
    <3>1. disco'[g] = disco[g]
      BY <1>3, <1>4, <2>2
    <3> QED BY <1>3, <1>5, <3>1
  <2> QED BY <2>1, <2>2
<1>7. x \in {Ninguno, disco[f], Publicado(i, f)}
  OBVIOUS
<1>8. /\ e.creados \cap e.existian = {} /\ e.quedan = {} /\ e.quedan \subseteq e.creados
      /\ e.pc \in {"archivos", "compensar"} /\ e.pc \in EnCandado
      /\ e.pc = "compensar" => e.hechos # Archivos /\ Primero(Archivos \ e.hechos) \in e.creados
      /\ imp[i].pc \in EnCuerpo \ {"comprobar"}
  BY <1>1, <1>5 DEF EnCandado, EnCuerpo, Siguiente
<1> HIDE DEF f, EnCandado
<1>9. /\ (candado' = i) = (e.pc \in EnCandado) /\ candado' \in Importadores \cup {Ninguno}
      /\ \A j \in Importadores \ {i} : (candado' = j) = (candado = j)
      /\ temporales' \subseteq temporales \cup {Corrida(i)}
      /\ e.pc \in {"archivos", "copiando", "compensar", "limpiar"}
  BY <1>1, <1>3, <1>8
<1>10. /\ e.pc # "limpiar" => /\ imp[i].pc \in EnCuerpo \ {"comprobar"} /\ e.quedan = {}
       /\ e.pc \in {"copiando", "compensar"} => e.hechos # Archivos
       /\ e.pc = "copiando" => Primero(Archivos \ e.hechos) \notin e.existian
       /\ e.pc = "compensar" => Primero(Archivos \ e.hechos) \in e.creados
       /\ x = Ninguno => disco[f] = Ninguno \/ f \in imp[i].creados
       /\ UNCHANGED <<base, externos, tocados, deAUno>>
  BY <1>3, <1>4, <1>8
<1>11. /\ Corriendo(i) /\ f \in Archivos /\ disco' = [disco EXCEPT ![f] = x]
       /\ imp' = [imp EXCEPT ![i] = e] /\ e.n = imp[i].n /\ e.existian = imp[i].existian
  BY <1>1, <1>2, <1>4, <1>5
<1> QED BY <1>6, <1>7, <1>8, <1>9, <1>10, <1>11, Trabaja, ZenonT(60)

\* The handler of an interrupted link: the own file and its entry go, an entry for
\* a file of somebody else goes, what cannot be unlinked stays with its entry: no
\* file of the run loses its entry
LEMMA CompensarInductivo ==
    ASSUME InductivoImportacion, NEW i \in Importadores, Compensar(i)
    PROVE  InductivoImportacion'
<1> DEFINE f == Siguiente(i)
<1>1. /\ imp[i].pc = "compensar" /\ imp[i].hechos # Archivos /\ Corriendo(i)
      /\ candado = i /\ imp[i].quedan = {} /\ imp[i].creados \cap imp[i].existian = {}
      /\ candado' = Ninguno
  BY DEF Compensar, InductivoImportacion, TypeOK, LimpiezaEnCurso, CopiaNueva, Corriendo,
     Terminales, EnCuerpo
<1>2. f \in Archivos
  BY <1>1, SiguientePendiente DEF InductivoImportacion
<1>3. /\ imp[i] \in FormaCorrida /\ UNCHANGED <<base, externos, tocados, deAUno>>
      /\ disco \in [Archivos -> {Ninguno} \cup Ficheros] /\ temporales' \subseteq temporales
      /\ \A g \in Archivos : disco[g] # Ninguno /\ disco[g].de = Corrida(i) => g \in imp[i].creados
  BY EntradaDe DEF InductivoImportacion, TypeOK, Compensar, afuera, DiarioCompleto
<1>4. PICK borrado \in BOOLEAN :
         /\ \/ borrado /\ Reconoce(i, f) /\ disco' = [disco EXCEPT ![f] = Ninguno]
            \/ (borrado => disco[f] # Ninguno /\ disco[f].de # Corrida(i)) /\ disco' = disco
         /\ imp' = [imp EXCEPT ![i].pc = "limpiar", ![i].creados = SigueEnJournal(i, f, borrado)]
  BY DEF Compensar
<1> DEFINE e == [imp[i] EXCEPT !.pc = "limpiar", !.creados = SigueEnJournal(i, f, borrado)]
           x == disco'[f]
<1>5. SigueEnJournal(i, f, borrado) \in {imp[i].creados, imp[i].creados \ {f}}
  BY DEF SigueEnJournal
<1>6. /\ imp' = [imp EXCEPT ![i] = e] /\ e \in FormaCorrida /\ e.pc = "limpiar" /\ e.n = imp[i].n
      /\ e.existian = imp[i].existian /\ e.creados = SigueEnJournal(i, f, borrado)
      /\ e.quedan = imp[i].quedan
  <2>1. imp' = [imp EXCEPT ![i] = e]
    BY <1>4, EntradaDe DEF InductivoImportacion
  <2>2. SigueEnJournal(i, f, borrado) \in SUBSET Archivos
    BY <1>3, <1>5 DEF FormaCorrida
  <2> QED BY <1>3, <2>1, <2>2 DEF FormaCorrida, Pasos
<1>7. f \in imp[i].creados
  BY <1>1 DEF InductivoImportacion, CopiaNueva
<1>8. /\ disco' = [disco EXCEPT ![f] = x] /\ x \in {Ninguno, disco[f]}
      /\ x = Ninguno => disco[f] = Ninguno \/ f \in imp[i].creados
  BY <1>2, <1>3, <1>4, <1>7
<1>9. ASSUME NEW g \in Archivos, disco'[g] # Ninguno, disco'[g].de = Corrida(i)
      PROVE  g \in e.creados
  <2>1. disco'[g] = disco[g] /\ g \in imp[i].creados
    BY <1>2, <1>3, <1>4, <1>9
  <2>2. CASE g = f
    <3>1. ~borrado
      BY <1>2, <1>3, <1>4, <1>9, <2>1, <2>2
    <3> QED BY <1>6, <2>1, <3>1 DEF SigueEnJournal
  <2>3. CASE g # f
    BY <1>5, <1>6, <2>1, <2>3
  <2> QED BY <2>2, <2>3
<1>10. /\ e.creados \cap e.existian = {} /\ e.quedan \subseteq e.creados
      /\ e.pc \notin EnCandado /\ temporales' \subseteq temporales \cup {Corrida(i)}
  BY <1>1, <1>3, <1>5, <1>6 DEF EnCandado, EnCuerpo
<1>11. /\ (candado' = i) = (e.pc \in EnCandado) /\ candado' \in Importadores \cup {Ninguno}
       /\ \A j \in Importadores \ {i} : (candado' = j) = (candado = j)
       /\ e.pc \in {"archivos", "copiando", "compensar", "limpiar"}
       /\ e.pc \notin {"copiando", "compensar"}
  BY <1>1, <1>6, <1>10, NingunoAssumption
<1>12. /\ Corriendo(i) /\ x \in {Ninguno, disco[f], Publicado(i, f)}
       /\ UNCHANGED <<base, externos, tocados, deAUno>>
       /\ e.pc # "limpiar" => /\ imp[i].pc \in EnCuerpo \ {"comprobar"} /\ e.quedan = {}
       /\ e.pc \in {"copiando", "compensar"} => e.hechos # Archivos
       /\ e.pc = "copiando" => Primero(Archivos \ e.hechos) \notin e.existian
  BY <1>1, <1>3, <1>6, <1>8
<1> HIDE DEF e, x, f
<1> QED BY <1>2, <1>6, <1>8, <1>9, <1>10, <1>11, <1>12, Trabaja

\* One item of the cleanup
LEMMA LimpiarInductivo ==
    ASSUME InductivoImportacion, NEW i \in Importadores, Limpiar(i)
    PROVE  InductivoImportacion'
<1> DEFINE f == Ultimo(Pendientes(i))
<1>1. /\ imp[i].pc = "limpiar" /\ Corriendo(i) /\ candado # i
      /\ imp[i].quedan \subseteq imp[i].creados /\ imp[i].creados \cap imp[i].existian = {}
      /\ candado' = candado /\ candado \in Importadores \cup {Ninguno}
      /\ UNCHANGED <<base, temporales, externos, tocados, deAUno>>
  BY DEF Limpiar, InductivoImportacion, TypeOK, Corriendo, Terminales, EnCuerpo, afuera
<1>2. /\ imp[i] \in FormaCorrida /\ disco \in [Archivos -> {Ninguno} \cup Ficheros]
      /\ \A g \in Archivos : disco[g] # Ninguno /\ disco[g].de = Corrida(i) => g \in imp[i].creados
  BY EntradaDe DEF InductivoImportacion, TypeOK, DiarioCompleto
<1>3. f \in Archivos /\ f \in imp[i].creados /\ f \notin imp[i].quedan
  <2>1. Pendientes(i) \in SUBSET Archivos /\ Pendientes(i) # {}
    BY <1>2 DEF Limpiar, Pendientes, FormaCorrida
  <2> QED BY <2>1, UltimoPendiente DEF Pendientes
<1>4. CASE /\ Reconoce(i, f) \/ disco[f] = Ninguno
           /\ disco' = [disco EXCEPT ![f] = Ninguno]
           /\ imp' = [imp EXCEPT ![i].creados = @ \ {f}]
  <2> DEFINE e == [imp[i] EXCEPT !.creados = @ \ {f}]
  <2>1. imp' = [imp EXCEPT ![i] = e]
    BY <1>4, EntradaDe DEF InductivoImportacion
  <2>2. /\ e \in FormaCorrida /\ e.pc = "limpiar" /\ e.n = imp[i].n
        /\ e.existian = imp[i].existian /\ e.creados = imp[i].creados \ {f}
        /\ e.quedan = imp[i].quedan
    BY <1>1, <1>2 DEF FormaCorrida
  <2>3. \A g \in Archivos : disco'[g] # Ninguno /\ disco'[g].de = Corrida(i) => g \in e.creados
    BY <1>2, <1>4, <2>2
  <2>4. /\ e.creados \cap e.existian = {} /\ e.quedan \subseteq e.creados
        /\ e.pc \notin EnCandado /\ temporales' \subseteq temporales \cup {Corrida(i)}
        /\ e.pc \in {"archivos", "copiando", "compensar", "limpiar"}
        /\ e.pc \notin {"copiando", "compensar"}
    BY <1>1, <1>3, <2>2 DEF EnCandado, EnCuerpo
  <2>5. /\ (candado' = i) = (e.pc \in EnCandado) /\ candado' \in Importadores \cup {Ninguno}
        /\ \A j \in Importadores \ {i} : (candado' = j) = (candado = j)
    BY <1>1, <2>4
  <2> HIDE DEF e, f
  <2> QED BY <1>1, <1>3, <1>4, <2>1, <2>2, <2>3, <2>4, <2>5, Trabaja
<1>5. CASE imp' = [imp EXCEPT ![i].quedan = @ \cup {f}] /\ UNCHANGED disco
  <2> DEFINE e == [imp[i] EXCEPT !.quedan = @ \cup {f}]
             x == disco[f]
  <2>1. imp' = [imp EXCEPT ![i] = e] /\ disco' = [disco EXCEPT ![f] = x]
    BY <1>2, <1>5, EntradaDe DEF InductivoImportacion
  <2>2. /\ e \in FormaCorrida /\ e.pc = "limpiar" /\ e.n = imp[i].n
        /\ e.existian = imp[i].existian /\ e.creados = imp[i].creados
        /\ e.quedan = imp[i].quedan \cup {f}
    BY <1>1, <1>2, <1>3 DEF FormaCorrida
  <2>3. \A g \in Archivos : disco'[g] # Ninguno /\ disco'[g].de = Corrida(i) => g \in e.creados
    BY <1>2, <1>5, <2>2
  <2>4. /\ e.creados \cap e.existian = {} /\ e.quedan \subseteq e.creados
        /\ e.pc \notin EnCandado /\ temporales' \subseteq temporales \cup {Corrida(i)}
        /\ e.pc \in {"archivos", "copiando", "compensar", "limpiar"}
        /\ e.pc \notin {"copiando", "compensar"}
    BY <1>1, <1>3, <2>2 DEF EnCandado, EnCuerpo
  <2>5. /\ (candado' = i) = (e.pc \in EnCandado) /\ candado' \in Importadores \cup {Ninguno}
        /\ \A j \in Importadores \ {i} : (candado' = j) = (candado = j)
    BY <1>1, <2>4
  <2>6. /\ Corriendo(i) /\ x \in {Ninguno, disco[f], Publicado(i, f)}
        /\ UNCHANGED <<base, externos, tocados, deAUno>>
        /\ e.pc # "limpiar" => /\ imp[i].pc \in EnCuerpo \ {"comprobar"} /\ e.quedan = {}
        /\ e.pc \in {"copiando", "compensar"} => e.hechos # Archivos
        /\ e.pc = "copiando" => Primero(Archivos \ e.hechos) \notin e.existian
    BY <1>1, <2>2
  <2> HIDE DEF e, f, x
  <2> QED BY <1>3, <2>1, <2>2, <2>3, <2>4, <2>5, <2>6, Trabaja, ZenonT(30)
<1> QED BY <1>4, <1>5 DEF Limpiar

----------------------------------------------------------------------------
(* A run is planned; the application and others go about their business.    *)

LEMMA PlanificarInductivo ==
    ASSUME InductivoImportacion, NEW i \in Importadores, Planificar(i)
    PROVE  InductivoImportacion'
<1> USE DEF InductivoImportacion
<1> DEFINE pc == IF \A f \in Presentes : Igual(f) THEN "planificado" ELSE "rechazado"
           e == [NuevaCorrida EXCEPT !.n = imp[i].n + 1, !.existian = Presentes, !.pc = pc]
<1>1. /\ ~Corriendo(i) /\ imp[i].n < MaxCorridas /\ imp[i].n \in Nat
      /\ deAUno => \A j \in Importadores : ~Corriendo(j)
      /\ imp' = [imp EXCEPT ![i] = e]
      /\ UNCHANGED <<base, candado, disco, temporales, externos, tocados, deAUno>>
  BY NingunoAssumption DEF Planificar, afuera, TypeOK
<1>2. Presentes \subseteq Archivos /\ pc \in {"planificado", "rechazado"}
  BY DEF Presentes
<1>3. /\ e \in FormaCorrida /\ e.pc = pc /\ e.n = imp[i].n + 1 /\ e.existian = Presentes
      /\ e.creados = {} /\ e.quedan = {} /\ e.hechos = {}
  <2>1. pc \in Pasos /\ imp[i].n + 1 \in 0..MaxCorridas
    BY <1>1, <1>2, NingunoAssumption DEF Pasos, Terminales
  <2> HIDE DEF pc
  <2>2. NuevaCorrida \in [pc : Pasos, n : Nat, existian : SUBSET Archivos, hechos : SUBSET Archivos,
                          creados : SUBSET Archivos, quedan : SUBSET Archivos]
    BY DEF NuevaCorrida, Pasos, Terminales
  <2>3. NuevaCorrida.creados = {} /\ NuevaCorrida.quedan = {} /\ NuevaCorrida.hechos = {}
    BY DEF NuevaCorrida
  <2>4. e \in FormaCorrida
    BY <1>2, <2>1, <2>2 DEF FormaCorrida
  <2>5. e.pc = pc /\ e.n = imp[i].n + 1 /\ e.existian = Presentes
    BY <2>2
  <2>6. e.creados = {} /\ e.quedan = {} /\ e.hechos = {}
    BY <2>2, <2>3
  <2> QED BY <2>4, <2>5, <2>6
<1> HIDE DEF e, pc
<1>4. /\ imp' \in [Importadores -> FormaCorrida] /\ imp'[i] = e
      /\ \A j \in Importadores : j # i => imp'[j] = imp[j]
  BY <1>1, <1>3 DEF Forma
<1>5. /\ \A j \in Importadores : j # i => Corrida(j)' = Corrida(j) /\ Siguiente(j)' = Siguiente(j)
      /\ Corrida(i)' = <<i, imp[i].n + 1>>
      /\ \A f \in Archivos : Igual(f)' = Igual(f)
  BY <1>1, <1>3, <1>4 DEF Corrida, Siguiente, Igual
<1>6. e.pc \notin EnCuerpo \cup {"commit", "limpio"} /\ imp[i].pc \notin EnCuerpo \cup {"commit"}
  BY <1>1, <1>2, <1>3 DEF EnCuerpo, Corriendo, Terminales
<1>7. Forma'
  BY <1>1, <1>3, <1>4 DEF Forma, Corriendo
<1>8. TypeOK'
  BY <1>1, <1>2, <1>3, <1>4, <1>6, NingunoAssumption DEF TypeOK, FormaCorrida
<1>9. ReintentoPosible'
  BY <1>1 DEF ReintentoPosible
<1>10. DiarioCompleto'
  <2> SUFFICES ASSUME NEW g \in Archivos, disco[g] # Ninguno, NEW j \in Importadores
               PROVE  /\ disco[g].de = Corrida(j)' => g \in imp'[j].creados
                      /\ \A n \in 1..MaxCorridas : disco[g].de = <<j, n>> => n <= imp'[j].n
    BY <1>1 DEF DiarioCompleto
  <2>1. CASE j # i
    BY <1>4, <1>5, <2>1 DEF DiarioCompleto
  <2>2. CASE j = i
    <3>1. \A n \in 1..MaxCorridas : disco[g].de = <<i, n>> => n <= imp[i].n
      BY DEF DiarioCompleto
    <3>2. imp[i].n + 1 \in 1..MaxCorridas /\ ~(imp[i].n + 1 <= imp[i].n)
      BY <1>1, NingunoAssumption
    <3>3. disco[g].de # Corrida(i)'
      BY <1>5, <3>1, <3>2
    <3>4. \A n \in 1..MaxCorridas : n <= imp[i].n => n <= imp[i].n + 1
      BY <1>1
    <3> QED BY <1>3, <1>4, <2>2, <3>1, <3>3, <3>4
  <2> QED BY <2>1, <2>2
<1>11. CopiaNueva'
  BY <1>4, <1>5, <1>6 DEF CopiaNueva, EnCuerpo
<1>12. LimpiezaEnCurso'
  BY <1>1, <1>3, <1>4, <1>5, <1>6 DEF LimpiezaEnCurso
<1>13. SemillaBajoCandado'
  BY <1>1, <1>4, <1>6 DEF SemillaBajoCandado
<1>14. UnaPorVez'
  BY <1>1, <1>4 DEF UnaPorVez, Corriendo
<1>15. PaqueteEnDisco'
  <2>1. ASSUME \A f \in Archivos \ tocados : Igual(f)
        PROVE  Archivos \ tocados \subseteq Presentes
    BY <2>1 DEF Presentes, Igual
  <2>2. deAUno => \A j \in Importadores : Corriendo(j)' => j = i
    BY <1>1, <1>4 DEF Corriendo
  <2>3. \A j \in Importadores : imp'[j].pc = "commit" => imp[j].pc = "commit"
    BY <1>4, <1>6
  <2> QED BY <1>1, <1>3, <1>4, <1>5, <2>1, <2>2, <2>3 DEF PaqueteEnDisco
<1> QED BY <1>7, <1>8, <1>9, <1>10, <1>11, <1>12, <1>13, <1>14, <1>15

\* The locks of an import keep the application out of its target
LEMMA UsarInductivo ==
    ASSUME InductivoImportacion, Usar
    PROVE  InductivoImportacion'
<1> USE DEF InductivoImportacion
<1>1. /\ candado = Ninguno /\ base' \in {"ajena", "uso"} \cup {base} /\ base' # "paquete"
      /\ UNCHANGED <<candado, disco, temporales, imp, externos, tocados, deAUno>>
  BY DEF Usar, Escribible, afuera, TypeOK
<1>2. /\ \A j \in Importadores : Corrida(j)' = Corrida(j) /\ Siguiente(j)' = Siguiente(j)
      /\ \A j \in Importadores : Corriendo(j)' = Corriendo(j)
      /\ \A f \in Archivos : Igual(f)' = Igual(f)
  BY <1>1 DEF Corrida, Siguiente, Igual, Corriendo
<1>3. TypeOK' /\ Forma' /\ ReintentoPosible'
  BY <1>1, <1>2 DEF TypeOK, Forma, ReintentoPosible
<1>4. DiarioCompleto' /\ CopiaNueva' /\ LimpiezaEnCurso' /\ UnaPorVez'
  BY <1>1, <1>2 DEF DiarioCompleto, CopiaNueva, LimpiezaEnCurso, UnaPorVez
<1>5. SemillaBajoCandado'
  <2>1. \A i \in Importadores : imp[i].pc \notin EnCuerpo \cup {"commit"}
    BY <1>1, NingunoAssumption DEF TypeOK
  <2> QED BY <1>1, <2>1 DEF SemillaBajoCandado
<1>6. PaqueteEnDisco'
  BY <1>1, <1>2 DEF PaqueteEnDisco
<1> QED BY <1>3, <1>4, <1>5, <1>6

LEMMA ExternoInductivo ==
    ASSUME InductivoImportacion, NEW f \in Archivos, Externo(f)
    PROVE  InductivoImportacion'
<1> USE DEF InductivoImportacion
<1>1. PICK x \in {Ninguno} \cup [sha : {"paquete", "otro"}, de : {AJENO}, tras : {EnDiario(f)}] :
         disco' = [disco EXCEPT ![f] = x]
  BY DEF Externo
<1>2. /\ tocados' = tocados \cup {f} /\ externos' = externos + 1
      /\ UNCHANGED <<base, candado, temporales, imp, deAUno>>
  BY DEF Externo
<1>3. /\ x \in {Ninguno} \cup Ficheros /\ x # Ninguno => x.de = AJENO
      /\ disco' \in [Archivos -> {Ninguno} \cup Ficheros] /\ disco'[f] = x
      /\ \A g \in Archivos : g # f => disco'[g] = disco[g]
  BY <1>1, DiarioValido DEF Ficheros, Contenidos, TypeOK
<1>4. /\ \A j \in Importadores : Corrida(j)' = Corrida(j) /\ Siguiente(j)' = Siguiente(j)
      /\ \A j \in Importadores : Corriendo(j)' = Corriendo(j)
      /\ \A g \in Archivos : g # f => Igual(g)' = Igual(g)
  BY <1>2, <1>3 DEF Corrida, Siguiente, Igual, Corriendo
<1>5. TypeOK' /\ Forma'
  BY <1>2, <1>3, <1>4 DEF TypeOK, Forma
<1>6. ReintentoPosible'
  BY <1>3 DEF ReintentoPosible
<1>7. DiarioCompleto'
  <2>1. \A j \in Importadores, n \in Nat : AJENO # <<j, n>>
    BY NingunoAssumption DEF AJENO
  <2>2. \A j \in Importadores : AJENO # Corrida(j)
    BY <2>1 DEF Corrida, TypeOK
  <2> SUFFICES ASSUME NEW g \in Archivos, disco'[g] # Ninguno, NEW j \in Importadores
               PROVE  /\ disco'[g].de = Corrida(j) => g \in imp[j].creados
                      /\ \A n \in 1..MaxCorridas : disco'[g].de = <<j, n>> => n <= imp[j].n
    BY <1>2, <1>4 DEF DiarioCompleto
  <2>3. CASE g = f
    <3>1. disco'[g].de = AJENO /\ 1..MaxCorridas \subseteq Nat
      BY <1>3, <2>3
    <3> QED BY <2>1, <2>2, <3>1
  <2>4. CASE g # f
    BY <1>3, <2>4 DEF DiarioCompleto
  <2> QED BY <2>3, <2>4
<1>8. CopiaNueva' /\ LimpiezaEnCurso' /\ SemillaBajoCandado' /\ UnaPorVez'
  BY <1>2, <1>4 DEF CopiaNueva, LimpiezaEnCurso, SemillaBajoCandado, UnaPorVez
<1>9. PaqueteEnDisco'
  BY <1>2, <1>4 DEF PaqueteEnDisco
<1> QED BY <1>5, <1>6, <1>7, <1>8, <1>9

----------------------------------------------------------------------------
(* Theorems.                                                                *)

LEMMA PasoInductivo == InductivoImportacion /\ [Next]_vars => InductivoImportacion'
<1> SUFFICES ASSUME InductivoImportacion, [Next]_vars  PROVE InductivoImportacion'
  OBVIOUS
<1>1. ASSUME NEW i \in Importadores, Planificar(i) \/ Paso(i) \/ Matar(i)
      PROVE  InductivoImportacion'
  BY <1>1, PlanificarInductivo, BloquearInductivo, CuerpoInductivo, TomarInductivo,
     EnlazarInductivo, CompensarInductivo, LimpiarInductivo, FinalInductivo DEF Paso
<1>2. CASE Usar
  BY <1>2, UsarInductivo
<1>3. ASSUME NEW f \in Archivos, Externo(f)  PROVE InductivoImportacion'
  BY <1>3, ExternoInductivo
<1>4. CASE UNCHANGED vars
  <2>1. UNCHANGED <<base, candado, disco, temporales, imp, externos, tocados, deAUno>>
    BY <1>4 DEF vars
  <2> QED BY <2>1 DEF InductivoImportacion, TypeOK, Forma, ReintentoPosible, DiarioCompleto, CopiaNueva,
          LimpiezaEnCurso, SemillaBajoCandado, UnaPorVez, PaqueteEnDisco, Corrida, Siguiente,
          Igual, Corriendo
<1> QED BY <1>1, <1>2, <1>3, <1>4 DEF Next

\* What ties the journals, the directory and the target holds of every state.
THEOREM ImportacionInductiva == Spec => []InductivoImportacion
BY InitInductivo, PasoInductivo, PTL DEF Spec

\* A failed import harms nobody: a cleanup that says it is complete is, and no file
\* is left that would refuse the next attempt.
THEOREM RestosSiempreInocuos == Spec => []RestosInocuos
<1>1. InductivoImportacion => RestosInocuos
  BY DEF InductivoImportacion, DiarioCompleto, LimpiezaEnCurso, LimpiezaVeraz, RestosInocuos
<1> QED BY <1>1, ImportacionInductiva, PTL

\* Imports run one at a time never commit a package without its certificates,
\* whatever fails, is killed or is repeated.
THEOREM DestinoSiempreCompleto == Spec => []DestinoCompleto
<1>1. InductivoImportacion => DestinoCompleto
  BY DEF InductivoImportacion, PaqueteEnDisco, DestinoCompleto, Veredicto
<1> QED BY <1>1, ImportacionInductiva, PTL

\* The rows of a package only replace the clean seeds, and what others had in the
\* directory before a run entered the name in its journal is never removed, even by
\* imports that race each other; of what is put there later only such names can go.
THEOREM DestinoSiempreRespetado == Spec => DestinoRespetado
<1>1. ASSUME InductivoImportacion, [Next]_vars
      PROVE  [base' = "paquete" => base \in {"semilla", "paquete"}]_base
  <2> SUFFICES ASSUME base' # base, base' = "paquete"  PROVE base \in {"semilla", "paquete"}
    OBVIOUS
  <2>1. PICK i \in Importadores : imp[i].pc = "commit"
    BY <1>1 DEF vars, Next, Paso, Planificar, Bloquear, Comprobar, Tomar, Enlazar, CopiaFallida,
       EnlaceInterrumpido, Compensar, ArchivosListos, Cargar, VerificarArchivos, Fallar, Confirmar,
       ConfirmarSinRespuesta, Limpiar, TerminarLimpieza, Matar, Usar, Externo
  <2> QED BY <1>1, <2>1 DEF InductivoImportacion, SemillaBajoCandado
<1>2. ASSUME InductivoImportacion, [Next]_vars
      PROVE  [\A f \in Archivos :
                disco[f] # Ninguno /\ disco'[f] # disco[f] /\ externos' = externos =>
                   \E i \in Importadores :
                      /\ f \in imp[i].creados
                      /\ disco[f].de = Corrida(i) \/ Corrida(i) \in disco[f].tras]_disco
  <2> SUFFICES ASSUME NEW f \in Archivos, disco[f] # Ninguno, disco'[f] # disco[f],
                      externos' = externos
               PROVE  \E i \in Importadores : f \in imp[i].creados /\ Reconoce(i, f)
    BY DEF Reconoce
  <2> USE DEF InductivoImportacion
  <2>1. /\ disco \in [Archivos -> {Ninguno} \cup Ficheros] /\ disco' # disco
        /\ externos \in Nat
    BY <1>2 DEF TypeOK, Forma
  <2>2. ASSUME NEW i \in Importadores, Enlazar(i) \/ EnlaceInterrumpido(i)  PROVE FALSE
    <3>1. /\ disco' = [disco EXCEPT ![Siguiente(i)] = Publicado(i, Siguiente(i))]
          /\ disco[Siguiente(i)] = Ninguno
      BY <2>1, <2>2 DEF Enlazar, Publicar, EnlaceInterrumpido
    <3> QED BY <2>1, <3>1
  <2>3. ASSUME NEW i \in Importadores, Compensar(i)
        PROVE  f \in imp[i].creados /\ Reconoce(i, f)
    <3>1. /\ disco' = [disco EXCEPT ![Siguiente(i)] = Ninguno]
          /\ Reconoce(i, Siguiente(i)) /\ imp[i].pc = "compensar"
      BY <2>1, <2>3 DEF Compensar
    <3>2. Siguiente(i) \in imp[i].creados
      BY <1>2, <3>1 DEF CopiaNueva
    <3> QED BY <2>1, <3>1, <3>2
  <2>4. ASSUME NEW i \in Importadores, Limpiar(i)
        PROVE  f \in imp[i].creados /\ Reconoce(i, f)
    <3> DEFINE g == Ultimo(Pendientes(i))
    <3>1. /\ disco' = [disco EXCEPT ![g] = Ninguno] /\ (Reconoce(i, g) \/ disco[g] = Ninguno)
          /\ Pendientes(i) # {}
      BY <2>1, <2>4 DEF Limpiar
    <3>2. g \in imp[i].creados
      <4>1. Pendientes(i) \in SUBSET Archivos
        BY <1>2 DEF Forma, FormaCorrida, Pendientes
      <4> QED BY <3>1, <4>1, UltimoPendiente DEF Pendientes
    <3> HIDE DEF g
    <3>3. f = g
      BY <2>1, <3>1
    <3> QED BY <3>1, <3>2, <3>3
  <2>5. \A g \in Archivos : ~Externo(g)
    BY <2>1 DEF Externo
  <2>6. ASSUME NEW i \in Importadores, Planificar(i) \/ Paso(i) \/ Matar(i)
        PROVE  Enlazar(i) \/ EnlaceInterrumpido(i) \/ Compensar(i) \/ Limpiar(i)
    BY <2>1, <2>6 DEF Paso, Planificar, Bloquear, Comprobar, Tomar, CopiaFallida, ArchivosListos,
       Cargar, VerificarArchivos, Fallar, Confirmar, ConfirmarSinRespuesta, TerminarLimpieza, Matar
  <2>7. ~Usar /\ ~UNCHANGED vars
    BY <2>1 DEF Usar, vars
  <2> QED BY <1>2, <2>2, <2>3, <2>4, <2>5, <2>6, <2>7 DEF Next
<1>3. Spec => SoloSobreSemilla
  BY <1>1, ImportacionInductiva, PTL DEF Spec, SoloSobreSemilla
<1>4. Spec => AjenoIntacto
  BY <1>2, ImportacionInductiva, PTL DEF Spec, AjenoIntacto
<1> QED BY <1>3, <1>4 DEF DestinoRespetado

=============================================================================
