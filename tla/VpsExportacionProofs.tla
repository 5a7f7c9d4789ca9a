------------------------- MODULE VpsExportacionProofs -------------------------
(****************************************************************************)
(* Theorems about VpsExportacion, for any source databases, any files of    *)
(* certificates and every bound.                                            *)
(*                                                                          *)
(* The exporter and the importer write their checks twice, the first over   *)
(* the tables of the source and the second over the rows of the package.    *)
(* ExportableEsImportable says that the second never refuses what the first *)
(* accepted; the theorems about the export rest on an invariant that says   *)
(* what the private directory holds at each step and that a package carries *)
(* the rows of a source that could be exported.                             *)
(****************************************************************************)
EXTENDS VpsExportacion, FiniteSetTheorems, TLAPS

----------------------------------------------------------------------------
(* The rows of the package.                                                 *)

LEMMA NormalizadaCampos ==
    ASSUME NEW f, Esquema(f), NEW o \in f.operaciones
    PROVE  /\ Normalizada(o).id = o.id /\ Normalizada(o).tipo = o.tipo
           /\ Normalizada(o).estado = o.estado /\ Normalizada(o).resp = o.resp
           /\ Normalizada(o).rece = o.rece /\ Normalizada(o).lote = 0
<1>1. o = [id |-> o.id, tipo |-> o.tipo, estado |-> o.estado, resp |-> o.resp,
           rece |-> o.rece, lote |-> o.lote]
    BY DEF Esquema
<1>2. [o EXCEPT !.lote = 0]
        = [id |-> o.id, tipo |-> o.tipo, estado |-> o.estado, resp |-> o.resp,
           rece |-> o.rece, lote |-> 0]
    BY <1>1
<1>. QED
    BY <1>2, SMTT(20) DEF Normalizada

\* An identifier is of one row of the source.
LEMMA UnaPorId ==
    ASSUME NEW f, Esquema(f), NEW o \in f.operaciones, NEW x, NEW p \in Id(f.operaciones, x),
           x = o.id
    PROVE  p = o
BY DEF Esquema, Id

\* An operation of the package is one of the source, normalised.
LEMMA OperacionDelPaquete ==
    ASSUME NEW f, Esquema(f), NEW o \in Tablas(f).operaciones
    PROVE  \E q \in f.operaciones :
              /\ o = Normalizada(q)
              /\ o.id = q.id /\ o.tipo = q.tipo /\ o.estado = q.estado
              /\ o.resp = q.resp /\ o.rece = q.rece /\ o.lote = 0
BY NormalizadaCampos DEF Tablas

LEMMA OperacionesConId ==
    ASSUME NEW f, Esquema(f), NEW x, Id(f.operaciones, x) # {}
    PROVE  Id(Tablas(f).operaciones, x) # {}
BY NormalizadaCampos DEF Tablas, Id

\* The other tables travel as they are.
LEMMA TablasIguales ==
    ASSUME NEW f
    PROVE  /\ Tablas(f).asociaciones = f.asociaciones
           /\ Tablas(f).comprobantes = f.comprobantes
           /\ Tablas(f).puntos = f.puntos
           /\ Tablas(f).revisiones = f.revisiones
           /\ Tablas(f).cabezas = f.cabezas
BY DEF Tablas

----------------------------------------------------------------------------
(* What the exporter accepts.                                               *)

\* A lote is named by the operations of a lote, and by no other.
LEMMA LoteDeOperacion ==
    ASSUME NEW f, Esquema(f), OperacionesSeguras(f), NEW o \in f.operaciones
    PROVE  /\ o.tipo \in DeLote \cup {"individual"}
           /\ o.lote # 0 <=> o.tipo \in DeLote
<1>1. RespuestaValida(f, o)
    BY DEF OperacionesSeguras
<1>2. CASE o.tipo \in DeLote
    <2>1. Id(f.lotes, o.lote) # {}
        BY <1>1, <1>2 DEF RespuestaValida, RespuestaLote
    <2>. QED
        BY <2>1, <1>2 DEF Esquema
<1>3. CASE o.tipo \notin DeLote
    BY <1>1, <1>3 DEF RespuestaValida, RespuestaIndividual
<1>. QED
    BY <1>2, <1>3

LEMMA ParDe ==
    ASSUME NEW f, NEW o
    PROVE  /\ Par(f, o).op = o.id /\ Par(f, o).lote = o.lote
           /\ Par(f, o).grupos = {g.id : g \in {x \in f.grupos : x.lote = o.lote}}
           /\ Par(f, o).rech = IF o.resp.clase = "global" THEN o.resp.rech ELSE {}
           /\ Par(f, o).noenv = IF o.resp.clase = "global" THEN o.resp.noenv ELSE {}
BY DEF Par

\* The pairs of the package are those of the operations of a lote.
LEMMA ParesDelPaquete ==
    ASSUME NEW f
    PROVE  /\ \A p \in Tablas(f).pares : \E q \in f.operaciones : q.lote # 0 /\ p = Par(f, q)
           /\ \A q \in f.operaciones : q.lote # 0 => Par(f, q) \in Tablas(f).pares
BY DEF Tablas

\* The groups a 10005 names: those rejected and those not sent are groups of its lote,
\* and none is both.
LEMMA GruposDelGlobal ==
    ASSUME NEW f, OperacionesSeguras(f), GrafoGlobalSeguro(f), NEW o \in f.operaciones,
           o.tipo \in DeLote, o.resp.clase = "global"
    PROVE  /\ o.resp.rech \cap o.resp.noenv = {}
           /\ o.resp.rech \cup o.resp.noenv
                \subseteq {g.id : g \in {x \in f.grupos : x.lote = o.lote}}
<1>1. /\ {i.grupo : i \in {x \in IntentosDe(f, o) :
                            x.estado = "rechazado_arca" /\ x.cat = "global"}} = o.resp.rech
      /\ \A i \in IntentosDe(f, o) : i.grupo \notin o.resp.noenv
      /\ \A x \in o.resp.rech \cup o.resp.noenv : ConservaHistoria(f, x, o)
    BY DEF GrafoGlobalSeguro
<1>2. o.resp.rech \cap o.resp.noenv = {}
    BY <1>1
<1>3. ASSUME NEW x \in o.resp.rech \cup o.resp.noenv
      PROVE  x \in {g.id : g \in {y \in f.grupos : y.lote = o.lote}}
    <2>1. PICK g \in Id(f.grupos, x) : g.lote = o.lote
        BY <1>1 DEF ConservaHistoria
    <2>. QED
        BY <2>1 DEF Id
<1>. QED
    BY <1>2, <1>3

----------------------------------------------------------------------------
(* What the importer asks of the package, part by part.                     *)

LEMMA NormalizacionDelPaquete ==
    ASSUME NEW f, Esquema(f), OperacionesSeguras(f), GrafoGlobalSeguro(f)
    PROVE  NormalizacionValida(Tablas(f))
<1>. DEFINE t == Tablas(f)
<1>1. {p.op : p \in t.pares} \subseteq {o.id : o \in {x \in t.operaciones : x.tipo \in DeLote}}
    <2>. SUFFICES ASSUME NEW p \in t.pares
                  PROVE  \E o \in t.operaciones : o.tipo \in DeLote /\ p.op = o.id
        OBVIOUS
    <2>1. PICK q \in f.operaciones : q.lote # 0 /\ p = Par(f, q)
        BY ParesDelPaquete
    <2>2. q.tipo \in DeLote
        BY <2>1, LoteDeOperacion
    <2>3. Normalizada(q) \in t.operaciones
        BY DEF Tablas
    <2>. QED
        BY <2>1, <2>2, <2>3, ParDe, NormalizadaCampos
<1>2. {o.id : o \in {x \in t.operaciones : x.tipo \in DeLote}} \subseteq {p.op : p \in t.pares}
    <2>. SUFFICES ASSUME NEW o \in t.operaciones, o.tipo \in DeLote
                  PROVE  \E p \in t.pares : p.op = o.id
        OBVIOUS
    <2>1. PICK q \in f.operaciones : o.id = q.id /\ o.tipo = q.tipo
        BY OperacionDelPaquete
    <2>2. q.lote # 0
        BY <2>1, LoteDeOperacion
    <2>. QED
        BY <2>1, <2>2, ParesDelPaquete, ParDe
<1>3. ASSUME NEW p \in t.pares
      PROVE  /\ p.rech \cap p.noenv = {} /\ p.rech \cup p.noenv \subseteq p.grupos
             /\ \A o \in Id(t.operaciones, p.op) :
                   /\ o.lote = 0
                   /\ IF o.resp.clase = "global"
                      THEN o.resp.rech = p.rech /\ o.resp.noenv = p.noenv
                      ELSE p.rech = {} /\ p.noenv = {}
                   /\ o.resp.clase \in {"lote", "legacy", "global"} => o.resp.lote = p.lote
    <2>1. PICK q \in f.operaciones : q.lote # 0 /\ p = Par(f, q)
        BY ParesDelPaquete
    <2>2. q.tipo \in DeLote /\ RespuestaLote(f, q)
        BY <2>1, LoteDeOperacion DEF OperacionesSeguras, RespuestaValida
    <2>3. p.rech \cap p.noenv = {} /\ p.rech \cup p.noenv \subseteq p.grupos
        BY <2>1, <2>2, ParDe, GruposDelGlobal
    <2>4. ASSUME NEW o \in Id(t.operaciones, p.op)
          PROVE  o.lote = 0 /\ o.resp = q.resp
        <3>1. o \in t.operaciones /\ o.id = q.id
            BY <2>1, ParDe DEF Id
        <3>2. PICK s \in f.operaciones : o.id = s.id /\ o.resp = s.resp /\ o.lote = 0
            BY <3>1, OperacionDelPaquete
        <3>3. s \in Id(f.operaciones, q.id)
            BY <3>1, <3>2 DEF Id
        <3>4. s = q
            BY <3>3, UnaPorId
        <3>. QED
            BY <3>2, <3>4
    <2>5. q.resp.clase \in {"lote", "legacy", "global"} => q.resp.lote = q.lote
        BY <2>2 DEF RespuestaLote, ErrorDeLote
    <2>. QED
        BY <2>1, <2>3, <2>4, <2>5, ParDe
<1>. QED
    BY <1>1, <1>2, <1>3 DEF NormalizacionValida

LEMMA ReferenciasDelPaquete ==
    ASSUME NEW f, Esquema(f), ReferenciasValidas(f)
    PROVE  ReferenciasEmpaquetadas(Tablas(f))
BY TablasIguales, OperacionesConId DEF ReferenciasEmpaquetadas, ReferenciasValidas

\* The associations of an operation are the same on both sides.
LEMMA AsociacionesIguales ==
    ASSUME NEW f, NEW o, NEW q, o.id = q.id
    PROVE  AsociacionesDe(Tablas(f), o) = AsociacionesDe(f, q)
BY TablasIguales DEF AsociacionesDe

LEMMA AsociacionesDelPaquete ==
    ASSUME NEW f, Esquema(f), AsociacionesSeguras(f)
    PROVE  AsociacionesEmpaquetadas(Tablas(f))
<1>. DEFINE t == Tablas(f)
<1>1. \A a \in t.asociaciones : a.valida /\ Id(t.operaciones, a.op) # {}
    BY TablasIguales, OperacionesConId DEF AsociacionesSeguras
<1>2. ASSUME NEW o \in t.operaciones
      PROVE  IF o.rece = {} THEN AsociacionesDe(t, o) = {}
             ELSE /\ AsociacionesDe(t, o) # {}
                  /\ {a.punto : a \in AsociacionesDe(t, o)} = o.rece
    <2>1. PICK q \in f.operaciones : o.id = q.id /\ o.rece = q.rece
        BY OperacionDelPaquete
    <2>2. AsociacionesDe(t, o) = AsociacionesDe(f, q)
        BY <2>1, AsociacionesIguales
    <2>. QED
        BY <2>1, <2>2 DEF AsociacionesSeguras
<1>. QED
    BY <1>1, <1>2 DEF AsociacionesEmpaquetadas, AsociacionesSeguras

LEMMA OperacionesDelPaquete ==
    ASSUME NEW f, Esquema(f), OperacionesSeguras(f), RechazosConEstado(f),
           \A q \in f.operaciones : AsociacionIndividual(f, q),
           NEW o \in Tablas(f).operaciones
    PROVE  OperacionEmpaquetada(Tablas(f), o) /\ AsociacionIndividual(Tablas(f), o)
<1>. DEFINE t == Tablas(f)
<1>1. PICK q \in f.operaciones :
         /\ o.id = q.id /\ o.tipo = q.tipo /\ o.estado = q.estado
         /\ o.resp = q.resp /\ o.rece = q.rece /\ o.lote = 0
    BY OperacionDelPaquete
<1>2. /\ q.estado \in OperacionTerminal /\ RespuestaValida(f, q) /\ ExitoConRecibo(f, q)
      /\ q.tipo \in DeLote \cup {"individual"} /\ (q.lote # 0 <=> q.tipo \in DeLote)
    BY LoteDeOperacion DEF OperacionesSeguras
<1>3. AsociacionIndividual(t, o)
    <2>1. AsociacionesDe(t, o) = AsociacionesDe(f, q)
        BY <1>1, AsociacionesIguales
    <2>. QED
        BY <1>1, <2>1 DEF AsociacionIndividual
<1>4. CASE q.tipo = "individual"
    <2>1. RespuestaIndividual(q)
        BY <1>2, <1>4 DEF RespuestaValida, DeLote
    <2>2. RespuestaIndividual(o)
        BY <1>1, <2>1 DEF RespuestaIndividual
    <2>3. o.resp.clase = "exito" => ReciboDe(t.comprobantes, o.resp.comp, o.resp.hecho)
        BY <1>1, <1>2, <1>4, TablasIguales DEF ExitoConRecibo
    <2>4. o.resp.clase = "global" => o.estado = "rechazado_arca"
        BY <1>1, <1>4 DEF RechazosConEstado
    <2>. QED
        BY <1>1, <1>2, <1>3, <1>4, <2>2, <2>3, <2>4 DEF OperacionEmpaquetada
<1>5. CASE q.tipo \in DeLote
    <2>1. ErrorDeLote(q) \/ ResultadoDeLote(q)
        BY <1>2, <1>5 DEF RespuestaValida, RespuestaLote
    <2>2. ErrorDeLote(o) \/ ResultadoDeLote(o)
        BY <1>1, <2>1 DEF ErrorDeLote, ResultadoDeLote
    <2>3. \E p \in t.pares : p.op = o.id
        BY <1>1, <1>2, <1>5, ParesDelPaquete, ParDe
    <2>. QED
        BY <1>1, <1>2, <1>3, <1>5, <2>2, <2>3 DEF OperacionEmpaquetada, DeLote
<1>. QED
    BY <1>2, <1>4, <1>5

LEMMA LedgerDelPaquete ==
    ASSUME NEW f, LedgerValido(f)
    PROVE  LedgerImportado(Tablas(f))
<1>1. \A p, a : CadenaDe(Tablas(f), p, a) = CadenaDe(f, p, a)
    BY TablasIguales DEF CadenaDe
<1>. QED
    BY <1>1, TablasIguales DEF LedgerImportado, LedgerValido

\* What run_preflight_on_connection lets through, load_and_verify_manifest and
\* validate_imported_database accept: no installation is packed that cannot be restored.
\* The one condition is the only check the importer has and the exporter has not.
THEOREM ExportableEsImportable ==
    ASSUME NEW f, Esquema(f), Exportable(f), RechazosConEstado(f)
    PROVE  Importada(Tablas(f))
<1>1. /\ ReferenciasValidas(f) /\ LedgerValido(f) /\ OperacionesSeguras(f)
      /\ AsociacionesSeguras(f) /\ GrafoGlobalSeguro(f)
      /\ \A o \in f.operaciones : AsociacionIndividual(f, o)
    BY DEF Exportable, Omitible
<1>. QED
    BY <1>1, NormalizacionDelPaquete, ReferenciasDelPaquete, AsociacionesDelPaquete,
       OperacionesDelPaquete, LedgerDelPaquete DEF Importada, Acepta

----------------------------------------------------------------------------
(* The export, step by step.                                                *)

\* What the private directory holds at each step, and what a package carries
Contenido ==
    CASE exp.pc = "manifiesto" -> {"certs", "data"}
      [] exp.pc = "tablas" -> {"certs"}
      [] exp.pc = "publicar" -> Miembros
      [] OTHER -> {}

Avanzado == exp.pc \in {"certificados", "tablas", "manifiesto", "publicar", "fin"}

ExportacionInv ==
    /\ exp \in [pc : {"inicio", "preflight", "certificados", "tablas", "manifiesto",
                     "publicar", "fin", "error", "sucio", "muerto"}, n : 0..MaxExportes]
    /\ caso \in Casos /\ material \in Materiales /\ verificado \in BOOLEAN
    /\ reenvios \in 0..MaxReenvios
    /\ staging \subseteq Miembros /\ (exp.pc \notin {"sucio", "muerto"} => staging = Contenido)
    /\ Avanzado => Exportable(caso.f)
    /\ paquete # Ninguno \/ verificado =>
          /\ exp.pc = "fin" /\ Exportable(caso.f)
          /\ paquete \in [tablas : {Tablas(caso.f)}, miembros : {Miembros}, intacto : BOOLEAN]
    /\ destino # Ninguno => destino = Tablas(caso.f)
    /\ arca = caso.arca

LEMMA InicialCumple == Init => ExportacionInv
<1>. SUFFICES ASSUME Init PROVE ExportacionInv
    OBVIOUS
<1>1. /\ exp.pc = "inicio" /\ staging = {} /\ paquete = Ninguno /\ verificado = FALSE
      /\ destino = Ninguno /\ arca = caso.arca /\ caso \in Casos /\ material \in Materiales
    BY DEF Init
<1>2. exp \in [pc : {"inicio", "preflight", "certificados", "tablas", "manifiesto",
                    "publicar", "fin", "error", "sucio", "muerto"}, n : 0..MaxExportes]
      /\ reenvios \in 0..MaxReenvios
    BY CotasAssumption DEF Init
<1>. QED
    BY <1>1, <1>2 DEF ExportacionInv, Contenido, Avanzado

\* Before a package is published nothing else has moved.
LEMMA ExportarCumple ==
    ASSUME ExportacionInv, Exportar PROVE ExportacionInv'
<1>. USE DEF ExportacionInv, Contenido, Avanzado, Miembros, resto, Ir
<1>1. CASE Iniciar
    BY <1>1, CotasAssumption DEF Iniciar
<1>2. CASE Preflight
    BY <1>2 DEF Preflight, Abandonar
<1>3. CASE Certificados
    BY <1>3 DEF Certificados, Abandonar
<1>4. CASE EscribirTablas
    BY <1>4 DEF EscribirTablas
<1>5. CASE EscribirManifiesto
    BY <1>5 DEF EscribirManifiesto
<1>6. CASE Publicar
    BY <1>6 DEF Publicar, Publicable
<1>7. CASE Interrumpir
    BY <1>7 DEF Interrumpir, EnCurso, Abandonar
<1>8. CASE Matar
    BY <1>8 DEF Matar, EnCurso
<1>. QED
    BY <1>1, <1>2, <1>3, <1>4, <1>5, <1>6, <1>7, <1>8 DEF Exportar

LEMMA DanarCumple ==
    ASSUME ExportacionInv, Danar PROVE ExportacionInv'
BY DEF ExportacionInv, Contenido, Avanzado, Danar, resto

LEMMA VerificarCumple ==
    ASSUME ExportacionInv, VerificarPaquete PROVE ExportacionInv'
BY DEF ExportacionInv, Contenido, Avanzado, VerificarPaquete

LEMMA RestaurarCumple ==
    ASSUME ExportacionInv, Restaurar PROVE ExportacionInv'
BY DEF ExportacionInv, Contenido, Avanzado, Restaurar, Releible, Leidas

\* The target knows every operation of the source, so no key reaches ARCA again.
LEMMA ReenviarCumple ==
    ASSUME ExportacionInv, NEW o \in caso.f.operaciones, Reenviar(o)
    PROVE  ExportacionInv' /\ arca' = arca
<1>1. destino = Tablas(caso.f) /\ Esquema(caso.f)
    BY CasosAssumption DEF ExportacionInv, Reenviar
<1>2. Id(caso.f.operaciones, o.id) # {}
    BY DEF Id
<1>3. Id(destino.operaciones, o.id) # {}
    BY <1>1, <1>2, OperacionesConId
<1>4. arca' = arca
    BY <1>3 DEF Reenviar
<1>5. reenvios' \in 0..MaxReenvios
    BY CotasAssumption DEF Reenviar, ExportacionInv
<1>. QED
    BY <1>4, <1>5 DEF ExportacionInv, Contenido, Avanzado, Reenviar

\* ExportacionInv is inductive.
THEOREM ExportacionInductiva == Spec => []ExportacionInv
<1>1. ASSUME ExportacionInv, Next PROVE ExportacionInv'
    BY <1>1, ExportarCumple, DanarCumple, VerificarCumple, RestaurarCumple, ReenviarCumple
       DEF Next
<1>2. ASSUME ExportacionInv, UNCHANGED vars PROVE ExportacionInv'
    BY <1>2 DEF ExportacionInv, Contenido, Avanzado, vars
<1>. QED
    BY InicialCumple, <1>1, <1>2, PTL DEF Spec

----------------------------------------------------------------------------
(* What the export promises.                                                *)

LEMMA EnteroDesdeInv == ExportacionInv => TypeOK /\ SinPaqueteParcial
<1>. SUFFICES ASSUME ExportacionInv PROVE TypeOK /\ SinPaqueteParcial
    OBVIOUS
<1>1. ASSUME paquete # Ninguno
      PROVE  /\ paquete.miembros = Miembros /\ paquete.intacto \in BOOLEAN
             /\ \A o \in paquete.tablas.operaciones : o.lote = 0
    <2>1. paquete.tablas = Tablas(caso.f) /\ Esquema(caso.f)
        BY <1>1, CasosAssumption DEF ExportacionInv
    <2>2. paquete.miembros = Miembros /\ paquete.intacto \in BOOLEAN
        BY <1>1 DEF ExportacionInv
    <2>. QED
        BY <2>1, <2>2, OperacionDelPaquete
<1>2. exp.pc \in {"fin", "error"} => staging = {}
    BY DEF ExportacionInv, Contenido
<1>. QED
    BY <1>1, <1>2 DEF ExportacionInv, TypeOK, SinPaqueteParcial

\* export_package never publishes part of a package, leaves nothing in its private
\* directory when it ends and could remove it, and every row it writes of an operation
\* has left its lote.
THEOREM PaqueteEntero == Spec => [](TypeOK /\ SinPaqueteParcial)
BY ExportacionInductiva, EnteroDesdeInv, PTL

\* What the target is left with is what the source held.
THEOREM RestauracionVeraz == Spec => []RestauracionFiel
<1>1. ExportacionInv => RestauracionFiel
    BY DEF ExportacionInv, RestauracionFiel
<1>. QED
    BY <1>1, ExportacionInductiva, PTL

\* Repeating the keys of the source against the target authorises nothing again.
THEOREM SinSegundaAutorizacion == Spec => []UnaSolaAutorizacion
<1>1. ExportacionInv => UnaSolaAutorizacion
    BY CasosAssumption DEF ExportacionInv, UnaSolaAutorizacion
<1>. QED
    BY <1>1, ExportacionInductiva, PTL

\* Every package export publishes is one import accepts.
THEOREM PaqueteAceptado == Spec => []PaqueteImportable
<1>1. ExportacionInv => PaqueteImportable
    BY CasosAssumption, ExportableEsImportable DEF ExportacionInv, PaqueteImportable
<1>. QED
    BY <1>1, ExportacionInductiva, PTL

----------------------------------------------------------------------------
(* A package of a source nobody altered.                                    *)

\* What ARCA authorised of an operation that can be exported is in an authorised attempt,
\* or in the answer of an operation of before the attempts.
LEMMA AutorizadaEnIntento ==
    ASSUME NEW c, Esquema(c.f), Exportable(c.f), Historica(c), NEW x \in c.arca
    PROVE  \/ \E i \in c.f.intentos :
                 i.op = x.op /\ i.hecho = x.hecho /\ i.estado = "autorizado"
           \/ \E o \in Id(c.f.operaciones, x.op) :
                 /\ o.tipo = "individual" /\ IntentosDe(c.f, o) = {}
                 /\ o.resp.clase = "exito" /\ o.resp.hecho = x.hecho
<1>1. \A i \in c.f.intentos : i.estado \in IntentoTerminal
    BY DEF Exportable, Omitible, IntentosSeguros
<1>. QED
    BY <1>1 DEF Historica, IntentoTerminal

LEMMA ReciboDeLaAutorizada ==
    ASSUME NEW c, Esquema(c.f), Exportable(c.f), Historica(c), NEW x \in c.arca
    PROVE  \E r \in c.f.comprobantes : r.estado = "autorizado" /\ r.hecho = x.hecho
<1>1. CASE \E i \in c.f.intentos :
              i.op = x.op /\ i.hecho = x.hecho /\ i.estado = "autorizado"
    BY <1>1 DEF Exportable, Omitible, IntentosSeguros, ReciboDe, Id
<1>2. CASE \E o \in Id(c.f.operaciones, x.op) :
              /\ o.tipo = "individual" /\ IntentosDe(c.f, o) = {}
              /\ o.resp.clase = "exito" /\ o.resp.hecho = x.hecho
    <2>1. PICK o \in c.f.operaciones :
             o.tipo = "individual" /\ o.resp.clase = "exito" /\ o.resp.hecho = x.hecho
        BY <1>2 DEF Id
    <2>2. ExitoConRecibo(c.f, o)
        BY DEF Exportable, Omitible, OperacionesSeguras
    <2>. QED
        BY <2>1, <2>2 DEF ExitoConRecibo, ReciboDe, Id
<1>. QED
    BY <1>1, <1>2, AutorizadaEnIntento

\* An individual operation is a success exactly where ARCA authorised it.
LEMMA ExitoDeLaAutorizada ==
    ASSUME NEW c, Esquema(c.f), Exportable(c.f), Historica(c),
           NEW q \in c.f.operaciones, q.tipo = "individual"
    PROVE  {x.hecho : x \in {y \in c.arca : y.op = q.id}}
              = IF q.resp.clase = "exito" THEN {q.resp.hecho} ELSE {}
<1>. DEFINE autorizados == {i \in IntentosDe(c.f, q) : i.estado = "autorizado"}
            sinHistoria == /\ q.rece = {} /\ IntentosDe(c.f, q) = {}
                           /\ GuardasDe(c.f, q) = {}
<1>1. ResultadoDeIntentos(c.f, q)
    BY DEF Exportable, Omitible
<1>2. ASSUME q.resp.clase # "exito", NEW x \in c.arca, x.op = q.id
      PROVE  FALSE
    <2>1. autorizados = {}
        BY <1>1, <1>2 DEF ResultadoDeIntentos
    <2>2. ~ \E i \in c.f.intentos : i.op = x.op /\ i.estado = "autorizado"
        BY <2>1, <1>2 DEF IntentosDe
    <2>3. PICK o \in Id(c.f.operaciones, x.op) : o.resp.clase = "exito"
        BY <2>2, AutorizadaEnIntento
    <2>4. o = q
        BY <1>2, UnaPorId
    <2>. QED
        BY <2>3, <2>4, <1>2
<1>3. ASSUME q.resp.clase = "exito"
      PROVE  \/ sinHistoria
             \/ /\ Cardinality(autorizados) = 1
                /\ \A i \in autorizados : i.hecho = q.resp.hecho
    BY <1>1, <1>3, <1>2 DEF ResultadoDeIntentos
<1>4. ASSUME q.resp.clase = "exito", NEW x \in c.arca, x.op = q.id
      PROVE  x.hecho = q.resp.hecho
    <2>1. CASE \E i \in c.f.intentos :
                  i.op = x.op /\ i.hecho = x.hecho /\ i.estado = "autorizado"
        <3>1. PICK i \in c.f.intentos :
                 i.op = x.op /\ i.hecho = x.hecho /\ i.estado = "autorizado"
            BY <2>1
        <3>2. i \in IntentosDe(c.f, q) /\ i \in autorizados
            BY <3>1, <1>4 DEF IntentosDe
        <3>. QED
            BY <3>1, <3>2, <1>3, <1>4
    <2>2. CASE \E o \in Id(c.f.operaciones, x.op) :
                  o.resp.clase = "exito" /\ o.resp.hecho = x.hecho
        BY <2>2, <1>4, UnaPorId
    <2>. QED
        BY <2>1, <2>2, AutorizadaEnIntento
<1>5. ASSUME q.resp.clase = "exito"
      PROVE  \E x \in c.arca : x.op = q.id /\ x.hecho = q.resp.hecho
    <2>1. CASE IntentosDe(c.f, q) = {}
        BY <2>1, <1>5 DEF Historica
    <2>2. CASE IntentosDe(c.f, q) # {}
        <3>1. Cardinality(autorizados) = 1 /\ \A i \in autorizados : i.hecho = q.resp.hecho
            BY <1>3, <1>5, <2>2
        <3>2. autorizados # {}
            BY <3>1, FS_EmptySet
        <3>3. PICK i \in autorizados : TRUE
            BY <3>2
        <3>4. i \in c.f.intentos /\ i.op = q.id /\ i.estado = "autorizado"
            BY <3>3 DEF IntentosDe
        <3>. QED
            BY <3>1, <3>3, <3>4 DEF Historica
    <2>. QED
        BY <2>1, <2>2
<1>. QED
    BY <1>2, <1>4, <1>5

\* Over sources whose rows are what the emission left, wherever it was stopped, what the
\* package says of each voucher is what ARCA knows.
THEOREM PaqueteDeHistoriaFiel ==
    ASSUME \A c \in Casos : Historica(c)
    PROVE  Spec => []ExportacionFiel
<1>1. ExportacionInv => PaqueteFiel
    <2>. SUFFICES ASSUME ExportacionInv, paquete # Ninguno
                  PROVE  /\ \A x \in caso.arca : \E c \in paquete.tablas.comprobantes :
                               c.estado = "autorizado" /\ c.hecho = x.hecho
                         /\ \A o \in paquete.tablas.operaciones :
                               o.tipo = "individual" =>
                                 {x.hecho : x \in {y \in caso.arca : y.op = o.id}}
                                   = IF o.resp.clase = "exito" THEN {o.resp.hecho} ELSE {}
        BY DEF PaqueteFiel
    <2>1. /\ caso \in Casos /\ Exportable(caso.f) /\ paquete.tablas = Tablas(caso.f)
          /\ Historica(caso) /\ Esquema(caso.f)
        BY CasosAssumption DEF ExportacionInv
    <2>2. \A x \in caso.arca : \E c \in paquete.tablas.comprobantes :
             c.estado = "autorizado" /\ c.hecho = x.hecho
        BY <2>1, ReciboDeLaAutorizada, TablasIguales
    <2>3. ASSUME NEW o \in paquete.tablas.operaciones, o.tipo = "individual"
          PROVE  {x.hecho : x \in {y \in caso.arca : y.op = o.id}}
                   = IF o.resp.clase = "exito" THEN {o.resp.hecho} ELSE {}
        <3>1. PICK q \in caso.f.operaciones : o.id = q.id /\ o.tipo = q.tipo /\ o.resp = q.resp
            BY <2>1, <2>3, OperacionDelPaquete
        <3>2. {x.hecho : x \in {y \in caso.arca : y.op = q.id}}
                = IF q.resp.clase = "exito" THEN {q.resp.hecho} ELSE {}
            BY <3>1, <2>1, <2>3, ExitoDeLaAutorizada
        <3>. QED
            BY <3>1, <3>2
    <2>. QED
        BY <2>2, <2>3
<1>. QED
    BY <1>1, ExportacionInductiva, EnteroDesdeInv, PTL DEF ExportacionFiel
=============================================================================
