------------------------------ MODULE VpsGrafo ------------------------------
(* What vps_migration.py reads, omits, packs and checks again: the fiscal    *)
(* rows of the SQLite source as sets of records, the predicates that block   *)
(* an export, the package, and the predicates by which the importer accepts. *)
(*                                                                           *)
(* A row keeps what those predicates compare.  `hecho' stands for the fiscal *)
(* identity of a voucher (company, point, type, number, date, total, CAE),   *)
(* `resp' for the stored response: its class and the identity it reports.    *)
EXTENDS Naturals, FiniteSets, FiniteSetsExt

----------------------------------------------------------------------------
(* Constants of the module.                                                 *)

OperacionTerminal == {"finalizado", "fallido", "fallido_verificado", "rechazado_arca"}
IntentoTerminal   == {"autorizado", "fallido_verificado", "rechazado_arca"}
GuardaTerminal    == {"cerrada_pre_arca", "cerrada_terminal"}

LoteOmitible  == {"cargado", "validado", "con_errores", "completado", "fallido",
                  "autorizado_parcial", "cerrado_con_descartes", "cerrado_reconciliado"}
GrupoOmitible == {"cargado", "validado", "con_error", "autorizado",
                  "autorizado_externo", "fallido", "descartado"}

AmbientesRece == {"homologacion", "produccion"}

\* Tipos of the operations of a lote
DeLote == {"procesar", "reintentar"}

Id(tabla, x) == {r \in tabla : r.id = x}

AsociacionesDe(f, o) == {a \in f.asociaciones : a.op = o.id}
IntentosDe(f, o)     == {i \in f.intentos : i.op = o.id}
GuardasDe(f, o)      == {g \in f.guardas : g.op = o.id}

\* Voucher x of table comprobantes is an authorised one and says h
ReciboDe(tabla, x, h) ==
    \E c \in Id(tabla, x) : c.estado = "autorizado" /\ c.hecho = h

\* What the tables hold whatever was done to their rows: the columns of an operation,
\* its primary key, and no lote with the identifier that stands for none
Esquema(f) ==
    /\ \A o \in f.operaciones :
          /\ o = [id |-> o.id, tipo |-> o.tipo, estado |-> o.estado, resp |-> o.resp,
                  rece |-> o.rece, lote |-> o.lote]
          /\ Id(f.operaciones, o.id) = {o}
    /\ Id(f.lotes, 0) = {}

----------------------------------------------------------------------------
(* The RECE ledger: two heads per point, revisions 1..n without holes, their *)
(* fiscal revisions never go back, the head is the last one.                 *)

CadenaDe(f, p, a) == {r \in f.revisiones : r.punto = p /\ r.ambiente = a}

LedgerValido(f) ==
    /\ Cardinality(f.cabezas) = 2 * Cardinality(f.puntos)
    /\ \A r \in f.revisiones : Id(f.puntos, r.punto) # {} /\ r.ambiente \in AmbientesRece
    /\ \A p \in f.puntos, a \in AmbientesRece :
          LET cadena == CadenaDe(f, p.id, a)
              n == Cardinality(cadena) IN
          /\ \E h \in f.cabezas : /\ h.punto = p.id /\ h.ambiente = a
                                  /\ h.revision = n
          /\ n > 0
          /\ {r.revision : r \in cadena} = 1..n
          /\ \A r, s \in cadena : r.revision <= s.revision => r.fiscal <= s.fiscal
          /\ \A r \in cadena : r.fiscal > 0 /\ r.fiscal <= p.fiscal

----------------------------------------------------------------------------
(* Terminal operations.                                                     *)

RespuestaIndividual(o) ==
    /\ o.lote = 0
    /\ o.resp.clase \notin {"nula", "incierta"}
    /\ IF o.resp.clase = "exito"
       THEN o.estado = "finalizado" /\ o.resp.comp > 0
       ELSE /\ o.estado \in OperacionTerminal \ {"finalizado"}
            /\ o.resp.comp = 0 /\ o.resp.clase # "pendiente"

\* What both sides accept as the result of a lote: 10005 only under its state
ResultadoDeLote(o) ==
    /\ o.resp.clase \in {"lote", "legacy", "global"}
    /\ IF o.resp.clase = "global" THEN o.estado = "rechazado_arca"
                                  ELSE o.estado \in {"finalizado", "fallido"}
    /\ o.resp.estadoLote \in LoteOmitible

ErrorDeLote(o) ==
    /\ o.resp.clase = "error"
    /\ o.estado \in OperacionTerminal \ {"finalizado", "rechazado_arca"}

RespuestaLote(f, o) ==
    /\ \E l \in Id(f.lotes, o.lote) : l.estado \in LoteOmitible
    /\ ErrorDeLote(o) \/ (ResultadoDeLote(o) /\ o.resp.lote = o.lote)

\* terminal_operation_response_is_valid, terminal_batch_response_matches_db
RespuestaValida(f, o) ==
    IF o.tipo \in DeLote THEN RespuestaLote(f, o)
    ELSE o.tipo = "individual" /\ RespuestaIndividual(o)

\* Mutant of ExitoConRecibo: the row is there, its identity is not compared
ExitoConAlgunRecibo(f, o) ==
    o.tipo = "individual" /\ o.resp.clase = "exito" => Id(f.comprobantes, o.resp.comp) # {}

\* terminal_individual_success_matches_db
ExitoConRecibo(f, o) ==
    o.tipo = "individual" /\ o.resp.clase = "exito"
        => ReciboDe(f.comprobantes, o.resp.comp, o.resp.hecho)

OperacionesSeguras(f) ==
    \A o \in f.operaciones :
        o.estado \in OperacionTerminal /\ RespuestaValida(f, o) /\ ExitoConRecibo(f, o)

\* Ownership of each association and the digest the operation was stamped
\* with: rece holds the points it was taken of, none when it is NULL
AsociacionesSeguras(f) ==
    /\ \A a \in f.asociaciones : a.valida /\ Id(f.operaciones, a.op) # {}
    /\ \A o \in f.operaciones :
          IF o.rece = {} THEN AsociacionesDe(f, o) = {}
          ELSE /\ AsociacionesDe(f, o) # {}
               /\ {a.punto : a \in AsociacionesDe(f, o)} = o.rece

\* individual_association_matches_response
AsociacionIndividual(f, o) ==
    o.tipo = "individual" =>
        /\ Cardinality(AsociacionesDe(f, o)) = IF o.rece = {} THEN 0 ELSE 1
        /\ \A a \in AsociacionesDe(f, o) : a.punto = o.resp.hecho.punto

\* individual_operation_result_matches_attempts
ResultadoDeIntentos(f, o) ==
    LET autorizados == {i \in IntentosDe(f, o) : i.estado = "autorizado"}
        sinHistoria == o.rece = {} /\ IntentosDe(f, o) = {} /\ GuardasDe(f, o) = {} IN
    o.tipo = "individual" =>
        IF o.resp.clase # "exito" THEN autorizados = {}
        ELSE \/ sinHistoria
             \/ /\ Cardinality(autorizados) = 1
                /\ \A i \in autorizados :
                      /\ i.comp = o.resp.comp /\ i.hecho = o.resp.hecho
                      /\ o.rece # {} =>
                            \E g \in Id(f.guardas, i.guarda) : g.fase = "cerrada_terminal"

----------------------------------------------------------------------------
(* Attempts, guards and the legacy journal, which stay behind.              *)

\* pf19c_global_rejection_matches_operation
RechazoGlobalCoincide(f, i) ==
    \E o \in Id(f.operaciones, i.op) :
        /\ o.estado \in OperacionTerminal /\ RespuestaValida(f, o)
        /\ o.resp.clase = "global"
        /\ IF o.tipo \in DeLote
           THEN o.estado = "rechazado_arca" /\ i.grupo \in o.resp.rech
           ELSE o.resp.hecho = i.hecho

IntentosSeguros(f) ==
    \A i \in f.intentos :
        /\ i.estado \in IntentoTerminal
        /\ i.estado = "autorizado" => ReciboDe(f.comprobantes, i.comp, i.hecho)
        /\ i.estado # "autorizado" => i.comp = 0
        /\ i.estado = "rechazado_arca" /\ i.cat = "global" => RechazoGlobalCoincide(f, i)

\* The phase, its two times and the attempts under the guard agree
GuardaCoherente(f, g) ==
    LET suyos == {i \in f.intentos : i.guarda = g.id} IN
    /\ g.fase \in GuardaTerminal
    /\ g.cerrada /\ g.iniciada = (g.fase = "cerrada_terminal")
    /\ suyos # {} /\ \A i \in suyos : i.op = g.op
    /\ IF g.fase = "cerrada_pre_arca"
       THEN \A i \in suyos : i.estado = "fallido_verificado"
       ELSE \A i \in suyos : i.estado \in {"autorizado", "rechazado_arca"}

GuardasSeguras(f) ==
    /\ \A g \in f.guardas : GuardaCoherente(f, g)
    /\ \A i \in f.intentos : i.guarda # 0 => Id(f.guardas, i.guarda) # {}

\* journal_legacy_pf19_is_coherent: one legacy candidate closed without
\* authorisation, its operation still answers what was signed, and a lote is
\* still the one that answer shows
JournalCoherente(f, j) ==
    \E i \in Id(f.intentos, j.intento) : \E o \in Id(f.operaciones, i.op) :
        /\ j.exacto
        /\ i.estado = "fallido_verificado" /\ i.cat = "legacy"
        /\ o.estado \in OperacionTerminal /\ RespuestaValida(f, o)
        /\ o.resp = j.resp /\ o.resp.clase = "legacy"
        /\ IF o.tipo \in DeLote
           THEN /\ o.estado = "finalizado" /\ o.resp.estadoLote = "fallido"
                /\ \A l \in Id(f.lotes, o.lote) : l.estado = o.resp.estadoLote
                /\ \E g \in Id(f.grupos, i.grupo) : g.lote = o.lote /\ g.estado = "fallido"
           ELSE o.estado = "fallido_verificado" /\ o.resp.hecho = i.hecho

JournalsSeguros(f) == \A j \in f.journals : JournalCoherente(f, j)

----------------------------------------------------------------------------
(* Lotes, groups and rows, which stay behind too.                           *)

LotesSeguros(f) == \A l \in f.lotes : l.estado \in LoteOmitible

\* An authorised group is backed by its voucher, any other carries no evidence
GrupoSeguro(f, g) ==
    /\ g.estado \in GrupoOmitible
    /\ IF g.estado \in {"autorizado", "autorizado_externo"}
       THEN ReciboDe(f.comprobantes, g.comp, g.hecho) ELSE g.comp = 0

GruposSeguros(f) == \A g \in f.grupos : GrupoSeguro(f, g)

FilasSeguras(f) == \A r \in f.filas : \E g \in Id(f.grupos, r.grupo) : r.estado = g.estado

\* grupo_pf19c_conserva_historia_terminal: rejected as it was, or authorised
\* later by exactly one attempt of a later operation of the lote
ConservaHistoria(f, x, o) ==
    \E g \in Id(f.grupos, x) :
        /\ g.lote = o.lote
        /\ \/ g.estado = "fallido"
           \/ /\ g.estado = "autorizado"
              /\ Cardinality({i \in f.intentos :
                     /\ i.grupo = x /\ i.estado = "autorizado" /\ i.comp > 0
                     /\ i.op > o.id
                     /\ \E s \in Id(f.operaciones, i.op) :
                           /\ s.tipo \in DeLote /\ s.lote = o.lote
                           /\ s.estado = "finalizado" /\ RespuestaValida(f, s)}) = 1

\* Each lote operation rejected with 10005: its groups, its attempts, no more
GrafoGlobalSeguro(f) ==
    \A o \in f.operaciones :
        o.tipo \in DeLote /\ (o.estado = "rechazado_arca" \/ o.resp.clase = "global") =>
            /\ o.resp.clase = "global" /\ o.lote # 0
            /\ {i.grupo : i \in {x \in IntentosDe(f, o) :
                                   x.estado = "rechazado_arca" /\ x.cat = "global"}} = o.resp.rech
            /\ \A r \in o.resp.rech : Cardinality({i \in IntentosDe(f, o) : i.grupo = r}) = 1
            /\ \A i \in IntentosDe(f, o) : i.grupo \notin o.resp.noenv
            /\ \A x \in o.resp.rech \cup o.resp.noenv : ConservaHistoria(f, x, o)

\* PRAGMA foreign_key_check
ReferenciasValidas(f) ==
    /\ \A o \in f.operaciones : o.lote # 0 => Id(f.lotes, o.lote) # {}
    /\ \A a \in f.asociaciones : Id(f.operaciones, a.op) # {} /\ Id(f.puntos, a.punto) # {}
    /\ \A r \in f.revisiones \cup f.cabezas : Id(f.puntos, r.punto) # {}
    /\ \A i \in f.intentos : /\ Id(f.operaciones, i.op) # {}
                             /\ i.comp # 0 => Id(f.comprobantes, i.comp) # {}
                             /\ i.guarda # 0 => Id(f.guardas, i.guarda) # {}
    /\ \A g \in f.guardas : Id(f.operaciones, g.op) # {}
    /\ \A g \in f.grupos : /\ Id(f.lotes, g.lote) # {}
                           /\ g.comp # 0 => Id(f.comprobantes, g.comp) # {}
    /\ \A r \in f.filas : Id(f.grupos, r.grupo) # {}

\* run_preflight_on_connection without the certificate files: classify_safe_omissions
\* finds nothing to block
Omitible(f) ==
    /\ OperacionesSeguras(f) /\ AsociacionesSeguras(f)
    /\ \A o \in f.operaciones : AsociacionIndividual(f, o) /\ ResultadoDeIntentos(f, o)
    /\ IntentosSeguros(f) /\ JournalsSeguros(f) /\ GuardasSeguras(f)
    /\ LotesSeguros(f) /\ GruposSeguros(f) /\ FilasSeguras(f) /\ GrafoGlobalSeguro(f)

Exportable(f) == ReferenciasValidas(f) /\ LedgerValido(f) /\ Omitible(f)

----------------------------------------------------------------------------
(* The package.                                                             *)

\* normalize_operation_rows: the lote goes, what it was stays in the pairs
Par(f, o) ==
    [op |-> o.id, lote |-> o.lote,
     grupos |-> {g.id : g \in {x \in f.grupos : x.lote = o.lote}},
     rech |-> IF o.resp.clase = "global" THEN o.resp.rech ELSE {},
     noenv |-> IF o.resp.clase = "global" THEN o.resp.noenv ELSE {}]

\* Mutant of Normalizada: the lote of the operation stays in the row
SinNormalizar(o) == o

Normalizada(o) == [o EXCEPT !.lote = 0]

\* Mutant of Tablas: only the operations stamped with a RECE digest travel
TablasConHuella(f) ==
    [operaciones |-> {Normalizada(o) : o \in {x \in f.operaciones : x.rece # {}}},
     pares |-> {Par(f, o) : o \in {x \in f.operaciones : x.lote # 0 /\ x.rece # {}}},
     asociaciones |-> f.asociaciones, comprobantes |-> f.comprobantes,
     puntos |-> f.puntos, revisiones |-> f.revisiones, cabezas |-> f.cabezas]

\* The rows of the included tables, with their pairs
Tablas(f) ==
    [operaciones |-> {Normalizada(o) : o \in f.operaciones},
     pares |-> {Par(f, o) : o \in {x \in f.operaciones : x.lote # 0}},
     asociaciones |-> f.asociaciones, comprobantes |-> f.comprobantes,
     puntos |-> f.puntos, revisiones |-> f.revisiones, cabezas |-> f.cabezas]

----------------------------------------------------------------------------
(* What the importer verifies again, over the rows of the package alone.    *)

\* An individual 10005 is stored with its state.  The importer refuses one that is not;
\* the exporter asks it of the operations of a lote only
RechazosConEstado(f) ==
    \A o \in f.operaciones :
        o.tipo = "individual" /\ o.resp.clase = "global" => o.estado = "rechazado_arca"

\* _validate_normalization_pairs, _validate_operation_lote_normalization
NormalizacionValida(t) ==
    /\ {p.op : p \in t.pares} = {o.id : o \in {x \in t.operaciones : x.tipo \in DeLote}}
    /\ \A p \in t.pares :
          /\ p.rech \cap p.noenv = {} /\ p.rech \cup p.noenv \subseteq p.grupos
          /\ \A o \in Id(t.operaciones, p.op) :
                /\ o.lote = 0
                /\ IF o.resp.clase = "global"
                   THEN o.resp.rech = p.rech /\ o.resp.noenv = p.noenv
                   ELSE p.rech = {} /\ p.noenv = {}
                /\ o.resp.clase \in {"lote", "legacy", "global"} => o.resp.lote = p.lote

\* _validate_packaged_terminal_operations
OperacionEmpaquetada(t, o) ==
    /\ o.tipo \in DeLote \cup {"individual"}
    /\ o.estado \in OperacionTerminal /\ o.lote = 0
    /\ IF o.tipo = "individual"
       THEN /\ RespuestaIndividual(o)
            /\ o.resp.clase = "exito" => ReciboDe(t.comprobantes, o.resp.comp, o.resp.hecho)
            /\ o.resp.clase = "global" => o.estado = "rechazado_arca"
       ELSE /\ \E p \in t.pares : p.op = o.id
            /\ ErrorDeLote(o) \/ ResultadoDeLote(o)

\* Written again over rows of JSONL, with the same content
AsociacionesEmpaquetadas(t) == AsociacionesSeguras(t)
LedgerImportado(t) == LedgerValido(t)

\* _validate_packaged_foreign_keys: between included tables
ReferenciasEmpaquetadas(t) ==
    /\ \A a \in t.asociaciones : Id(t.operaciones, a.op) # {} /\ Id(t.puntos, a.punto) # {}
    /\ \A r \in t.revisiones \cup t.cabezas : Id(t.puntos, r.punto) # {}

\* load_and_verify_manifest once shapes, paths, counts and hashes agree
Acepta(t) ==
    /\ NormalizacionValida(t)
    /\ ReferenciasEmpaquetadas(t) /\ AsociacionesEmpaquetadas(t)
    /\ \A o \in t.operaciones : OperacionEmpaquetada(t, o) /\ AsociacionIndividual(t, o)

\* validate_imported_database: the rows in PostgreSQL are those of the package
Importada(t) == Acepta(t) /\ LedgerImportado(t)
=============================================================================
