--------------------------- MODULE VpsExportacion ---------------------------
(* vps_migration.py export: from a stopped SQLite source to a published       *)
(* package, and what that package is worth once it is restored elsewhere and  *)
(* the clients of the old installation repeat their keys against the new one. *)
(* The restoration itself is one step here; VpsImportacion details it.        *)
EXTENDS VpsGrafo

CONSTANTS
    Casos,         \* source databases: [f, arca, terminal]
    Materiales,    \* what the files of the active certificates may be like
    Ninguno,       \* no package, no target
    MaxExportes,   \* bound on exports
    MaxReenvios    \* bound on keys repeated against the target

\* Rows as the tables hold them, and at most one authorisation of each operation and
\* group: what the emission and the lotes keep, wherever they are stopped
ASSUME CasosAssumption ==
    \A c \in Casos :
        /\ Esquema(c.f)
        /\ \A x, y \in c.arca : x.op = y.op /\ x.grupo = y.grupo => x = y

ASSUME CotasAssumption == MaxExportes \in Nat /\ MaxReenvios \in Nat

VARIABLES
    caso,        \* the source: its rows, what ARCA authorised, whether all ended
    material,    \* files of the active certificates
    exp,         \* [pc, n]: the step of the export and how many were started
    staging,     \* members written in the private directory of the export
    paquete,     \* the published package or Ninguno
    verificado,  \* whether the importer has verified the package
    destino,     \* rows of the restored target or Ninguno
    arca,        \* authorisations at ARCA: [op, grupo, hecho]
    reenvios     \* keys repeated so far

vars == <<caso, material, exp, staging, paquete, verificado, destino, arca, reenvios>>

Miembros == {"data", "certs", "manifest"}

Init ==
    /\ caso \in Casos /\ material \in Materiales
    /\ exp = [pc |-> "inicio", n |-> 0]
    /\ staging = {} /\ paquete = Ninguno /\ verificado = FALSE /\ destino = Ninguno
    /\ arca = caso.arca /\ reenvios = 0

Ir(pc) == exp' = [exp EXCEPT !.pc = pc]

resto == <<caso, material, verificado, destino, arca, reenvios>>

\* The operator declares the source stopped; the private directory is made
Iniciar ==
    /\ exp.pc \in {"inicio", "error", "sucio", "muerto"} /\ exp.n < MaxExportes
    /\ paquete = Ninguno
    /\ exp' = [pc |-> "preflight", n |-> exp.n + 1]
    /\ staging' = {}
    /\ UNCHANGED <<paquete, resto>>

\* Mutant of Abandonar: what was written stays
AbandonarSinLimpiar == Ir("error") /\ UNCHANGED staging

\* except BaseException: the private directory goes, whoever raised; shutil.rmtree
\* may raise in its turn and leave what it had not yet removed
Abandonar ==
    \/ Ir("error") /\ staging' = {}
    \/ Ir("sucio") /\ staging' \in SUBSET staging

\* Under BEGIN IMMEDIATE: structure, ledger, omissions, files of certificates
Preflight ==
    /\ exp.pc = "preflight"
    /\ IF Exportable(caso.f) /\ material # "sin_archivo"
       THEN Ir("certificados") /\ UNCHANGED staging
       ELSE Abandonar
    /\ UNCHANGED <<paquete, resto>>

\* export_active_certificate_files: names collide or the pair does not verify
\* before anything is copied; keys are encrypted again for the target
Certificados ==
    /\ exp.pc = "certificados"
    /\ IF material = "valido"
       THEN Ir("tablas") /\ staging' = staging \cup {"certs"}
       ELSE Abandonar
    /\ UNCHANGED <<paquete, resto>>

\* The rows of the included tables, still in the same snapshot
EscribirTablas ==
    /\ exp.pc = "tablas"
    /\ Ir("manifiesto") /\ staging' = staging \cup {"data"}
    /\ UNCHANGED <<paquete, resto>>

EscribirManifiesto ==
    /\ exp.pc = "manifiesto"
    /\ Ir("publicar") /\ staging' = staging \cup {"manifest"}
    /\ UNCHANGED <<paquete, resto>>

Publicable == exp.pc = "publicar"

\* staging_dir.rename(package_dir)
Publicar ==
    /\ Publicable
    /\ paquete' = [tablas |-> Tablas(caso.f), miembros |-> staging, intacto |-> TRUE]
    /\ Ir("fin") /\ staging' = {}
    /\ UNCHANGED resto

EnCurso == exp.pc \in {"preflight", "certificados", "tablas", "manifiesto", "publicar"}

\* A full disk, a locked database, Ctrl-C
Interrumpir == EnCurso /\ Abandonar /\ UNCHANGED <<paquete, resto>>

\* The process is killed: nothing of it runs any more
Matar == EnCurso /\ Ir("muerto") /\ UNCHANGED <<staging, paquete, resto>>

\* A member of the package is damaged, on its way or while it is imported
Danar ==
    /\ paquete # Ninguno /\ paquete.intacto /\ destino = Ninguno
    /\ paquete' = [paquete EXCEPT !.intacto = FALSE]
    /\ UNCHANGED <<exp, staging, resto>>

\* What load_and_verify_manifest asks of the members before it reads what they say:
\* exact shapes and paths, sizes, counts and digests
ManifiestoIntegro == "manifest" \in paquete.miembros
DatosIntegros == "data" \in paquete.miembros /\ paquete.intacto
CertificadosIntegros == "certs" \in paquete.miembros /\ paquete.intacto

VerificarPaquete ==
    /\ paquete # Ninguno /\ destino = Ninguno /\ ~verificado
    /\ ManifiestoIntegro /\ DatosIntegros /\ CertificadosIntegros
    /\ Acepta(paquete.tablas)
    /\ verificado' = TRUE
    /\ UNCHANGED <<caso, material, exp, staging, paquete, destino, arca, reenvios>>

\* Mutant of Releible: what was verified a moment ago is not looked at again
ReleibleSinDigest == TRUE

\* read_package_rows: each table from one read, against the digest verified before
Releible == paquete.intacto

\* A damaged member that is read all the same: what it held is lost
Leidas == IF paquete.intacto THEN paquete.tablas
          ELSE [paquete.tablas EXCEPT !.operaciones = {}, !.pares = {}, !.asociaciones = {}]

\* import_package and validate_import end well and the target is started
Restaurar ==
    /\ verificado /\ destino = Ninguno
    /\ Releible /\ Importada(Leidas)
    /\ destino' = Leidas
    /\ UNCHANGED <<caso, material, exp, staging, paquete, verificado, arca, reenvios>>

\* Numbers of point p that ARCA has given
Usados(p) == {x.hecho.numero : x \in {y \in arca : y.hecho.punto = p}}

\* A client repeats against the target the key of an individual operation of the
\* source: found there, the operation answers or is refused (a migrated success has
\* no attempts and gets a 409); without it ARCA is asked again
Reenviar(o) ==
    /\ destino # Ninguno /\ reenvios < MaxReenvios /\ o.tipo = "individual"
    /\ arca' = IF Id(destino.operaciones, o.id) # {} THEN arca
               ELSE arca \cup {[op |-> o.id, grupo |-> 0,
                                hecho |-> [punto |-> 1, numero |-> Cardinality(Usados(1)) + 1]]}
    /\ reenvios' = reenvios + 1
    /\ UNCHANGED <<caso, material, exp, staging, paquete, verificado, destino>>

Exportar == Iniciar \/ Preflight \/ Certificados \/ EscribirTablas
              \/ EscribirManifiesto \/ Publicar \/ Interrumpir \/ Matar

Next == \/ Exportar \/ Danar \/ VerificarPaquete \/ Restaurar
        \/ \E o \in caso.f.operaciones : Reenviar(o)

Spec == Init /\ [][Next]_vars

----------------------------------------------------------------------------
(* Properties.                                                              *)

TypeOK ==
    /\ exp.pc \in {"inicio", "preflight", "certificados", "tablas", "manifiesto",
                   "publicar", "fin", "error", "sucio", "muerto"}
    /\ exp.n \in 0..MaxExportes /\ reenvios \in 0..MaxReenvios
    /\ staging \subseteq Miembros /\ material \in Materiales /\ verificado \in BOOLEAN
    /\ paquete # Ninguno => /\ paquete.miembros \subseteq Miembros /\ paquete.intacto \in BOOLEAN
                            /\ \A o \in paquete.tablas.operaciones : o.lote = 0

\* A published package tells of each voucher exactly what ARCA knows: whatever ARCA
\* authorised is an authorised voucher in it, and an individual operation in it is
\* a success if and only if ARCA authorised it, with that identity.  The source may
\* have been stopped anywhere, and one of its rows may be altered or missing
PaqueteFiel ==
    paquete # Ninguno =>
        /\ \A x \in caso.arca : \E c \in paquete.tablas.comprobantes :
              c.estado = "autorizado" /\ c.hecho = x.hecho
        /\ \A o \in paquete.tablas.operaciones :
              o.tipo = "individual" =>
                 {x.hecho : x \in {y \in caso.arca : y.op = o.id}}
                   = IF o.resp.clase = "exito" THEN {o.resp.hecho} ELSE {}

\* No key of the source gets a second authorisation out of the target
UnaSolaAutorizacion ==
    \A x, y \in arca : x.op = y.op /\ x.grupo = y.grupo => x = y

\* What the target holds is what the source held, though the package may change between
\* its verification and the moment its rows are read
RestauracionFiel == destino # Ninguno => destino = Tablas(caso.f)

\* A package is visible only when it is whole, and an export that ended, wherever it
\* failed, leaves no copy of the keys outside of it, unless the removal of the private
\* directory failed too or the process was killed
SinPaqueteParcial ==
    /\ paquete # Ninguno => paquete.miembros = Miembros
    /\ exp.pc \in {"fin", "error"} => staging = {}

\* An export ends with a whole and faithful package, or with nothing it could remove
ExportacionFiel == TypeOK /\ PaqueteFiel /\ SinPaqueteParcial

\* What the exporter lets through the importer accepts, whatever was altered in the
\* source: the predicates of both sides are written twice in the code
PaqueteImportable ==
    paquete # Ninguno /\ RechazosConEstado(caso.f) => Importada(paquete.tablas)

\* A source whose operations all ended and whose rows agree is never refused by the
\* exporter, nor its package by the importer: the checks do not lock an installation in
TerminalMigrable ==
    /\ caso.terminal => Exportable(caso.f) /\ RechazosConEstado(caso.f)
    /\ PaqueteImportable

\* What ARCA authorised and what the tables say when none of their rows was touched: an
\* attempt is open or authorised where ARCA has it, and authorised only there; before
\* there were attempts the answer of the operation says it
Historica(c) ==
    /\ \A x \in c.arca :
          \/ \E i \in c.f.intentos :
                /\ i.op = x.op /\ i.hecho = x.hecho
                /\ i.estado \in {"autorizado", "en_proceso", "requiere_reconciliacion"}
          \/ \E o \in Id(c.f.operaciones, x.op) :
                /\ o.tipo = "individual" /\ IntentosDe(c.f, o) = {}
                /\ o.resp.clase = "exito" /\ o.resp.hecho = x.hecho
    /\ \A i \in c.f.intentos :
          i.estado = "autorizado" => \E x \in c.arca : x.op = i.op /\ x.hecho = i.hecho
    /\ \A o \in c.f.operaciones :
          o.tipo = "individual" /\ o.resp.clase = "exito" /\ IntentosDe(c.f, o) = {}
              => \E x \in c.arca : x.op = o.id /\ x.hecho = o.resp.hecho
=============================================================================
