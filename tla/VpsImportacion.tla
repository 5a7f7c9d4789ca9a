--------------------------- MODULE VpsImportacion ---------------------------
(* vps_migration.py import and validate: a verified package restored over a   *)
(* PostgreSQL target and a certificate directory, by operators that may run   *)
(* the command twice, interrupt it, kill it or repeat it, while somebody else *)
(* touches the directory and the application may already write the database.  *)
(*                                                                           *)
(* The database is one transaction under LOCK TABLE; the directory is not:   *)
(* the journal of the run says which files a failed run has to take away.    *)
EXTENDS Naturals, FiniteSets

CONSTANTS
    Importadores,  \* processes of the import command
    Archivos,      \* certificate files of the package: 1..n, in manifest order
    Ninguno,       \* no file, nobody
    MaxCorridas,   \* bound on the runs of each process
    MaxExternos    \* bound on what others do to the directory

ASSUME ArchivosAssumption == Archivos \subseteq Nat /\ IsFiniteSet(Archivos)

VARIABLES
    base,        \* committed rows of the target
    candado,     \* process that holds the table locks, or Ninguno
    disco,       \* final name -> Ninguno or [sha, de, tras]
    temporales,  \* hidden temporary files: the runs that left one
    imp,         \* process -> its run
    externos,    \* changes of the directory by others
    tocados,     \* final names others changed
    deAUno       \* whether the operators run one import at a time

vars == <<base, candado, disco, temporales, imp, externos, tocados, deAUno>>

\* The author of a file no run created
AJENO == <<Ninguno, 0>>
Corridas == {<<i, n>> : i \in Importadores, n \in 1..MaxCorridas}
Contenidos == {"paquete", "parcial", "otro"}

\* A certificate file: what it holds, which run created it, and the runs that had
\* already entered its name in their journal when it was put there
Ficheros == [sha : Contenidos, de : Corridas \cup {AJENO}, tras : SUBSET Corridas]

ASSUME NingunoAssumption ==
    /\ Ninguno \notin Importadores /\ Ninguno \notin Ficheros
    /\ MaxCorridas \in Nat /\ MaxExternos \in Nat

Corrida(i) == <<i, imp[i].n>>

Terminales == {"inicio", "ok", "rechazado", "limpio", "incompleto", "incierto", "muerto"}
\* The body of the transaction is not completed
EnCuerpo == {"comprobar", "archivos", "copiando", "compensar", "cargar", "verificar"}
Pasos == Terminales \cup EnCuerpo \cup {"planificado", "commit", "limpiar"}

NuevaCorrida == [pc |-> "inicio", n |-> 0, existian |-> {}, hechos |-> {}, creados |-> {},
                 quedan |-> {}]

Init ==
    /\ base \in {"semilla", "ajena"} /\ candado = Ninguno
    /\ disco \in [Archivos -> {Ninguno} \cup
                       [sha : {"paquete", "otro"}, de : {AJENO}, tras : {{}}]]
    /\ temporales = {}
    /\ imp = [i \in Importadores |-> NuevaCorrida]
    /\ tocados = {f \in Archivos : disco[f] # Ninguno}
    /\ externos = Cardinality(tocados) /\ externos <= MaxExternos
    /\ deAUno \in BOOLEAN

Ir(i, pc) == imp' = [imp EXCEPT ![i].pc = pc]

Igual(f) == disco[f] # Ninguno /\ disco[f].sha = "paquete"
Presentes == {f \in Archivos : disco[f] # Ninguno}

afuera == <<externos, tocados, deAUno>>

----------------------------------------------------------------------------
(* import_package                                                           *)

Corriendo(i) == imp[i].pc \notin Terminales

\* load_and_verify_manifest, plan_certificate_restore: before the lock, on the
\* directory as it is now; a different file of the same name refuses the import
Planificar(i) ==
    /\ ~Corriendo(i) /\ imp[i].n < MaxCorridas
    /\ deAUno => \A j \in Importadores : ~Corriendo(j)
    /\ imp' = [imp EXCEPT ![i] =
                 [NuevaCorrida EXCEPT !.n = imp[i].n + 1, !.existian = Presentes,
                  !.pc = IF \A f \in Presentes : Igual(f) THEN "planificado" ELSE "rechazado"]]
    /\ UNCHANGED <<base, candado, disco, temporales, afuera>>

\* lock_target_tables_for_import: waits for the other transactions
Bloquear(i) ==
    /\ imp[i].pc = "planificado" /\ candado = Ninguno
    /\ candado' = i /\ Ir(i, "comprobar")
    /\ UNCHANGED <<base, disco, temporales, afuera>>

\* Mutant of DestinoListo: the state of the target is not looked at under the lock
DestinoSinMirar == TRUE

\* ensure_target_database_ready: no operational rows and the exact Alembic seeds
DestinoListo == base = "semilla"

\* Mutant of Revertir: the connection stays in its transaction
RevertirSinSoltar(i) == Ir(i, "limpiar") /\ UNCHANGED candado

\* The body raises: engine.begin() rolls back, which releases the locks, and only
\* then the except clause cleans what the journal holds
Revertir(i) == Ir(i, "limpiar") /\ candado' = Ninguno

Comprobar(i) ==
    /\ imp[i].pc = "comprobar"
    /\ IF DestinoListo THEN Ir(i, "archivos") /\ UNCHANGED candado ELSE Revertir(i)
    /\ UNCHANGED <<base, disco, temporales, afuera>>

Primero(S) == CHOOSE f \in S : \A g \in S : f <= g
Ultimo(S)  == CHOOSE f \in S : \A g \in S : f >= g

\* The items of the plan are taken in the order of the manifest
Siguiente(i) == Primero(Archivos \ imp[i].hechos)

\* materialize_certificate_restore, one item: keep an equal file, refuse a
\* different or vanished one, else open a private temporary file
Tomar(i) ==
    /\ imp[i].pc = "archivos" /\ imp[i].hechos # Archivos
    /\ LET f == Siguiente(i) IN
       IF Igual(f) THEN
          /\ imp' = [imp EXCEPT ![i].hechos = @ \cup {f}]
          /\ UNCHANGED <<candado, temporales>>
       ELSE IF f \in imp[i].existian \/ disco[f] # Ninguno
            THEN Revertir(i) /\ UNCHANGED temporales
            ELSE /\ Ir(i, "copiando") /\ UNCHANGED candado
                 /\ temporales' = temporales \cup {Corrida(i)}
    /\ UNCHANGED <<base, disco, afuera>>

\* The runs that go on with the name f in their journal
EnDiario(f) == {Corrida(j) : j \in {k \in Importadores : Corriendo(k) /\ f \in imp[k].creados}}

Publicado(i, f) == [sha |-> "paquete", de |-> Corrida(i), tras |-> EnDiario(f)]

\* Mutant of Publicar: the file is opened at its final name and copied there
PublicarEnDestino(i) ==
    LET f == Siguiente(i) IN
    /\ disco[f] = Ninguno \/ disco[f].de = Corrida(i)
    /\ IF disco[f] = Ninguno
       THEN /\ disco' = [disco EXCEPT ![f] = [Publicado(i, f) EXCEPT !.sha = "parcial"]]
            /\ UNCHANGED <<imp, temporales>>
       ELSE /\ disco' = [disco EXCEPT ![f] = Publicado(i, f)]
            /\ imp' = [imp EXCEPT ![i].pc = "archivos", ![i].hechos = @ \cup {f},
                                  ![i].creados = @ \cup {f}]
            /\ temporales' = temporales \ {Corrida(i)}

\* os.link of the complete temporary file, the journal entry, the unlink
Publicar(i) ==
    LET f == Siguiente(i) IN
    /\ disco[f] = Ninguno
    /\ disco' = [disco EXCEPT ![f] = Publicado(i, f)]
    /\ imp' = [imp EXCEPT ![i].pc = "archivos", ![i].hechos = @ \cup {f},
                          ![i].creados = @ \cup {f}]
    /\ temporales' = temporales \ {Corrida(i)}

\* The copy verifies against the digest of the plan and the name is free
Enlazar(i) ==
    /\ imp[i].pc = "copiando" /\ Publicar(i)
    /\ UNCHANGED <<base, candado, afuera>>

\* The source changed, the disk is full, or somebody took the name: the finally
\* clause removes the temporary file, unless that fails too
CopiaFallida(i) ==
    /\ imp[i].pc = "copiando" /\ Revertir(i)
    /\ \/ temporales' = temporales \ {Corrida(i)}
       \/ UNCHANGED temporales
    /\ UNCHANGED <<base, disco, afuera>>

\* os.link, lstat or the process is interrupted before the entry is made, after the
\* link or before it: the handler enters the name and looks at it again
EnlaceInterrumpido(i) ==
    LET f == Siguiente(i) IN
    /\ imp[i].pc = "copiando"
    /\ \/ disco[f] = Ninguno /\ disco' = [disco EXCEPT ![f] = Publicado(i, f)]
       \/ UNCHANGED disco
    /\ imp' = [imp EXCEPT ![i].pc = "compensar", ![i].creados = @ \cup {f}]
    /\ UNCHANGED <<base, candado, temporales, afuera>>

\* Mutant of Reconoce: whatever has the name of a created item is taken away
ReconocePorNombre(i, f) == disco[f] # Ninguno

\* Device and inode are those the journal recorded: the file is the one the run
\* linked.  One put at the name since then may pass as well: it replaced the own
\* file between the look and the unlink, or was given the inode the run had freed
Reconoce(i, f) ==
    disco[f] # Ninguno /\ (disco[f].de = Corrida(i) \/ Corrida(i) \in disco[f].tras)

\* Mutant of SigueEnJournal: the entry goes although the unlink failed
JournalOlvidado(i, f, borrado) == imp[i].creados \ {f}

\* The entry goes when the file did, or is not the own one
SigueEnJournal(i, f, borrado) ==
    IF borrado THEN imp[i].creados \ {f} ELSE imp[i].creados

\* except BaseException of the link: the own file goes; an entry for a file of
\* somebody else goes; what cannot be looked at or unlinked stays for the cleanup.
\* Then the finally clause removes the temporary file, unless that fails too
Compensar(i) ==
    LET f == Siguiente(i) IN
    /\ imp[i].pc = "compensar"
    /\ candado' = Ninguno
    /\ \E borrado \in BOOLEAN :
          /\ \/ borrado /\ Reconoce(i, f) /\ disco' = [disco EXCEPT ![f] = Ninguno]
             \/ /\ borrado => disco[f] # Ninguno /\ disco[f].de # Corrida(i)
                /\ UNCHANGED disco
          /\ imp' = [imp EXCEPT ![i].pc = "limpiar", ![i].creados = SigueEnJournal(i, f, borrado)]
    /\ temporales' \in {temporales, temporales \ {Corrida(i)}}
    /\ UNCHANGED <<base, afuera>>

ArchivosListos(i) ==
    /\ imp[i].pc = "archivos" /\ imp[i].hechos = Archivos
    /\ Ir(i, "cargar")
    /\ UNCHANGED <<base, candado, disco, temporales, afuera>>

\* Seeds out, rows in, compared with the package, sequences: all in the transaction
Cargar(i) ==
    /\ imp[i].pc = "cargar" /\ Ir(i, "verificar")
    /\ UNCHANGED <<base, candado, disco, temporales, afuera>>

\* verify_restored_certificate_files: every file of the manifest, whoever put it there
VerificarArchivos(i) ==
    /\ imp[i].pc = "verificar"
    /\ IF \A f \in Archivos : Igual(f) THEN Ir(i, "commit") /\ UNCHANGED candado
                                       ELSE Revertir(i)
    /\ UNCHANGED <<base, disco, temporales, afuera>>

\* Any statement of the body fails, or Ctrl-C
Fallar(i) ==
    /\ imp[i].pc \in EnCuerpo \ {"copiando", "compensar"}
    /\ Revertir(i)
    /\ UNCHANGED <<base, disco, temporales, afuera>>

Confirmar(i) ==
    /\ imp[i].pc = "commit"
    /\ base' = "paquete" /\ candado' = Ninguno /\ Ir(i, "ok")
    /\ UNCHANGED <<disco, temporales, afuera>>

\* Mutant of TrasCommitPerdido: the files go as after any other failure
TrasCommitPerdidoLimpia == "limpiar"

\* transaction_body_completed: nobody knows, so the certificates stay
TrasCommitPerdido == "incierto"

\* The answer to COMMIT is lost
ConfirmarSinRespuesta(i) ==
    /\ imp[i].pc = "commit"
    /\ base' \in {base, "paquete"} /\ candado' = Ninguno
    /\ Ir(i, TrasCommitPerdido)
    /\ UNCHANGED <<disco, temporales, afuera>>

Pendientes(i) == imp[i].creados \ imp[i].quedan

\* cleanup_certificate_restore, one item: unlinked or gone already, and out of the
\* journal; or kept there, because it is not the own file or something failed
Limpiar(i) ==
    /\ imp[i].pc = "limpiar" /\ Pendientes(i) # {}
    /\ LET f == Ultimo(Pendientes(i)) IN
       \/ /\ Reconoce(i, f) \/ disco[f] = Ninguno
          /\ disco' = [disco EXCEPT ![f] = Ninguno]
          /\ imp' = [imp EXCEPT ![i].creados = @ \ {f}]
       \/ /\ imp' = [imp EXCEPT ![i].quedan = @ \cup {f}]
          /\ UNCHANGED disco
    /\ UNCHANGED <<base, candado, temporales, afuera>>

\* Temporary files of the run and the answer of the cleanup
TerminarLimpieza(i) ==
    /\ imp[i].pc = "limpiar" /\ Pendientes(i) = {}
    /\ \E t \in {temporales, temporales \ {Corrida(i)}} :
          /\ temporales' = t
          /\ Ir(i, IF imp[i].quedan = {} /\ Corrida(i) \notin t THEN "limpio" ELSE "incompleto")
    /\ UNCHANGED <<base, candado, disco, afuera>>

\* The process is killed: PostgreSQL rolls back, a COMMIT it had sent may stand
Matar(i) ==
    /\ Corriendo(i) /\ Ir(i, "muerto")
    /\ candado' = IF candado = i THEN Ninguno ELSE candado
    /\ base' \in IF imp[i].pc = "commit" THEN {base, "paquete"} ELSE {base}
    /\ UNCHANGED <<disco, temporales, afuera>>

Paso(i) ==
    \/ Bloquear(i) \/ Comprobar(i) \/ Tomar(i) \/ Enlazar(i) \/ CopiaFallida(i)
    \/ EnlaceInterrumpido(i) \/ Compensar(i) \/ ArchivosListos(i) \/ Cargar(i)
    \/ VerificarArchivos(i) \/ Fallar(i) \/ Confirmar(i) \/ ConfirmarSinRespuesta(i)
    \/ Limpiar(i) \/ TerminarLimpieza(i)

\* _validate_import_runtime, under its own lock: the rows, else the clean target,
\* then the files
Veredicto ==
    IF base \notin {"paquete", "semilla"} THEN "parcial"
    ELSE IF \E f \in Archivos : ~Igual(f) THEN "certificados"
    ELSE IF base = "paquete" THEN "valida" ELSE "reintentar"

----------------------------------------------------------------------------
(* Everything else.                                                         *)

\* SHARE ROW EXCLUSIVE on every table of the application
Escribible == candado = Ninguno

\* The application is started on the target: over the seeds, or over the package
Usar ==
    /\ Escribible
    /\ base' = IF base = "semilla" THEN "ajena" ELSE IF base = "paquete" THEN "uso" ELSE base
    /\ base' # base
    /\ UNCHANGED <<candado, disco, temporales, imp, afuera>>

\* Somebody copies a file into the directory, over another one, or removes it
Externo(f) ==
    /\ externos < MaxExternos
    /\ \E x \in {Ninguno} \cup [sha : {"paquete", "otro"}, de : {AJENO}, tras : {EnDiario(f)}] :
          x # disco[f] /\ disco' = [disco EXCEPT ![f] = x]
    /\ externos' = externos + 1 /\ tocados' = tocados \cup {f}
    /\ UNCHANGED <<base, candado, temporales, imp, deAUno>>

Next == \/ \E i \in Importadores : Planificar(i) \/ Paso(i) \/ Matar(i)
        \/ Usar
        \/ \E f \in Archivos : Externo(f)

\* A process that runs goes on; PostgreSQL grants a lock that stays free
Spec == Init /\ [][Next]_vars /\ \A i \in Importadores : WF_vars(Paso(i))

----------------------------------------------------------------------------
(* Properties.                                                              *)

TypeOK ==
    /\ base \in {"semilla", "paquete", "ajena", "uso"}
    /\ candado \in Importadores \cup {Ninguno}
    /\ disco \in [Archivos -> {Ninguno} \cup Ficheros]
    /\ temporales \subseteq Corridas
    /\ \A i \in Importadores :
          /\ imp[i].pc \in Pasos /\ imp[i].n \in 0..MaxCorridas
          /\ imp[i].quedan \subseteq imp[i].creados
          /\ imp[i].creados \cap imp[i].existian = {}
          /\ (candado = i) = (imp[i].pc \in EnCuerpo \cup {"commit"})

\* The rows of the package only ever replace the clean seeds: what the application
\* wrote in the target, before the import or between its first look and its commit,
\* is never written over, and what is restored is not restored again
SoloSobreSemilla == [][base' = "paquete" => base \in {"semilla", "paquete"}]_base

\* A step of an import takes away only what its own journal names, and of that only
\* the file it created there or one put at the name after the entry was made: what
\* somebody had there before is never removed or replaced, not by the compensation
\* of an interrupted link and not by the cleanup of a failed run.  The later file is
\* not promised: its inode may be the one the journal has, and lstat and unlink are
\* two calls (README, section 5)
AjenoIntacto ==
    [][\A f \in Archivos :
          disco[f] # Ninguno /\ disco'[f] # disco[f] /\ externos' = externos =>
             \E i \in Importadores :
                /\ f \in imp[i].creados
                /\ disco[f].de = Corrida(i) \/ Corrida(i) \in disco[f].tras]_disco

\* What others had in the target stays: their rows and their files
DestinoRespetado == SoloSobreSemilla /\ AjenoIntacto

\* A cleanup that says it is complete left nothing of its run: no file, no temporary
\* with a private key, whatever failed and whenever it was interrupted
LimpiezaVeraz ==
    \A i \in Importadores : imp[i].pc = "limpio" =>
        /\ Corrida(i) \notin temporales
        /\ \A f \in Archivos : disco[f] # Ninguno => disco[f].de # Corrida(i)

\* Whatever failed or was killed, no import leaves at a final name a file that would
\* refuse the next one
ReintentoPosible ==
    \A f \in Archivos : disco[f] # Ninguno /\ disco[f].de # AJENO => disco[f].sha = "paquete"

\* What a failed import leaves behind harms nobody
RestosInocuos == TypeOK /\ LimpiezaVeraz /\ ReintentoPosible

\* Where imports are run one at a time, a committed package has all its certificates
\* on disk, but for the names others touched: a COMMIT whose answer is lost keeps
\* them, and validate then confirms the import
DestinoCompleto ==
    deAUno /\ base = "paquete" =>
        /\ \A f \in Archivos \ tocados : Igual(f)
        /\ tocados = {} => Veredicto = "valida"

\* lock_target_tables_for_import serialises importers until the postflight is
\* confirmed: the same, however the operators run them.  The code does not keep it
\* (README, section 5)
ImportadoresSerializados ==
    base = "paquete" => \A f \in Archivos \ tocados : Igual(f)

\* An import that runs ends, and with it the locks on the target
Termina == \A i \in Importadores : Corriendo(i) ~> ~Corriendo(i)
=============================================================================
