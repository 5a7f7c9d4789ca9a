---------------------------- MODULE Certificados ----------------------------
(***************************************************************************)
(* The ARCA certificates of one issuer in one ambiente: rows in the table  *)
(* certificados, .key and .crt files under CERTS_PATH, and nothing that    *)
(* ties the two together but the order of the calls.                       *)
(*                                                                         *)
(* A private key is written when its CSR is asked for, days before any row *)
(* names it.  An upload checks that the key is there, reads the file,      *)
(* stores and validates it, then deactivates the row in force and inserts  *)
(* its own in one transaction; when anything fails it removes the .crt it  *)
(* had stored.  A deletion commits first and only then looks for the files *)
(* no other row names; the storage screen does the same for orphan files.  *)
(* Two certificates may answer the same CSR and so share the key.          *)
(*                                                                         *)
(* The process runs one event loop: what happens between two awaits is one *)
(* step, and a kill ends every request.  The database is PostgreSQL, whose *)
(* UPDATE sees the rows of its start and waits for the locked ones.  File  *)
(* names are unique (uuid4), so a file is named by what created it.        *)
(***************************************************************************)
EXTENDS Integers, FiniteSets

CONSTANTS
    Claves,        \* private keys that can be generated
    Contenidos,    \* certificates ARCA can have issued; a fingerprint each
    ClaveDe,       \* [Contenidos -> Claves]: whose CSR each one answers
    Subidas,       \* uploads: each has its own .crt file and its own row
    Limpiezas,     \* deletions and orphan cleanings
    MaxSucesos,    \* bound: requests begun
    MaxCaidas      \* bound: kills of the process

\* An instance may start with two uploads already done
ASSUME CertificadosValidos ==
    /\ ClaveDe \in [Contenidos -> Claves] /\ IsFiniteSet(Subidas)
    /\ MaxSucesos \in Nat \ {0, 1} /\ MaxCaidas \in Nat

VARIABLES
    llave,       \* [Claves -> {"sin_generar","disco","borrada"}]
    crt,         \* [Subidas -> {"sin_guardar","disco","borrado"}]
    fila,        \* committed rows: "no","activo","inactivo","borrada"
    sub,         \* what each upload is doing
    lim,         \* what each deletion or cleaning is doing
    sucesos,     \* requests begun so far
    caidas,      \* kills so far
    perdida,     \* history: uploads whose COMMIT was never answered
    solapada     \* history: files <<u, "crt">> and <<u, "key">> of an upload that a
                 \* cleaning removed without having seen its row

filasYArchivos == <<llave, crt, fila>>
varsCert == <<llave, crt, fila, sub, lim, sucesos, caidas, perdida, solapada>>

SinSubir == [pc |-> "inicio", cert |-> "nada", clave |-> "nada", foto |-> {}, viejas |-> {}]
SinLimpiar == [pc |-> "libre", borra |-> {}, vistas |-> {}, claves |-> {}]

Confirmada(u) == fila[u] \in {"activo", "inactivo"}
Activas == {u \in Subidas : fila[u] = "activo"}

EnVuelo(u) == sub[u].pc \in {"clave_vista", "guardado", "esperando", "desactivada", "insertada"}
ConTransaccion(u) == sub[u].pc \in {"desactivada", "insertada"}

(* Rows a transaction has written and not yet committed. *)
Bloqueadas ==
    (UNION {sub[u].viejas : u \in {v \in Subidas : ConTransaccion(v)}})
    \cup (UNION {lim[l].borra : l \in {m \in Limpiezas : lim[m].pc = "borrando"}})

-----------------------------------------------------------------------------
(* The private key and the upload *)

Empieza == sucesos < MaxSucesos /\ sucesos' = sucesos + 1

(* generar_csr: a new key, a new name, a file nobody refers to yet. *)
GenerarCsr(k) ==
    /\ llave[k] = "sin_generar"
    /\ llave' = [llave EXCEPT ![k] = "disco"]
    /\ UNCHANGED <<crt, fila, sub, lim, sucesos, caidas, perdida, solapada>>

(* subir_certificado: key_filename must name a file that is there. *)
ComprobarClave(u, c, k) ==
    /\ sub[u].pc = "inicio"
    /\ Empieza
    /\ sub' = [sub EXCEPT ![u].pc = IF llave[k] = "disco" THEN "clave_vista" ELSE "fallida",
                          ![u].cert = c, ![u].clave = k]
    /\ UNCHANGED <<llave, crt, fila, lim, caidas, perdida, solapada>>

(* Fault: the failed upload leaves its file behind. *)
FallarSinLimpiar(u) ==
    /\ sub' = [sub EXCEPT ![u].pc = "fallida", ![u].foto = {}, ![u].viejas = {}]
    /\ UNCHANGED <<llave, crt, fila, lim, sucesos, caidas, solapada>>

(* _eliminar_archivo_guardado: an unlink that fails is only logged, and    *)
(* the upload ends with its .crt abandoned.                                *)
EliminarArchivo(u) ==
    \/ /\ sub' = [sub EXCEPT ![u].pc = "fallida", ![u].foto = {}, ![u].viejas = {}]
       /\ crt' = [crt EXCEPT ![u] = IF @ = "disco" THEN "borrado" ELSE @]
    \/ /\ crt[u] = "disco"
       /\ sub' = [sub EXCEPT ![u].pc = "abandonada", ![u].foto = {}, ![u].viejas = {}]
       /\ UNCHANGED crt

(* Any failure: the except clauses remove the .crt stored by this upload,  *)
(* and get_db rolls back what the transaction held.                        *)
Fallar(u) ==
    /\ EliminarArchivo(u)
    /\ UNCHANGED <<llave, fila, lim, sucesos, caidas, solapada>>

(* validar_certificado: the key is read again, and must be the one whose   *)
(* CSR the certificate answers.                                            *)
Valido(u) == llave[sub[u].clave] = "disco" /\ ClaveDe[sub[u].cert] = sub[u].clave

(* Once the file is read: guardar_certificado and validar_certificado.     *)
(* A write or a chmod that fails leaves the file it created to nobody: the *)
(* caller never gets its name.  So does a refused one that stays.          *)
GuardarYValidar(u) ==
    /\ sub[u].pc = "clave_vista"
    /\ \/ /\ Valido(u)
          /\ sub' = [sub EXCEPT ![u].pc = "guardado"]
          /\ crt' = [crt EXCEPT ![u] = "disco"]
       \/ /\ ~Valido(u)
          /\ sub' = [sub EXCEPT ![u].pc = "fallida"]
          /\ crt' = [crt EXCEPT ![u] = "borrado"]
       \/ /\ sub' = [sub EXCEPT ![u].pc = "abandonada"]
          /\ crt' = [crt EXCEPT ![u] = "disco"]
    /\ UNCHANGED <<llave, fila, lim, sucesos, caidas, perdida, solapada>>

(* The UPDATE starts: the active rows of this instant are its target. *)
BuscarActivas(u) ==
    /\ sub[u].pc = "guardado"
    /\ sub' = [sub EXCEPT ![u].pc = "esperando", ![u].foto = Activas]
    /\ UNCHANGED <<filasYArchivos, lim, sucesos, caidas, perdida, solapada>>

(* Fault: the UPDATE is committed on its own. *)
DesactivarYConfirmar(u) ==
    /\ sub[u].pc = "esperando"
    /\ sub[u].foto \cap Bloqueadas = {}
    /\ sub' = [sub EXCEPT ![u].pc = "desactivada", ![u].foto = {}]
    /\ fila' = [v \in Subidas |-> IF v \in sub[u].foto \cap Activas THEN "inactivo" ELSE fila[v]]
    /\ UNCHANGED <<llave, crt, lim, sucesos, caidas, perdida, solapada>>

(* It locks each one when the transaction that holds it ends, and changes  *)
(* those still active.                                                     *)
Desactivar(u) ==
    /\ sub[u].pc = "esperando"
    /\ sub[u].foto \cap Bloqueadas = {}
    /\ sub' = [sub EXCEPT ![u].pc = "desactivada", ![u].foto = {},
                          ![u].viejas = sub[u].foto \cap Activas]
    /\ UNCHANGED <<filasYArchivos, lim, sucesos, caidas, perdida, solapada>>

(* Fault: no unique index. *)
IndiceAdmiteTodo(u) == TRUE

(* What ux_certificados_activo_empresa_ambiente waits for and refuses. *)
IndiceEnEspera(u) ==
    \/ \E v \in Subidas \ {u} : sub[v].pc = "insertada"
    \/ \E v \in Activas \ sub[u].viejas : v \in Bloqueadas
IndiceAdmite(u) == Activas \subseteq sub[u].viejas

Insertar(u) ==
    /\ sub[u].pc = "desactivada"
    /\ ~IndiceEnEspera(u)
    /\ IF IndiceAdmite(u)
       THEN /\ sub' = [sub EXCEPT ![u].pc = "insertada"]
            /\ UNCHANGED <<filasYArchivos, lim, sucesos, caidas, perdida, solapada>>
       ELSE Fallar(u) /\ UNCHANGED perdida

(* What the COMMIT of u writes. *)
FilasRelevadas(u) ==
    [v \in Subidas |-> CASE v = u -> "activo"
                         [] v \in sub[u].viejas /\ v # u -> "inactivo"
                         [] OTHER -> fila[v]]

ConfirmarSubida(u) ==
    /\ sub[u].pc = "insertada"
    /\ fila' = FilasRelevadas(u)
    /\ sub' = [sub EXCEPT ![u].pc = "fin", ![u].viejas = {}]
    /\ UNCHANGED <<llave, crt, lim, sucesos, caidas, perdida, solapada>>

(* The COMMIT fails, or its answer is lost after it was done: the code     *)
(* cannot tell and cleans up in both cases.                                *)
CommitSinRespuesta(u) ==
    /\ sub[u].pc = "insertada"
    /\ \/ /\ EliminarArchivo(u)
          /\ fila' = FilasRelevadas(u)
          /\ perdida' = IF crt'[u] = "disco" THEN perdida ELSE perdida \cup {u}
          /\ UNCHANGED <<llave, lim, sucesos, caidas, solapada>>
       \/ Fallar(u) /\ UNCHANGED perdida

(* A file too large, an OSError or a database error before the COMMIT. *)
FallarAntes(u) ==
    /\ EnVuelo(u) /\ sub[u].pc # "insertada"
    /\ Fallar(u)
    /\ UNCHANGED perdida

-----------------------------------------------------------------------------
(* Deletions and orphan cleanings *)

(* delete_certificado reads the row and the names of its files ... *)
LeerFila(l, u) ==
    /\ lim[l].pc = "libre" /\ Confirmada(u)
    /\ Empieza
    /\ lim' = [lim EXCEPT ![l].pc = "leida", ![l].borra = {u}]
    /\ UNCHANGED <<filasYArchivos, sub, caidas, perdida, solapada>>

(* ... and its DELETE waits for a locked row; one already gone is only a   *)
(* warning.                                                                *)
Borrar(l) ==
    /\ lim[l].pc = "leida"
    /\ lim[l].borra \cap Bloqueadas = {}
    /\ lim' = [lim EXCEPT ![l].pc = "borrando"]
    /\ UNCHANGED <<filasYArchivos, sub, sucesos, caidas, perdida, solapada>>

FilasBorradas(ls, filas) ==
    LET borradas == UNION {lim[l].borra : l \in ls}
    IN  [u \in Subidas |-> IF u \in borradas THEN "borrada" ELSE filas[u]]

(* Its COMMIT; when it is not answered the request ends there, whether it  *)
(* was done or not, and cleans nothing.                                    *)
ConfirmarBorrado(l) ==
    /\ lim[l].pc = "borrando"
    /\ \E hecho, respuesta \in BOOLEAN :
        /\ respuesta => hecho
        /\ fila' = IF hecho THEN FilasBorradas({l}, fila) ELSE fila
        /\ lim' = [lim EXCEPT ![l] = IF respuesta THEN [@ EXCEPT !.pc = "borrado"] ELSE SinLimpiar]
    /\ UNCHANGED <<llave, crt, sub, sucesos, caidas, perdida, solapada>>

Registradas == {u \in Subidas : Confirmada(u)}

(* Fault: rows kept as history do not count as references. *)
ReferentesActivos == Activas

(* The rows whose files a scan spares: all those committed. *)
Referentes == Registradas

(* Own files of the deleted row that no other row names. *)
BuscarReferencias(l) ==
    /\ lim[l].pc = "borrado"
    /\ lim' = [lim EXCEPT ![l].pc = "decidido", ![l].vistas = Registradas,
                          ![l].claves = {sub[u].clave : u \in lim[l].borra}
                                        \ {sub[u].clave : u \in Referentes}]
    /\ UNCHANGED <<filasYArchivos, sub, sucesos, caidas, perdida, solapada>>

(* limpiar_certificados_huerfanos: the chosen files must be orphans when   *)
(* the list is made again.                                                 *)
BuscarHuerfanos(l, us, ks) ==
    /\ lim[l].pc = "libre" /\ us \cup ks # {}
    /\ Empieza
    /\ us \cap Referentes = {} /\ \A u \in us : crt[u] = "disco"
    /\ \A k \in ks : llave[k] = "disco" /\ k \notin {sub[u].clave : u \in Referentes}
    /\ lim' = [lim EXCEPT ![l] = [pc |-> "decidido", borra |-> us, vistas |-> Registradas,
                                  claves |-> ks]]
    /\ UNCHANGED <<filasYArchivos, sub, caidas, perdida, solapada>>

(* Files of uploads under way, or registered by now, that the scan of l    *)
(* did not see, among the .crt of us and the keys of ks.                   *)
Solapadas(l, us, ks) ==
    LET ajenas == {u \in Subidas \ lim[l].vistas : EnVuelo(u) \/ Confirmada(u)}
    IN  {<<u, "crt">> : u \in ajenas \cap us}
        \cup {<<u, "key">> : u \in {v \in ajenas : sub[v].clave \in ks}}

(* The unlinks follow the answer of the scan without an await; one that    *)
(* fails leaves its file, and in a cleaning those after it too.            *)
Desenlazar(l) ==
    /\ lim[l].pc = "decidido"
    /\ \E us \in SUBSET {u \in lim[l].borra : crt[u] = "disco"},
          ks \in SUBSET {k \in lim[l].claves : llave[k] = "disco"} :
        /\ crt' = [u \in Subidas |-> IF u \in us THEN "borrado" ELSE crt[u]]
        /\ llave' = [k \in Claves |-> IF k \in ks THEN "borrada" ELSE llave[k]]
        /\ solapada' = solapada \cup Solapadas(l, us, ks)
    /\ lim' = [lim EXCEPT ![l] = SinLimpiar]
    /\ UNCHANGED <<fila, sub, sucesos, caidas, perdida>>

(* The scan itself fails: SQLAlchemyError is logged and the files stay. *)
AbandonarLimpieza(l) ==
    /\ lim[l].pc = "borrado"
    /\ lim' = [lim EXCEPT ![l] = SinLimpiar]
    /\ UNCHANGED <<filasYArchivos, sub, sucesos, caidas, perdida, solapada>>

(* The process dies: the server rolls back the open transactions, except   *)
(* a COMMIT already on its way, and the files stay as they are.            *)
Caer ==
    /\ caidas < MaxCaidas
    /\ \E llegan \in SUBSET {u \in Subidas : sub[u].pc = "insertada"},
          borran \in SUBSET {l \in Limpiezas : lim[l].pc = "borrando"} :
        /\ fila' = FilasBorradas(borran, [v \in Subidas |->
                     IF \E u \in llegan : FilasRelevadas(u)[v] # fila[v]
                     THEN IF v \in llegan THEN "activo" ELSE "inactivo"
                     ELSE fila[v]])
        /\ sub' = [u \in Subidas |->
                     IF EnVuelo(u)
                     THEN [sub[u] EXCEPT !.pc = IF u \in llegan THEN "fin" ELSE "muerta",
                                         !.foto = {}, !.viejas = {}]
                     ELSE sub[u]]
    /\ lim' = [l \in Limpiezas |-> SinLimpiar]
    /\ caidas' = caidas + 1
    /\ UNCHANGED <<llave, crt, sucesos, perdida, solapada>>

-----------------------------------------------------------------------------
(* An upload that ended well, of a certificate and its key. *)
Subida(c) == [SinSubir EXCEPT !.pc = "fin", !.cert = c, !.clave = ClaveDe[c]]

(* The certificates an issuer starts with: none, one, or one and the one   *)
(* that replaced it.  Their uploads count as requests.                     *)
Historias ==
    {h \in UNION {[us -> Contenidos] : us \in SUBSET Subidas} : Cardinality(DOMAIN h) <= 2}

InitCert ==
    \E h \in Historias :
      LET hechas == DOMAIN h IN
      /\ llave = [k \in Claves |-> IF \E u \in hechas : ClaveDe[h[u]] = k
                                   THEN "disco" ELSE "sin_generar"]
      /\ crt = [u \in Subidas |-> IF u \in hechas THEN "disco" ELSE "sin_guardar"]
      /\ \E ultima \in IF hechas = {} THEN {{}} ELSE {{u} : u \in hechas} :
            fila = [u \in Subidas |-> IF u \in ultima THEN "activo"
                                     ELSE IF u \in hechas THEN "inactivo" ELSE "no"]
      /\ sub = [u \in Subidas |-> IF u \in hechas THEN Subida(h[u]) ELSE SinSubir]
      /\ lim = [l \in Limpiezas |-> SinLimpiar]
      /\ sucesos = Cardinality(hechas) /\ caidas = 0 /\ perdida = {} /\ solapada = {}

PasoSubida(u) ==
    \/ \E c \in Contenidos, k \in Claves : ComprobarClave(u, c, k)
    \/ GuardarYValidar(u) \/ BuscarActivas(u) \/ Desactivar(u) \/ Insertar(u)
    \/ ConfirmarSubida(u) \/ CommitSinRespuesta(u) \/ FallarAntes(u)

PasoLimpieza(l) ==
    \/ \E u \in Subidas : LeerFila(l, u)
    \/ Borrar(l) \/ ConfirmarBorrado(l) \/ BuscarReferencias(l) \/ Desenlazar(l) \/ AbandonarLimpieza(l)
    \/ \E us \in SUBSET Subidas, ks \in SUBSET Claves : BuscarHuerfanos(l, us, ks)

-----------------------------------------------------------------------------
EstadosSubida ==
    [pc : {"inicio", "clave_vista", "guardado", "esperando", "desactivada", "insertada",
           "fin", "fallida", "abandonada", "muerta"},
     cert : Contenidos \cup {"nada"}, clave : Claves \cup {"nada"},
     foto : SUBSET Subidas, viejas : SUBSET Subidas]

EstadosLimpieza ==
    [pc : {"libre", "leida", "borrando", "borrado", "decidido"},
     borra : SUBSET Subidas, vistas : SUBSET Subidas, claves : SUBSET Claves]

TypeOKCert ==
    /\ llave \in [Claves -> {"sin_generar", "disco", "borrada"}]
    /\ crt \in [Subidas -> {"sin_guardar", "disco", "borrado"}]
    /\ fila \in [Subidas -> {"no", "activo", "inactivo", "borrada"}]
    /\ sub \in [Subidas -> EstadosSubida]
    /\ lim \in [Limpiezas -> EstadosLimpieza]
    /\ sucesos \in 0..MaxSucesos /\ caidas \in 0..MaxCaidas
    /\ perdida \subseteq Subidas /\ solapada \subseteq Subidas \X {"crt", "key"}

(* A registered certificate has its key and its .crt, also when the key is *)
(* shared, uploads fail or files are cleaned.  The two ways to lose one    *)
(* are named, file by file: the COMMIT of the upload went unanswered and   *)
(* its .crt was removed, or the upload had it under way when a deletion or *)
(* a cleaning, which could not see its row, removed that very file.        *)
FilaConMaterial ==
    \A u \in Subidas : Confirmada(u) =>
        /\ crt[u] = "disco" \/ u \in perdida \/ <<u, "crt">> \in solapada
        /\ llave[sub[u].clave] = "disco" \/ <<u, "key">> \in solapada

(* A stored .crt belongs to an upload under way or to a row, at whatever   *)
(* step an upload fails; otherwise the process died in the middle, or the  *)
(* file system failed while the file was written or removed.               *)
SinCrtHuerfano ==
    \A u \in Subidas : crt[u] = "disco" =>
        EnVuelo(u) \/ fila[u] # "no" \/ sub[u].pc \in {"muerta", "abandonada"}

(* Only one certificate is in force, whatever uploads and deletions run at *)
(* once: two uploads may both have found the row in force, or neither.     *)
(* And the issuer is left without one only by deleting it: an upload that  *)
(* fails at any point leaves the former one in force.                      *)
UnoVigente ==
    [][/\ Cardinality(Activas') <= 1
       /\ Activas # {} /\ Activas' = {} => \A u \in Activas : fila'[u] = "borrada"]_varsCert
=============================================================================
