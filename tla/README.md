# FactuFlow: TLA+ verification

FactuFlow issues Argentine electronic invoices (comprobantes) through ARCA's web services. One mistake is not
recoverable by a rollback: once `FECAESolicitar` has been sent, ARCA may have authorised a number whatever happens to
the process, the database or the connection that asked for it. The backend therefore keeps, for every request of a
client, a durable *operation* (idempotency key), a durable *attempt* with the number it planned, and a durable *guard*
on the point of sale; this directory models that machinery, model-checks it with TLC and proves theorems about it with
TLAPS.

All paths below are relative to `src/backend/app/` unless they start with `docs/` or `src/`.

## 1. Inventory of the system

One Uvicorn process serves a FastAPI application over SQLAlchemy async sessions (PostgreSQL in production, SQLite in
development), with an embedded background worker for lotes (bulk emission). A Vue frontend calls it. ARCA is reached
through SOAP: WSAA gives tickets, WSFEv1 numbers and authorises.

| Part | Code | State it keeps | Operations | What is hard |
|---|---|---|---|---|
| Individual emission | `api/comprobantes.py`, `services/facturacion_service.py` | in-memory request, in-process `asyncio.Lock` per (company, point, tipo) | `POST /comprobantes/emitir`: resolve key, lock, validate, number, reserve, preflight, mark, call ARCA, publish, recover | double clicks, ambiguous commits, timeouts after sending, lock released before the commit, row locks held across awaits |
| Fiscal idempotency | `services/idempotencia_fiscal_service.py`, `models/idempotencia_fiscal.py` | `operaciones_idempotentes` (state, stored response, RECE snapshot), `intentos_emision_fiscal` | create, recover ambiguous creation, claim, confirm duplicate, publish by CAS, validate replays | several writers of one row, each acting on what it read before an await |
| RECE eligibility and guards | `services/elegibilidad_rece_service.py`, `models/elegibilidad_rece.py` | one head of eligibility revisions per point and environment; guards with a unique index on active ones | check the context, snapshot, create and move the guard, recover an interrupted one, apply fiscal changes of points, attest a constancia | the point changes while somebody emits; guard phases decide whether ARCA may have been called |
| Lote emission | `services/lote_comprobantes_service.py`, `api/lotes_comprobantes.py` | lotes, groups, rows, their operation and ownership | import, validate, queue, process, retry, discard, reconcile, delete | worker and HTTP requests owning the same lote; partial failure of one batch call to ARCA |
| Lote worker | `services/lote_worker.py` | one asyncio task | poll, block stale lotes, claim, process, recover, stop | restart in the middle; slow lotes declared stale |
| ARCA client and tickets | `arca/wsfev1.py`, `arca/wsaa.py`, `arca/cache.py` | ticket cache in memory and on disk | number queries, FECAESolicitar, ticket renewal | timeouts; torn cache file; expiry margin |
| Points and attestations | `api/puntos_venta.py`, `services/constancia_*.py` | `puntos_venta`, RECE ledger, files of constancias | sync with ARCA, create, edit, deactivate, import and attest a constancia | point, ARCA's list, CUIT, role and evidence read before an await; edits against active guards |
| Certificates | `api/certificados.py`, `core/storage_paths.py` | `certificados` rows, `.key` and `.crt` files | CSR, upload, delete, verify, clean orphan files | files against rows; shared keys; two uploads at once |
| VPS migration | `scripts/vps_migration.py` | a package directory, the PostgreSQL target, its certificate directory | preflight, export, import, validate | what may be left out of the package; failures and kills between files and rows |
| PF-19 legacy resolution | `services/resolucion_legacy_pf19_service.py`, `services/inventario_legacy_pf19_service.py`, `scripts/pf19_legacy_resolution.py` | legacy operations without RECE snapshot | inventory, plan, apply | plan made stale by a later state |
| Storage, formats, users, reports | the remaining services and routers | their own tables and files | CRUD, parsing, rendering | file against row; otherwise sequential |
| Frontend | `src/frontend/src` | Pinia stores; frozen emission attempt in memory | views over the API | retries with the same key |

Interactions: the emission service is called by the individual endpoint and by lotes; both write operations, attempts
and guards through the idempotency and eligibility services; point changes are refused by the guards; the numbering
lock is shared by individual emission and lotes of the same process; the database session of a request is the unit of
commit, rollback and row locks; ARCA keeps its own numbering, which other systems of the taxpayer advance too; every
call to ARCA needs a ticket, which needs a certificate row and its two files; the migration moves the rows of all of
them, and leaves out what it proves finished.

What makes emission correct, whatever the interleaving, the failures and the restarts:

1. one idempotency key sends at most one FECAESolicitar;
2. a CAE granted by ARCA is never forgotten: it is stored, or an active guard immobilises the point;
3. the point of sale has at most one FECAESolicitar in flight, under the RECE context that was checked;
4. the local history is contained in ARCA's;
5. what a client is told is durable, and no two clients of one key are told different things;
6. a key is reopened for another emission only when nothing of it reached ARCA;
7. every request is eventually answered.

For a lote, whose groups are emitted by several FECAESolicitar calls and several actors:

8. a group is sent to ARCA at most once, whoever runs the lote;
9. the states of the lote and its groups tell what ARCA authorised: `completado` means it, `fallido` denies it;
10. only the operation that owns the lote emits it, and a running lote is not queued again behind its back;
11. a lote left `procesando` is decided;
12. what can be retried or was discarded has nothing of its own in ARCA, and each key of a retry keeps its answer.

For the things emission rests on:

13. FECAE leaves only for a point whose evidence is current, of this issuer, attested by somebody who could;
14. an active guard names the current revision of its point, and the ledger of revisions only grows;
15. one certificate is in force, a registered one has its files, and a request gets a ticket of the one it selected;
16. a migrated installation knows every voucher ARCA knows, never asks ARCA again for the old keys (a success that came
    without its attempts is answered 409), and an import that fails removes nothing that was there before its own.

`PROJECT.json` lists each hazard at its line, with the properties that cover it.

## 2. Modules

| Module | What it is |
|---|---|
| `EmisionIndividual` | the core: one point of sale, any set of HTTP requests, keys, payloads and tipos |
| `EmisionUnica` | abstract specification of a key: sent once, decided once, finished after authorisation, told after finished |
| `EmisionIndividualRefina` | refinement mapping: `EmisionIndividual` implements `EmisionUnica` |
| `MCEmisionIndividual` | instances of it for TLC |
| `EmisionIndividualInv` | the inductive invariants `Inductivo` and `InductivoCompleto` and their parts, checked by TLC and used by the proofs |
| `EmisionIndividualProofs` | `Inductivo` and `InductivoCompleto` are inductive: type correctness, the safety theorems, what is answered, the refinement of `EmisionUnica` and safe reopening |
| `LoteProcesamiento` | one lote: `POST .../procesar`, `procesar_lote` with its sublotes and closures, recovery before ARCA, discard |
| `LoteWorker` | the worker over that lote: queue, stale lotes, recovery; the composed specification and its properties |
| `LoteWorkerInv`, `LoteWorkerProofs` | the inductive invariant of the lote and its worker, and what is proved of them |
| `LoteWorkerOrden`, `LoteWorkerOrdenProofs` | the behaviours in which runs of a lote keep out of each other's way, the invariant that holds in them, and the client that has no others, proved |
| `LoteResolucion` | that lote afterwards: retry of failed groups, reconciliation, discard, compaction, deletion |
| `LoteResolucionInv`, `LoteResolucionProofs` | its inductive invariant, and the properties of its run, proved |
| `PuntosRece` | points of sale, their ledger of RECE revisions, constancias and attestation, against an emission |
| `PuntosReceInv`, `PuntosReceProofs` | the inductive invariant of the points, and their four properties, proved |
| `Certificados` | certificate rows and files of one issuer: CSR, upload, deletion, cleaning |
| `TicketsWsaa` | WSAA logins and the ticket cache, composed with `Certificados` |
| `TicketsWsaaProofs` | their safety properties, proved |
| `VpsGrafo` | the fiscal rows of an installation and the predicates that export and import them |
| `VpsExportacion` | export, transport and restoration of a package, and the keys repeated afterwards |
| `VpsExportacionProofs` | the two sides of a migration agree, and what an export promises, proved |
| `VpsImportacion` | the import in detail: database transaction, certificate directory, journal, cleaning |
| `VpsImportacionInv`, `VpsImportacionProofs` | the inductive invariant of the imports, and their safety, proved |
| `MCLoteWorker`, `MCLoteResolucion`, `MCPuntosRece`, `MCTicketsWsaa`, `MCVpsMigracion`, `MCVpsImportacion` | instances for TLC |

### EmisionIndividual

*Actors.* Each element of `Solicitudes` is one HTTP request of `POST /comprobantes/emitir`; requests with the same
`ClaveDe` are retries or double clicks. `sol[r].pc` is where the coroutine is. One action is one database transaction or
one ARCA call, because those are the points at which `await` lets others run and at which a failure leaves something
behind.

| Variable | Code |
|---|---|
| `op[k]` | row of `operaciones_idempotentes`: `estado`, `response_json` (`resp`), payload hash, RECE snapshot (`rev`), `created_at` past `fiscal_attempt_stale_minutes` (`vieja`) |
| `intento[r]` | row of `intentos_emision_fiscal` created by request `r`, and its row of the guards table (`fase`) |
| `comprobantes` | committed comprobantes, named by the request that saved them |
| `rece` | RECE head of the point: revision, and verified-and-in-force |
| `sol[r].pend` | what the request has flushed and not committed: ORM objects become visible at the publication commit |
| `cerrojo` | `FacturacionService._number_locks` |
| `filaPunto` | request whose open transaction holds the point's row `FOR UPDATE` across an await (PostgreSQL only) |
| `ultimo`, `arca` | ARCA's last number of each tipo, and what became of each FECAESolicitar |

*Steps.* `Resolver` is `_resolver_operacion_emitir` with claim, confirmation of a logical duplicate and resolution of an
incomplete operation. `Emitir` is `_emitir_comprobante_locked`. `Cerrar` is the publication and the handlers of
`emitir_comprobante`. `Entorno` is ARCA processing what it received, another system of the taxpayer issuing, changes of
the point, expiry of its evidence, time passing and restarts of the process.

*Failures.* `Falla` is one of `DATABASE_TEMPORARILY_UNAVAILABLE_ERRORS`; at a commit it is ambiguous, so the row may
or may not have been written. Outside the try of the emission nobody catches it and the handler of `main.py` answers
503 with `Retry-After` (`FallaSinCapturar`), as the proven recovery before ARCA does: to the client both are the same
answer, `reintentable`, and so is a publication that lost its CAS. ARCA may answer, reject, or stay silent and
authorise later (`ProcesarArca` is independent of the request). `Reiniciar` drops every in-memory request, lock and
open transaction.

*Abstractions.* Company and point are single; amounts, receivers and texts are the payload value; a response is its
class and its number; both revisions of the RECE context move together and are one number. Validation failures,
certificate errors and WSAA or FEParamGetPtosVenta errors before the reservation are one nondeterministic branch,
since they all answer a `fallido` without attempt. The lote's use of the numbering lock appears as `ColaLarga`: a
request may wait behind it longer than `fiscal_attempt_stale_minutes`.

### LoteProcesamiento and LoteWorker

*Actors.* `Solicitudes` are requests of `procesar` (synchronous or background) and of `descartar`; `Worker` is the
background task. Both call the same `procesar_lote`, so its actions are written once for any actor `a` and
`LoteWorker` adds what only the worker does. `LoteWorker!Next` composes requests, worker and environment.

| Variable | Code |
|---|---|
| `lote` | row of `lotes_comprobantes`: `estado`, `procesamiento_async` (`async`), the owner operation and the confirmed material kept in `metadata_json` (`dueno`, `material`), `updated_at` past `batch_processing_stale_minutes` (`vieja`) |
| `grupo[g]` | `estado` of each row of `lotes_comprobantes_grupos` |
| `op[k]` | operation of the key: `estado`, class of `response_json` (SQL NULL, the worker's `en_progreso` marker, a result, an error), payload hash (`huella`), material of the marker |
| `guardas` | guards of the point in order of creation: operation, groups, phase, and the attempt of each group; `arca` and `aut` are what ARCA did of its FECAESolicitar |
| `mem[a]` | the coroutine: `pc`, its session's copy of the lote (`vista`), selected, pending and current groups, its guard, `FaseSolicitudArca` (`iniciada`) |

*The stale copy.* Sessions are created with `expire_on_commit=False` and `autoflush=False`, and a `SELECT` without
`populate_existing` does not refresh an object the session holds. A request therefore decides on the lote as it first
read it, and its `UPDATE` writes, by id, the columns that differ from that copy. `vista`, `Escribir` and
`EscribirDueno` are this; where the code asks for `populate_existing`, or updates with a condition, the action reads
`lote` itself (`PoseeLote`, `Tomar`, `PoseeTrasArca`, `BloquearFin`).

*Steps.* `LeerLote` to `Encolar` are the endpoint; `Tomar`, `Releer` and `Capacidad` the three transactions before the
first sublote; `Verificar` to `Solicitar` one sublote, batch or unitary, under the numbering lock and the point's guard;
`AplicarGrupo` the commit of each group, `CerrarRechazoGlobal` and `CerrarIncertidumbre` the closures that publish in the
same transaction; `Terminar` and `Publicar` the end. `BloquearInicio` and `BloquearFin` are the two halves of
`bloquear_lote_procesando_stale`, between which it asks ARCA with no transaction open. A rollback inside a run expires
its groups, whose next use may raise: `SinEnviar` has that branch, which leaves the lote `procesando`.

*Abstractions.* One company, point and tipo; the RECE context and the planned numbers stay fixed (they are those of
`EmisionIndividual`); a wrong date confirmation, a failed query or certificate are nondeterministic branches; the
confirmation of logical duplicates is left out, their detection on unitary emission is not (`SinDuplicado`). A database
outage while the worker blocks a stale lote only ends its cycle and is not an action of its own.

### LoteResolucion

*Actors.* `Reintentos` are requests of `reintentar-fallidos`, each with any key of `Claves` and a selection of that
key (`Selecciones`), one after the other in the same process (`procesamiento_local` serialises their emissions, not
their reads); `Usuario` is the session of the other actions. The lote starts as `procesar` or the upload left it
(`Iniciales`).

| Variable | Code |
|---|---|
| `lote`, `grupo`, `fila` | rows of the lote, its groups (`numero`: CAE or comprobante) and the states shown for their rows |
| `op[k]` | operation of a retry, its groups and whether its response is stored |
| `intentos` | `intentos_emision_fiscal` in order, with group, operation and phase of the guard |
| `arca` | what ARCA authorised, by number, and whether through the program or at its web |
| `mem[a]` | session: step, copy of the lote, selection, current group, counted groups (`toma`) |

*Steps.* From `reintentar_fallidos`: resolve the key, take the lote, claim the groups, emit each one (reserve, cross,
answer), recover what never crossed, count, publish. From `descartar_grupos` and `conciliar_grupo`: claim the group and
count, then commit, with the row of the group held between the two. `compactar` and `eliminar_lote` check and write in
two steps. An outage may end any of them; what was committed stays.

### PuntosRece

*Actors.* Each of `Pedidos` is an edit (`PUT`, `DELETE`), a synchronisation, an import of a constancia with or without
confirmation, or an emission; it may begin again as another one. Around them the day passes, ARCA's list and the CUIT
of the issuer change, an administrator loses the role.

| Variable | Code |
|---|---|
| `punto` | row of `puntos_venta`: number, active, blocked, system, `revision_fiscal` |
| `libro` | revisions of eligibility of each point in production; the head is the last |
| `guarda` | last guard of each point with its RECE context |
| `candado` | `obtener_bloqueo_local` of each point |
| `frontera` | import that holds the rows of its user and its company `FOR UPDATE` |
| `ped` | the request: what it read at its start, ARCA's answer, the document, the points it still has to lock |
| `dictamen` | history: whether each point was touched since its attestation |

*Steps.* Each request reads, asks ARCA, waits for the locks of its points in order, takes the boundary if it attests, and
writes in one transaction that compares `revision_fiscal`. Creation and reactivation of points, invalidation of the
ledger and refusal under an active guard are in those writes.

### Certificados and TicketsWsaa

| Variable | Code |
|---|---|
| `llave`, `crt` | the `.key` and `.crt` files |
| `fila` | rows of `certificados`, of one issuer and one ambiente |
| `sub`, `lim` | uploads, deletions and cleanings under way; `foto`, `vistas` are the rows each saw |
| `memoria`, `disco` | `TokenCache._cache` and its JSON file |
| `pet` | logins: the row they selected, what they received |
| `reloj`, `alDia` | time; whether the last save reached the file |
| `perdida`, `solapada` | history: uploads whose COMMIT went unanswered and lost their `.crt`; files of uploads that a removal which did not see their row took away |

*Steps.* `GenerarCsr`; `ComprobarClave` to `ConfirmarSubida`, with `FallarAntes` and `CommitSinRespuesta` for their
failures, after which `EliminarArchivo` removes the `.crt`, or cannot and the upload ends `abandonada`, as it also
does when `GuardarYValidar` fails after creating the file, whose name the caller then never gets; `LeerFila` to
`Desenlazar` for a deletion and `BuscarHuerfanos` for a cleaning; `ElegirActivo` or the verification of any row, the
cache, WSAA and the store of its ticket. `Caer` kills every request and restarts with the file. An unlink of a
deletion or a cleaning may fail too. Of a signature it matters that the two files are there.

### VpsGrafo, VpsExportacion and VpsImportacion

`VpsGrafo` has no state: an installation is a record of sets of rows, and the module holds the predicates by which
`vps_migration.py` accepts, leaves out and checks rows, on both sides. `VpsExportacion` runs them: `exp`, `staging`,
`paquete` are the export and its private and published directories, `destino` the restored rows, `arca` what ARCA
authorised, `reenvios` the keys repeated against the new server. `MCVpsMigracion` enumerates the sources: each small
installation a stop can leave, and each of those with one row altered or missing. `TerminalMigrable` covers the altered
ones too: whatever the exporter lets through, the importer accepts.

`VpsImportacion` is the import: `base` is the committed content of the target, `candado` the table locks, `disco` the
certificate directory (each file with its contents, who put it there and, in `tras`, the runs that had already entered
its name in their journal), `temporales` the hidden files with keys, `imp[i]` the run
with its journal (`creados`, `quedan`). A link may be interrupted before or after it happens, and the handler enters the
name in the journal all the same; an unlink may fail; a COMMIT may fail,
or happen unanswered; others may put and remove files; a process may be killed anywhere. `deAUno` chooses whether the
operators run one import at a time.

A file is taken as the own one (`Reconoce`) when the run created it, and may also be when it was put at the name after
the entry: the code compares device and inode and then unlinks by name, so it may be given a freed inode, or arrive
between the two calls.

*Abstractions.* `ALTER SEQUENCE` belongs to the transaction; temporary files, whose names are random, are touched by
nobody else. In `VpsExportacion` a `shutil.rmtree` that fails leaves part of the private directory (`sucio`).

## 3. Runs

Twelve runs, eleven that pass and one whose violation is one of section 5; the longest take between two and three
minutes with two workers. Each module's `TypeOK` is checked as a conjunct of the property marked *.

| Run | Instance | Checks |
|---|---|---|
| `doble_click` | 2 requests of one key, PostgreSQL, `ColaLarga`, 2 outages, 1 restart, 1 change of point, 1 foreign number | `InductivoCompleto`* (with it `UnaSolicitudPorOperacion`), `ExitoDurable`, `TerminalEstable`, `ReaperturaSegura` |
| `tres_intentos` | 3 requests of one key, SQLite, 1 outage, fair scheduling | `CaeNuncaPerdido`, `RespuestasConcordes`, refinement `RefinaEmisionUnica`, `TodaSolicitudResponde` |
| `duplicado` | 2 keys of one payload, 5 requests, 2 of them confirming the duplicate, 1 with another payload | `UnaSolicitudPorOperacion` across confirmation, `UnPayloadPorClave` |
| `dos_tipos` | 2 tipos of the same point, different locks | `VueloInmovilizaPunto`, `HistoriaLocalFiel` |
| `lote_cola` | 2 background requests of one key and a discard, the worker, 2 groups, 2 outages, 1 restart | `ColaCoherente`*, `CompletadoVeraz`, `CaeConservado`, `FallidoSinCae` of a group |
| `lote_claves` | 2 synchronous requests of different keys, slow runs, the worker's stale check, 1 outage, 1 restart, fair scheduling | `UnEnvioEntreSincronicas`, `RespuestaFinalEstable`, `ProcesandoSeDecide` |
| `lote_autorizado_dos_veces` | violation | `UnaAutorizacionPorGrupo` |
| `lote_resolucion` | 2 retries, one key for both groups and one for the last, the user, 2 groups in 5 initial mixtures, 2 attempts, 1 incident | `ResumenFiel`*, `UnaAutorizacionPropia`, `SinDescarteEnVuelo`, `DuenoDelVuelo`, `ReplayEstable` |
| `puntos_rece` | 2 requests of 2 administrators, of any kind, 2 points, 2 numbers, 2 CUITs, 4 constancias | `PuntosCoherentes`*, `EvidenciaVeraz`, `LibroFiel`, `EnvioAcreditado` |
| `certificados` | 2 keys and certificates, 2 uploads, deletions or cleanings one at a time, 2 logins, 1 kill | `MaterialFiel`*, `DiscoFiel`, `UnoVigente`, `TicketServible` |
| `vps_exportacion` | every source of `MCVpsMigracion`, 2 exports, a damaged transport, 1 repeated key | `ExportacionFiel`*, `UnaSolaAutorizacion`, `RestauracionFiel`, `TerminalMigrable` |
| `vps_importacion` | 2 importers with one run each, 2 files, 1 change by others, either of two targets | `RestosInocuos`*, `DestinoCompleto`, `DestinoRespetado`, `Termina` |

*What the properties join.* `ColaCoherente`: in the queue nothing of the owner is in ARCA. `UnEnvioEntreSincronicas`:
a group goes to ARCA once *between two synchronous requests*, the scope in which the code keeps it (section 5).
`ResumenFiel`: a closed lote has nothing left to resolve but groups reconciled in flight (`cruzados`), and the rows of
a group show its state. `PuntosCoherentes`: an active guard names the current revision. `EvidenciaVeraz`: no
attestation survives a change, a positive head belongs to the issuer and number as they are, older documents never
follow newer ones. `LibroFiel`: the ledger grows by one revision, under an authority still valid. `MaterialFiel`: a
row has its files, but for the files named in `perdida` and `solapada`; a `.crt` has its row or its upload, unless a
kill or the file system left it. `ExportacionFiel`: a package says of each voucher what ARCA knows and is whole when
visible; a failed export leaves no copy of keys but where the removal failed too. `RestosInocuos`: a cleaning that
says it is complete is, and no remainder refuses the next import. `DestinoRespetado`: a package only replaces the
clean seeds, and an import takes away, of what its journal names, only its own file or one put there after the entry
was made.

*Deadlock.* Requests end and are never restarted, or are bounded, so a finished instance has no step left: every
configuration says `CHECK_DEADLOCK FALSE`, and that nobody waits forever is checked as a liveness property instead.

*Bounds.* `MaxRev`, `MaxExterno`, `MaxFallas` and `MaxCaidas` cap the changes of the point, the foreign numbers, the
database outages and the restarts. Two requests of one key already produce every pair of roles (creator and replayer,
stale continuer and owner, ambiguous creator and reclaimer, publisher and recoverer); a third one adds a replay after
two different endings. Two outages reach a failure during a recovery from a failure. One foreign number is enough for a
preflight to fail and for ARCA to refuse a number; one change of the point is enough to invalidate a context between
two steps.

For the lote, two groups are the fewest that make a run partial, as one batch or, when `RegXReq` does not answer
(`Capacidad`), as two unitary sublotes. `lote_cola` has every pair of run and discard, queue and run of one key, and
`lote_claves` an owner and a thief. Two outages reach a recovery that fails. `LoteLento` lets the stale window pass
while a run is still alive; it is on where a request runs next to the worker (`lote_claves`), since a lote that the
worker runs cannot be blocked by the same worker (`lote_cola`). With one restart the worker finds lotes whose run is
dead. In `lote_resolucion` two attempts (`MaxIntentos`) let a group be tried by each key, or both groups by one: one
key asks for both and the other for the last, so that their selections overlap; and one incident (`MaxIncidentes`) is
an outage or a comprobante of ARCA's web; two incidents give the same result in a longer run.

In `puntos_rece` the days are 1 to 3, starting at 2, with `Vigencia` 1: a document can be in force, expire during a
request, or be expired from the start. `MaxSucesos` = 3 requests and changes are two requests that race and a change
around them; `MaxRevision` = 5 is more than they can reach from either of the two initial states. `certificados` has
`Vida` = 3, `Margen` = 1 and `Demora` = 1 in a time of 0 to 2, so that a ticket can be useful or too near its end;
four requests begun (`MaxSucesos`) are, for instance, two uploads, a deletion and a login; two deletions at once are
left to the theorem about `MaterialFiel`. Requests, keys and administrators that play the same part are symmetric in
these runs and in `lote_resolucion`; none of them has a liveness property. In `vps_importacion` two files let a run
fail between them, and one change by others is a file put, replaced or removed.

*Fairness.* `FairSpec` assumes weak fairness of the steps of each request that has arrived: the event loop runs every
coroutine whose await completed, SOAP calls and database statements end or time out, and asyncio locks and row locks are
granted when they are free. Nothing is assumed of the environment: a client may never call, ARCA may never process, and
the process may never restart. `LoteWorker!FairSpec` adds weak fairness
of the worker, which polls for ever, and of `Envejecer`, the passing of time; a lote with an active guard is
excluded from `ProcesandoSeDecide`, because only ARCA or an operator can decide it. `VpsImportacion!Spec` assumes weak
fairness of each running import: a program without waits but for the locks, which the other one releases when it ends
or dies.

*What the violation shows.* In `lote_autorizado_dos_veces` a background request with a second key read the lote before
it was taken, and turns `procesando` back into `en_cola`: `encolar_lote` tests the state on its session's copy. The
worker takes the lote while the first run goes on, both send the same group (the point's guard makes them take turns,
it does not refuse the second), and ARCA authorises it twice. Two synchronous requests do not get there
(`lote_claves`): the second key writes itself as owner of the running lote, but the lote is not put back in the queue.

## 4. Proofs

### EmisionIndividual

These theorems hold for every value of the constants under two assumptions declared in `EmisionIndividual`:
`SolicitudesAssumption` (each request has a key of `Claves` and a payload of `Payloads`, each payload a tipo, `Nadie`
is not a request, and the requests are finitely many, as the rows of a table are) and `CotasAssumption` (the bounds
are naturals).

*Type correctness* (`TipoCorrecto`) is inductive as it stands. The building blocks of the model (`Ir`, `Terminar`,
`Devolver`, ...) get one lemma each, `ResolverTipo`, `EmitirTipo`, `CerrarTipo` and `EntornoTipo` one step per action.

*Safety.* None of the safety invariants is inductive. "One FECAESolicitar per key" needs that a second request cannot
cross while a first one has crossed, which depends on guards (`GuardaUnica`: at most one active guard on the point) and
on what a closed guard proves: it was closed without crossing, or in the commit that made its operation terminal, after
which `PuedeIniciarArca` refuses to cross (`CierreConRespuesta`). That a publication closes the guard truthfully needs
what each request still has pending in its session (`Avance`). `Inductivo` (module `EmisionIndividualInv`) is the
conjunction of those facts, `TypeOK` among them; `doble_click` checks it with TLC, as part of `InductivoCompleto`.

The proof does not go action by action. `Efecto(r)` says what a step of request `r` may do to the shared state: it leaves
the other attempts, the RECE head and ARCA's numbering alone, never rewrites a terminal operation, and touches its own
attempt in one of seven ways (no change, reserve, cross, close locally, authorise, reject, leave uncertain).
`EfectoResolver`, `EfectoEmitir` and `EfectoCerrar` prove it of every action; `EfectoConserva` proves that these effects
preserve `Inductivo`, and `EntornoConserva` that the environment does. `InductivoSiempre` combines them.

*Answers.* What clients are told is not in `Inductivo`. `InductivoCompleto` adds `IntentoPropio` (an attempt is of the
key and the payload of its request) and `RespuestasFieles`: from the step in which a request has compared its payload,
its operation is its own; a response that waits to be published rests on what was authorised; one that was given as
success, failure or global rejection is the one the row stores, and a success has a committed comprobante with its
number. It is proved with the effects above for the shared rows (`EfectoFilas`), one lemma per group of steps for the
request that moves (`RespuestaResolver`, `RespuestaEmitir`, `RespuestaCerrar`), and `RespuestaAjena` for the others: a
terminal row is never rewritten, so an answer given stays right. `OpRespuesta` is the lemma on which the rows rest:
the only step that writes a response is the publication that makes the operation terminal, or the one that leaves it
pending.

*Refinement.* `EmisionUnicaImplementada` proves, for any number of requests, that `EmisionIndividual` implements
`EmisionUnica`: the initial states map to `InitUnica`, and each step to one of the abstract actions or to a stutter.
`DestinoUnico` says that the fate of a key is the fate of its only sent attempt (`CruceUnico`), so the mapping is a
function; `SolicitarEnvia` maps the call to ARCA to `Enviar`, `ProcesarDecide` ARCA's work to `Decidir`,
`FinalizaAutorizado` and `PasoRegistra` the commit that finishes the key to `Registrar`, with or without an informed
client, and a replay to `Informar`. Every other step leaves the mapped variables alone (`EnvioIgual`,
`EntornoRefina`). `ReaperturaProbada` rests on `ReaperturaOrigen`, the few steps that reopen a key, and on
`ReabiertaSegura`: the recovery that does so closes the only active guard of the key in that same step.

| Theorem | Property | Uses of the invariant |
|---|---|---|
| `TipoCorrecto` | `TypeOK` | none: inductive by itself |
| `InductivoSiempre` | `Inductivo` | |
| `EnvioUnico` | `UnaSolicitudPorOperacion` | `EnvioCruza`, `CruceUnico` |
| `CaeConservado` | `CaeNuncaPerdido` | `EnvioCruza`, `CierreConRespuesta` |
| `VueloUnico` | `VueloInmovilizaPunto` | `GuardaUnica`, `RevisionCongelada`, `CierreConRespuesta` |
| `HistoriaFiel` | `HistoriaLocalFiel` | `ComprobanteAutorizado`, `NumeracionFiel` |
| `TerminalInmutable` | `TerminalEstable` | `CierreSinArca`, and `Efecto` of each step |
| `CompletoSiempre` | `InductivoCompleto` | |
| `PayloadUnico` | `UnPayloadPorClave` | `IntentoPropio`, `RespuestasFieles` |
| `ExitoGuardado` | `ExitoDurable` | `RespuestasFieles`, `ComprobanteAutorizado` |
| `RespuestasIguales` | `RespuestasConcordes` | `RespuestasFieles` |
| `ReaperturaProbada` | `ReaperturaSegura` | `IntentoPropio`, `EnvioCruza` |
| `EmisionUnicaImplementada` | `RefinaEmisionUnica` | `CruceUnico`, `EnvioCruza`, `RespuestasFieles` |

### LoteProcesamiento and LoteWorker

`LoteWorkerProofs` proves, for any requests in any of the three modes, any keys, groups, `RegXReq`, outages and
restarts, slow lotes or not, that the rows keep their shape, that no CAE is lost and that a published answer is final.
`LoteAssumption` says only what the constants are (the worker is not a request, `Nadie` is not a key, the groups are
finitely many numbers, `Chunk` is positive).

*The invariant* (`InductivoLote`). `CaeConservado` is not inductive: a closure writes the attempts from the run's
memory, long after ARCA answered. `GuardaSana` is what the rows say by themselves: a guard whose request is in ARCA is
in a phase that blocks the point, one in a phase before ARCA was never sent, and only an answered one has authorised
groups. `MemoriasSanas` is what each actor may rely on: the guard it is about to send was not sent, the result it is
applying is the one ARCA gave, a guard it closes as unsent is unsent. `GuardaPropia` (no two actors remember one
guard) is why the steps of the others cannot falsify it. `ColaConDueno` (a lote queued or running has an owner) and
`AbiertaSinRespuesta` (an operation that may be created or reclaimed has no answer) are needed because the worker
takes its key from the row, and because creation and reclaim write without looking at the answer.

*The argument.* `Suave` says what a step may do to the guard of somebody else: never undo a request not sent, an
answer given or a boundary crossed. Every write of guards is shown to be of that kind (`CerradaForma`,
`RecuperadaForma`, `InciertasForma`, `ArcaForma`, ...), so `MemoriaAjena` keeps the others right, and `Avanza`,
`Termina` and `Cortado` reduce each action to what it writes in the tables and in one memory. `RespuestaFinalDelLote`
is then about the writers of operations: each of them has read an answer that is not final in the same transaction, or
relies on `AbiertaSinRespuesta`.

| Theorem | Property | Rests on |
|---|---|---|
| `LoteInductivo` | `InductivoLote` | |
| `LoteTipado` | `TypeOK`, half of `ColaCoherente` | the shapes |
| `CaeDelLoteConservado` | `CaeConservado` | `GuardaSana`, `MemoriasSanas`, `GuardaPropia` |
| `RespuestaFinalDelLote` | `RespuestaFinalEstable` | `AbiertaSinRespuesta`, the conditions of each writer |

TLC checks `InductivoLote` on the instances of `lote_claves`, `lote_cola` and `lote_autorizado_dos_veces`, without
error, if `INVARIANT InductivoLote` is added to their configurations.

*What the code does not check* (`LoteWorkerOrden`). `UnEnvioPorGrupo`, `FallidoSinCae`, `CompletadoVeraz` and
`ColaSinGuarda` are not true of every behaviour of `LoteWorker` (section 5), so they cannot be theorems of `Spec`.
`Ordenado` is an action formula with two checks whose absence lets two runs of one lote overlap:

- `CopiaAlDia`: `encolar_lote` and the discard write the lote only if it is still in the state they read, and the
  first one with the same groups to emit;
- `SueltaPropia`: who recovers *without* a guard gives up only a lote that its open operation owns, and an operation that
  no other request or worker is using. With a guard nothing is asked: the code's own checks are enough.

The code makes neither check, so nothing is claimed of it under `Ordenado`: it is the hypothesis of a lemma about one
step (`PasoOrden`: a step of `Next` that is `Ordenado` keeps the invariant below, whatever the keys, modes, groups and
sublotes), and a theorem only follows where the hypothesis is *proved* of the program, which is with one client.

*The invariant of order* (`InductivoOrden`). `SolaCorrida` (one run at a time, a recovery with its guard included)
does not stand alone. That no second run begins needs that a run with something to emit keeps its lote `procesando`,
in the row and in its copy (`LoteDeCorrida`), and that a guard that is open or half applied keeps the lote out of the
queue (`LoteRetenido`). That a group is sent once needs that everything still to emit is in the hands of the run
(`GruposDeCorrida`) and that the other guards of those groups are closed before ARCA (`Respetada`), from which
`CrucesDisjuntos` follows at the crossing. `IntentoFirme` ties attempt, guard and group: `FallidoSinCae` is its last
conjunct. `UnicoCae` is what a `completado` lote rests on. `ConClave` and `ClaveDeUno` say that the operation of a
request at work is nobody else's.

*The argument.* A step is *calm* if it only closes guards, takes groups out of `validado` and keeps what a guard holds
back (`TablasCalmas`, `ValidadosBajan`): then the other actors stay right (`OtroSano`), and each action has to show
only its own memory and the tables. The steps that are not calm are those that put a lote in circulation again
(taking, queueing, recovering, a stale decision): for them the lemma is that nobody else is in a run (`SinNadie`,
`GuardaSola`), and this is where `Ordenado` is used.

*One client.* `Turnos` is the invariant that discharges `Ordenado` from a condition on the client alone: `ClaveUnica`
(it repeats its requests with one key) and `DeAUna` (a request arrives when the previous one has been answered, or cut
by a restart). The client may mix synchronous, background and discard requests; the worker, slow runs, outages and
restarts go on at any time. The invariant says that the lote is in the hands of the request or of the worker, never of
both. `ConMarca`: while the worker has the lote, or the lote waits for it, the operation holds the marker
`en_progreso`, which closes it to requests. `CopiaFresca`: a copy read while nobody had the lote is still the lote,
since only the marker starts the worker. `TurnosOrdena` shows that `Ordenado` follows; `InductivoOrden` and `Turnos`
are then inductive together, and the theorems `...DeUnCliente` suppose nothing about the code: their specification
(`SpecDeAUna`) limits only when requests arrive. With two keys the condition is not enough, even one request at a
time: each key has its own operation, so the marker of one does not stop a request of the other.

| Theorem | Property | Rests on |
|---|---|---|
| `LoteDeUnCliente` | `InductivoOrden` and `Turnos`, one client | `TurnosOrdena` |
| `UnClienteOrdena` | `Ordenado` of every step, one client | `Turnos` |
| `UnEnvioDeUnCliente` | `UnEnvioPorGrupo`, one client | `CrucesDisjuntos` |
| `FallidoDeUnCliente` | `FallidoSinCae`, one client | `IntentoFirme` |
| `CompletadoDeUnCliente` | `CompletadoVeraz`, one client | `UnicoCae` |
| `ColaDeUnCliente` | `ColaCoherente`, one client | `LoteRetenido`, `LoteTipado` |

For TLC take an instance of `MCLoteWorker`, or one with another `Modo`, with `SPECIFICATION SpecOrdenada` and
`INVARIANT InductivoOrden`, or `SPECIFICATION SpecDeAUna`, `INVARIANT Turnos` and `PROPERTY` `[][Ordenado]_vars`. The
second one was checked on five instances with one key, 1 or 2 outages and a restart: two background requests (228 486
states), two synchronous ones (67 399), one of each (142 073), a background request and a discard (29 661), and one
request of each of the three kinds (210 699). The runs `lote_cola` and `lote_claves` do contain steps that break
`Ordenado`, which is why they still say something the theorems do not.

### LoteResolucion

`LoteResolucionProofs` proves the five properties of the run `lote_resolucion` for any requests, keys, groups,
selections and initial states, and any number of attempts and incidents. `ResolucionAssumption` says what the
constants are: the groups are finitely many positive numbers, as the positions of a file are; `Usuario` is not a
request, nor `Nadie` or `Previa` a key; the lote begins as `procesar` or the upload may
leave it. `SeleccionesAssumption` says that a selection is of groups of the lote and not empty.

*The invariant* (`InductivoResolucion`). That ARCA authorises a group once is not inductive: a session decides on what
it read, and its claim, the reservation, the boundary and the closure are separate transactions. What holds is that a
retry owns its group from the claim to the commit of its outcome (`Ocupa`, `UnoPorGrupo`): meanwhile the group is not
in a state that anybody claims (`EnTrabajo`), and until its request goes out ARCA has nothing of it, nor has any other
attempt crossed (`SinEnvio`, `NadaEnArca`). `SueltoSinArca` says the same of the groups nobody has, which is what a
claim starts from. `Dueno`: a session that has not crossed yet saw the lote in the hands of its operation, and the
lote only passes to another one after that operation answered, when the boundary refuses to cross. `SinRespuesta` is
why a key that starts again has no answer to overwrite. `FilaDelReintento` is what lets a row be skipped while its
group is retried.

*The argument.* `PasoConMarco` is the frame. A step of one session works on a set of groups that no other retry holds
(`Marco`: elsewhere guards stay on their side of the boundary, ARCA keeps what it has, and a group changes only to
wait for reconciliation or to be recorded as issued outside); if it leaves those groups and its own session as it must
(`Debe`), the invariant holds again for everybody. Each action is then shown to be such a step; the ones of the user
that only remember something go through `PasoDelUsuario`. The count that a discard or a reconciliation keeps until its
commit is `Toma` and `TomaFirme`. `PrimeroPertenece` (the first of a set of groups is in it) rests on the well-founded
order of the finite subsets.

*Groups reconciled in flight.* The code lets the user reconcile, with a comprobante issued at ARCA's web, a group that
an open retry has selected, and then that retry may give the group back (section 5). `cruzados` is the history of
those groups, and the invariant is made of what holds in spite of them: what may be claimed has no number, or is one
of them (`SinNumero`), and in a closed lote every other group is resolved and nobody gives one back (`Quieto`,
`CerradoQuieto`), although the count was made on an older copy (`TomaFirme`). That a group is authorised once and what
may be retried has nothing of its own in ARCA needs no exception.

| Theorem | Property | Rests on |
|---|---|---|
| `ResolucionInductiva` | `InductivoResolucion` | |
| `ResolucionTipada` | `TypeOK` | `Formas` |
| `GrupoUnaSolaVez` | `UnaAutorizacionPropia` | `NadaEnArca`, `UnoPorGrupo`, `SueltoSinArca` |
| `VueloConDueno` | `DuenoDelVuelo` | `Dueno`, `PropiaConIntento` |
| `RespuestaDeLaClave` | `ReplayEstable` | `SinRespuesta` |
| `SueltoSinVuelo` | `SinDescarteEnVuelo` | `SueltoSinArca`, `SinNumero` |
| `FilasDelLote` | `FilasSiguen`, part of `ResumenFiel` | `FilaDelReintento` |
| `ResumenDelLote` | `ResumenFiel` | `CerradoQuieto`, `TomaFirme` |

TLC checks `InductivoResolucion` on the instance of `lote_resolucion`, without error, if
`INVARIANT InductivoResolucion` is added to its configuration.

### PuntosRece

`PuntosReceProofs` proves the four properties of the run `puntos_rece` for any requests, administrators, points,
numbers, CUITs, constancias and days. `ConstantesValidas` says that `Nadie` is not a request, that points are numbered
from 1 as their ids are, that each constancia is one (a CUIT, a day, its rows) and that bounds are naturals;
`DatosValidos` types the edits and the lists of ARCA that the run enumerates. Only the initial state with an
accredited point asks for two numbers.

*The invariant* (`InductivoPuntos`). None of the four properties is inductive: what a request read before an await may
be stale when it writes. `CopiaFiel` is why it does no harm: a row changes with its revision and never otherwise, so a
copy with the current revision *is* the row, and the comparison that precedes each write is enough. `FronteraViva`:
between the boundary of attestation and the end of its transaction the issuer keeps its CUIT and the administrator the
role, since both rows are locked. `GuardaPropia`: a request between reservation and closure owns the active guard,
which refuses every edit. `AltaPropia` and `NumerosUnicos`: numbers being inserted belong to one transaction.
`HistoriaFiel`: a point touched since its attestation has a head that is not positive, and one only blocked has a head
of an older revision.

*The argument.* A step of a request either advances (`AvanzaConserva`), ends (`SueltaCurso`, `RechazoConserva`), moves
a guard (`GuardaConserva`) or writes the ledger. For the last, `RegistroEscribe` says what a set of rows written at
once must satisfy (`Asentado`: the next revision, the entry of that revision, evidence of the CUIT and number, a
document not older than the last), and `AtestadoAsentado`, `NegativoAsentado`, `InvalidadoAsentado` that what an
attestation, a refused one and an edit or synchronisation write satisfies it. Rows that are inserted take the next ids
in order (`CreadosSiguen`); this is the longest part of the proof. The action properties follow from the invariant
before the step and the few actions that can cause them (`SoloEllosEscriben`, `SoloElloEnvia`).

TLC checks `InductivoPuntos` on the instance of `puntos_rece`, without error, if `INVARIANT InductivoPuntos` is added
to its configuration (`MCPuntosRece` extends the module that has it).

| Theorem | Property | Rests on |
|---|---|---|
| `InductivoPuntosSiempre` | `InductivoPuntos` | |
| `GuardaSiempreAlDia` | `PuntosCoherentes` | `GuardaAlDia`, and the shapes |
| `EvidenciaSiempreVeraz` | `EvidenciaVeraz` | `HistoriaFiel`, `EvidenciaFiel`, `DocumentosEnOrden` |
| `LibroSiempreFiel` | `LibroFiel` | `CopiaFiel`, `FronteraViva`, `IdsEnOrden` |
| `EnvioSiempreAcreditado` | `EnvioAcreditado` | `GuardaPropia`, `GuardaAlDia`, `HistoriaFiel` |

### Certificados and TicketsWsaa

`TicketsWsaaProofs` proves the four properties of the run `certificados` for any number of keys, certificates, uploads,
cleanings, requests, kills and instants. The assumptions are `CertificadosValidos` (each certificate answers the CSR of
one key, the uploads are finitely many, the bounds are naturals and leave room for the two uploads an installation may
start with) and `TiemposValidos` (times are naturals and `Margen + Demora < Vida`: 5 minutes and a transport
timeout against 12 hours).

*Certificates.* `InvCert` adds to `TypeOKCert` and `SinCrtHuerfano` what the database and the order of the calls
provide: who wrote each row and file (`Autoria`), what a transaction holds locked (`Candados`: what it deactivates is
in force until its COMMIT), what the unique index allows (`Indice`: one row in force, at most one inserted, and that
one has deactivated the other), what a deletion or a cleaning knows (`Alcance`: the rows it saw are not those whose
files it removes), and that each file is there from its validation on, or was lost in one of the two named ways
(`Archivos`). That a registered row has its files is not inductive without `Archivos` for the uploads still in flight
and `Alcance` for the removals already decided; that one row is in force, not without `Indice` for the inserted one
and `Candados` for the one to be replaced. One lemma per action (`...Conserva`) proves each conjunct, `CertConserva`
combines them; the kill, which may carry several COMMITs at once, uses `Indice` to show that only one of them is an
upload.

*Tickets.* `Inv` adds `Guardado` (memory and file hold every ticket under the fingerprint of its own certificate, and
agree while saves succeed) and `Pedido` (a request works for an upload that began, whose certificate no later step
changes: `SubidaFija`; an answer on its way is for that certificate and no older than `Demora`). `UtilesEn` gives the
useful tickets at an instant: what is equal now is equal later (`UtilesLuego`), which is why time keeps `DiscoFiel`.

| Theorem | Property | Rests on |
|---|---|---|
| `VigenteUnico` | `UnoVigente` | `InvCertSiempre`, `UnaActiva`, `SoloBorrar` |
| `MaterialSiempre` | `MaterialFiel` | `Archivos`, `SinCrtHuerfano`, `Guardado`, `Pedido` |
| `CacheFiel` | `DiscoFiel` | `Guardado` |
| `TicketPropio` | `TicketServible` | `EntregaBuena` |

### VpsGrafo and VpsExportacion

`vps_migration.py` writes its checks twice: the exporter asks them of the tables of the source, the importer of the
rows of the package, where the lotes, attempts, guards and journals are missing. `ExportableEsImportable` is about
those two sets of predicates alone: for any rows, what `run_preflight_on_connection` lets through makes a package that
`load_and_verify_manifest` and `validate_imported_database` accept. It assumes `Esquema`, what the tables hold
whatever is done to their rows (columns, primary key), and `RechazosConEstado`: of an individual operation only the
importer asks that a 10005 be stored as `rechazado_arca` (`scripts/vps_migration.py:3499`). The emission always stores
it so; a source where it was altered is exported and then refused. The proof follows the parts of the importer: the
pairs `(operation, lote)` are those of the operations of a lote because an operation names a lote if and only if it is
of one (`LoteDeOperacion`), and the groups a pair names are of its lote because each of them keeps its history
(`GruposDelGlobal`).

About the export itself, `CasosAssumption` asks of the sources `Esquema` and that ARCA authorised each operation and
group at most once (`UnaSolicitudPorOperacion` and `UnaAutorizacionPropia` of the other modules). `ExportacionInv`
says what the private directory holds at each step, and that a package carries `Tablas` of a source that could be
exported. `PaqueteDeHistoriaFiel` also assumes `Historica` of every source: an attempt is authorised only where ARCA
has it, and what ARCA has is in an attempt that is authorised or still open. `MCVpsMigracion` assumes it of each of
its histories, so TLC evaluates it; that one altered row in such a source is found is left to TLC.

| Theorem | Property | Rests on |
|---|---|---|
| `ExportableEsImportable` | | `Esquema`, `RechazosConEstado` |
| `PaqueteAceptado` | `PaqueteImportable`, part of `TerminalMigrable` | `ExportableEsImportable`, `ExportacionInv` |
| `PaqueteEntero` | `TypeOK`, `SinPaqueteParcial` | `ExportacionInv` |
| `RestauracionVeraz` | `RestauracionFiel` | `ExportacionInv` |
| `SinSegundaAutorizacion` | `UnaSolaAutorizacion` | `ExportacionInv`: the target has every operation of the source |
| `PaqueteDeHistoriaFiel` | `ExportacionFiel` | `Historica`, `ExportacionInv` |

### VpsImportacion

`VpsImportacionProofs` proves the safety of the run `vps_importacion` for any import processes, any package, and any
number of runs and of changes by others. The assumptions are that the files of a package are finitely many and ordered
as in the manifest (`ArchivosAssumption`), that `Ninguno` is neither a process nor a file, and that the bounds are
naturals (`NingunoAssumption`).

*The invariant* (`InductivoImportacion`). A cleanup takes away what the journal says, so `DiarioCompleto` is the heart
of `RestosInocuos`: a file the run created is in its journal through the interrupted link, its compensation and every
failed `unlink`, and no file is of a run that has not begun. `CopiaNueva` keeps the journal and what was found before
the run apart, and says that the handler of an interrupted link has entered its name. `SemillaBajoCandado`: from its
look at the target to the COMMIT a run holds the table locks, so that nobody but it can end the state of clean seeds;
with it a package never replaces rows of the application, even between racing imports. `PaqueteEnDisco`, for imports
run one at a time: the run about to commit has its files, and after it a later one found them when it was planned, so
that they are never in its journal. This is the part that fails when two imports plan at once (section 5).

*The argument.* `Prosigue` covers every step that leaves directory and journals alone, `Trabaja` every step on one file;
each action is shown to be of one of the two shapes, and `Planificar`, `Usar` and `Externo` have their own lemma. That
there is a first and a last item (`Siguiente`, `Ultimo`) is proved from the well-founded order of the finite subsets
(`ConPrimeroYUltimo`). TLC checks the invariant on the instance of the run if `INVARIANT InductivoImportacion` is added.

| Theorem | Property | Rests on |
|---|---|---|
| `ImportacionInductiva` | `InductivoImportacion` | |
| `RestosSiempreInocuos` | `RestosInocuos` | `DiarioCompleto`, `LimpiezaEnCurso` |
| `DestinoSiempreCompleto` | `DestinoCompleto` | `PaqueteEnDisco`, `UnaPorVez` |
| `DestinoSiempreRespetado` | `DestinoRespetado` | `SemillaBajoCandado`, `CopiaNueva`; `Reconoce` of each removal |

## 5. Known disagreements between the documents and the code

Each is a property, a constant or a disjunct of a module. TLC finds a counterexample in the instance named, which is
small enough to build from the configuration it says; one is kept as a run: `lote_autorizado_dos_veces`.

- *A group authorised twice* (`LoteWorker!UnaAutorizacionPorGrupo`): see section 3.
- *Runs of one lote that lose their exclusion.* That violation is one of four ways found in which two runs of a lote
  meet, and those that `Ordenado` names (section 4). (1) `encolar_lote` and the discard write over a copy that is out
  of date. (2) `recuperar_lote_interrumpido_pre_arca` (`services/lote_comprobantes_service.py:1800-1879`), without a
  guard, puts back to `validado` a lote `procesando` by looking at its state, not at its owner: with three synchronous
  requests, two of them of a second key, and one outage, the lote of a running request is given up and taken again,
  and `FallidoSinCae` fails with no restart. (3) `recuperar_lote_worker_interrumpido_pre_arca` (`:1894-2015`) queues a
  lote without attempts whoever owns it: with a synchronous and a background request of two keys `ColaSinGuarda`
  fails. (4) A creation of unknown outcome is interrupted by its identity while another request of that key is using
  it (`idempotencia_fiscal_service.py:843`). The guard of the point of sale makes the runs take turns in ARCA, it does
  not refuse the second. Runs `lote_cola` and `lote_claves` have two requests that process, too few for (2), and
  neither mixes the two modes, which (3) needs.
- *A 503 that does not mean what the guide says* (`EmisionIndividual!ReintentableSeguro`; `doble_click` with 1
  outage). The first request has sent its FECAESolicitar; a double click reads the key during an outage, nobody
  catches the error and it is answered 503. `docs/user-guide/README.md:458` promises that ARCA was not called,
  `docs/agents/arca.md:312` and `src/CHANGELOG.md:256` say it of the recovery. The recovery keeps it
  (`ReaperturaSegura`); the handler of `main.py:141`, which answers every other outage with the same status and
  header, cannot know. Nothing is sent twice by retrying: the key resolves what it sent.
- *A terminal key that is not replayed* (`EmisionIndividual!ReplayTerminalDurable`; `doble_click` with 3 requests and
  1 outage). When a failure before ARCA is recovered after the reservation, the attempt stays closed and the key is
  reopened. The retry succeeds with a second attempt, and from then on `validar_replay_individual_durable`
  (`services/idempotencia_fiscal_service.py:159`), which wants exactly one attempt and one guard, refuses to serve the
  stored response: 409 `idempotencia_terminal_no_recuperable`, although pf-19b, invariant 14, promises it.
- *A key that says `fallido` over a CAE* (`EmisionIndividual!FallidoSinCae`; the same instance). An ambiguous creation
  recovered by identity (`idempotencia_fiscal_service.py:843`), or the continuation of a stale operation, lets a second
  request of the key publish a pre-ARCA `fallido` while the first one's FECAESolicitar is authorised. The guard of the
  first keeps the point immobile, so nothing is issued twice, but pf-01 says that `fallido` is proven.
- *Requests that block each other* (`TodaSolicitudResponde` with `PostgreSQL = TRUE` and `FairSpec`). A request that
  continues a stale operation keeps the point's row locked (`api/comprobantes.py:492`) while it waits for the numbering
  lock, whose holder needs that row in order to reserve. On PostgreSQL neither advances; on SQLite the property holds
  (`tres_intentos`).
- *A lote that stays in the queue* (`LoteWorker!ColaSeAtiende`; one background request, `Chunk = 1`, 1 outage,
  `FairSpec`). A group fails before its reservation and is committed as `fallido`, then an outage queues the lote again.
  The confirmed material still has that group (`services/lote_comprobantes_service.py:1999`), so each later cycle refuses
  the lote and only logs it; `src/README.md:117` says queued lotes are processed.
- *Retrying what is left of a partial lote* (`LoteResolucion!ParcialReintentable`). With some groups issued and others
  failed, the retry passes its checks and reserves, and the boundary before ARCA then compares the group with the whole
  lote and refuses (`services/elegibilidad_rece_service.py:2225`, `2258`): the intento stays behind, `pre_arca`.
  `docs/user-guide/README.md:377-386` offers the retry for exactly those lotes.
- *Reconciling a group in flight* (`LoteResolucion!CierreReconciliadoVeraz`, in the instance of `lote_resolucion`). An
  operator may reconcile with a comprobante issued at ARCA's web a group that a retry has selected
  (`services/lote_comprobantes_service.py:2819`), which closes the lote; when the retry then fails before ARCA, the
  group goes back to `fallido` with a number, in a lote that stays `cerrado_reconciliado`.
  `docs/user-guide/README.md:410` says that there all were authorised, and `docs/api/README.md:735-742` that a group
  never goes back to `fallido`. A deletion may likewise race a reconciliation, since no intento protects the lote.
- *A repeated retry that is told it ended.* A second request with the key of a retry that is emitting reads its groups
  `reintentando`, finds nothing to do and publishes the operation as `finalizado`; the first request keeps its own answer
  (`ReplayEstable` holds: a stored answer does not change).
- *A discard counted on an older copy.* A discard writes `cerrado_con_descartes` over a lote that another session has
  just set to `requiere_reconciliacion`, because it counted before. `ResumenFiel` holds, since nothing is left to emit;
  the label is the wrong one until the next recount.
- *Imports that wait for each other* (`PuntosRece!ImportacionesResponden`; `UnAdministrador`, `UnDocumento`, `Clases =
  {"importar"}`, `MaxDia = 2`). An import that attests holds its user's and its company's rows and waits for the
  asyncio lock of a point; another import of the same administrator holds that lock and needs the user's row to insert
  its revision (`elegibilidad_rece_service.py:592-605`). pf-19b promises different revisions in series, or a 409.
- *Two importers* (`VpsImportacion!ImportadoresSerializados`; `deAUno` false). Both plan over the same directory
  before either holds the table locks (`scripts/vps_migration.py:654`, `4062`): the second counts on a file that the
  first, on failing, removes. The docstring says that the lock serialises importers until postflight. With `deAUno`
  the committed package is complete (`DestinoCompleto`).
- *A foreign file taken as the own one.* `cleanup_certificate_restore` cleans, by its docstring, own files. It
  compares device and inode with `lstat` and then unlinks by name (`scripts/vps_migration.py:4753-4769`; the
  compensation of a link does the same, `:4638-4648`). A file that somebody puts at a name after the run entered it in
  its journal may have the inode that the run freed, or arrive between the two calls, and is removed. `AjenoIntacto`
  promises nothing of such a file; what was there before the entry stays.
- *A registered certificate without its files.* `MaterialFiel` names the two ways. An upload whose COMMIT went
  unanswered removes the `.crt` of a row that was committed (`api/certificados.py:536-549`). A deletion or a cleaning
  of orphans, whose scan cannot see an upload in flight, removes the key or the `.crt` that upload is about to
  register (`api/certificados.py:320`, `services/almacenamiento_service.py:558`); `docs/user-guide/README.md:991-1001`
  says active or referenced files are never cleanable. A killed process, a write or a chmod that fails
  (`services/certificados_service.py:480-492`) and an unlink that fails (`api/certificados.py:90-95`, only logged)
  leave a `.crt` without a row, and a cleaning may remove a `.key` that still waits for its certificate from ARCA.

Three more need no run. `docs/agents/arca.md:312-320` says that a key, or a lote, goes back to be retried only with
zero attempts: `recuperar_guarda_interrumpida_pre_arca` also does it after closing its own attempt, and a test expects
that. `docs/agents/manual-qa.md:333` and `pf-02b-numeracion-masiva-design.md:452` want the intact groups of a partial
stale lote queued again, or at least preserved: `bloquear_lote_procesando_stale` diagnoses only lotes that are wholly
intact and, when that fails, holds the intact groups too (`BloquearFin`). Both are conservative: nothing is emitted
twice. And two *different* keys with the same payload are two operations: because the numbering lock is released
before the publication commits (`idempotencia_fiscal_service.py:1066`), the second may look for duplicates before the
first one's comprobante is visible. The design promises the duplicate warning only for saved comprobantes.

## 6. What is only model-checked, and what is not modelled

*Only model-checked.* Liveness (`TodaSolicitudResponde`, `ProcesandoSeDecide`, `Termina`), which is out of the
prover's reach; that a stopped and altered source is refused or packed faithfully (`ExportacionFiel` over the altered
sources of `MCVpsMigracion`); and that a source where everything ended is exportable (the first half of
`TerminalMigrable`), since which sources the program can leave is what `MCVpsMigracion` enumerates. Four of
`LoteWorker`, `ColaSinGuarda` (the other half of `ColaCoherente`), `CompletadoVeraz`, `FallidoSinCae` and
`UnEnvioPorGrupo`, are theorems only for one client (section 4): other requests break them, and TLC finds each of them
violated in the instance of `lote_autorizado_dos_veces`. For two keys, or two requests at once, their runs show them
on an instance where that does not happen, as far as two requests go.

*Limits of the models.* Of the lote, the import and validation of the file, several lotes in one cycle and the
confirmation of duplicates or of the date in a retry are not modelled; a discard or a reconciliation takes one group
at a time. `PuntosRece` writes one ledger for both ambientes, since the head of homologacion is never positive; a
synchronisation changes `activo` together with `bloqueado`, so that only an edit blocks a point for a while; an
attestation may leave a positive head on a point that ARCA reports blocked, which is not emitible; an answer of ARCA
may be applied late, and the next synchronisation repairs it; recovery of guards belongs to `EmisionIndividual`; no
liveness is claimed, because of the imports that wait for each other. `Certificados` has one issuer and one ambiente,
and compares the CUIT of an upload at its start. Of the ticket cache, `invalidate_cache`, `clear` and
`cleanup_expired` have no callers. Of storage only the cleaning of orphan certificates is modelled: the export of a
backup with its token, and the release of files, are sequential and touch files nobody else writes.

*Not modelled.* `PROJECT.json` lists each part of the system that has no module with the reason. Left out on purpose:
cryptography (CMS, X.509, JWT), PDF rendering, layout-dependent parsing of ARCA's constancias, schema history, the
frontend.

## 7. Plan

1. An abstract specification of groups emitted at most once, which `LoteResolucion` implements, and `LoteWorker` with
   one client. If the code gains the checks of `Ordenado`, `PasoOrden` gives the theorems for any requests.
2. `PuntosRece`: an abstract append-only ledger that it implements.
3. `ResolucionLegacy`: inventory, plan and apply of PF-19 legacy operations.
4. Import formats: the life cycle of versions and profiles. Pure operators: totals and IVA of a comprobante, ranges of a
   batch, each checked against a reference definition.
