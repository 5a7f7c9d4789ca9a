----------------------------- MODULE TicketsWsaa -----------------------------
(***************************************************************************)
(* The WSAA login over the certificates of Certificados, and the cache of  *)
(* its tickets: arca/wsaa.py, arca/cache.py and the two callers that pick  *)
(* a certificate, FacturacionService for an emission and                   *)
(* verificar_conexion for the one an administrator selects.                *)
(*                                                                         *)
(* A ticket takes two awaits to obtain (the row, the SOAP call in a        *)
(* thread); by the end the row may be inactive or deleted, another request *)
(* may have stored its own ticket, and time has passed.  The cache is a    *)
(* dictionary by service, CUIT, ambiente and fingerprint of the .crt (only *)
(* the last varies here), rewritten in place to a JSON file after every    *)
(* change and read once, at start-up.  Its critical sections have no await *)
(* inside, so each is part of the step that runs it.                       *)
(***************************************************************************)
EXTENDS Certificados

CONSTANTS
    Peticiones,    \* concurrent requests that need a ticket
    Vida,          \* how long a ticket lasts (12 h), in ticks
    Margen,        \* how near its end it is not used any more (5 min)
    Demora,        \* bound: how long WSAA's answer can take, less than Vida
    MaxReloj       \* bound: last instant

ASSUME TiemposValidos ==
    /\ Vida \in Nat /\ Margen \in Nat /\ Demora \in Nat /\ MaxReloj \in Nat
    /\ Margen + Demora < Vida

VARIABLES
    reloj,
    memoria,     \* TokenCache._cache: a partial function of Contenidos
    disco,       \* the cache file: [legible, tickets]
    alDia,       \* the last save reached the disk
    pet          \* what each request is doing

varsTicket == <<reloj, memoria, disco, alDia, pet>>
vars == <<varsCert, varsTicket>>

Ticket == [cert : Contenidos, vence : Vida..(MaxReloj + Vida)]
Ocioso == [pc |-> "libre", fila |-> {}, fuerza |-> FALSE, recibido |-> {}]
Vacia == [c \in {} |-> 0]

(* Fault: only is_expired. *)
UtilSinMargen(t) == reloj < t.vence

(* is_expired or _is_near_expiration: the second implies the first. *)
Util(t) == reloj < t.vence - Margen

Utiles(cache) == {c \in DOMAIN cache : Util(cache[c])}
SoloUtiles(cache) == [c \in Utiles(cache) |-> cache[c]]
Con(cache, c, t) == [d \in DOMAIN cache \cup {c} |-> IF d = c THEN t ELSE cache[d]]
Sin(cache, c) == [d \in DOMAIN cache \ {c} |-> cache[d]]

(* Fault: a new ticket waits for the next deletion to be saved. *)
GuardarNada(cache) == UNCHANGED <<disco, alDia>>

(* _save_to_disk: the useful tickets, or no file when there is none.  An   *)
(* OSError is ignored: the old file, or an empty one, stays.               *)
GuardarEnDisco(cache) ==
    \/ disco' = [legible |-> TRUE, tickets |-> SoloUtiles(cache)] /\ alDia' = TRUE
    \/ disco' = disco /\ alDia' = FALSE
    \/ disco' = [legible |-> FALSE, tickets |-> Vacia] /\ alDia' = FALSE

(* _load_from_disk *)
Releidos == IF disco.legible THEN SoloUtiles(disco.tickets) ELSE Vacia

-----------------------------------------------------------------------------
(* _obtener_certificado_activo *)
ElegirActivo(p) ==
    /\ pet[p].pc = "libre" /\ Empieza
    /\ \E u \in Activas : pet' = [pet EXCEPT ![p].pc = "elegido", ![p].fila = {u}]
    /\ UNCHANGED <<llave, crt, fila, sub, lim, caidas, perdida, solapada,
                   reloj, memoria, disco, alDia>>

(* verificar_conexion: any row of the issuer, and force_new. *)
ElegirAVerificar(p) ==
    /\ pet[p].pc = "libre" /\ Empieza
    /\ \E u \in Subidas : /\ Confirmada(u)
                          /\ pet' = [pet EXCEPT ![p].pc = "elegido", ![p].fila = {u},
                                                ![p].fuerza = TRUE]
    /\ UNCHANGED <<llave, crt, fila, sub, lim, caidas, perdida, solapada,
                   reloj, memoria, disco, alDia>>

Material(u) == crt[u] = "disco" /\ llave[sub[u].clave] = "disco"

(* Fault: one key for the issuer, as before v2. *)
HuellaUnica(u) == "emisor"

(* The fingerprint of the .crt the request selected. *)
Huella(u) == sub[u].cert

EnCache(u) == Huella(u) \in DOMAIN memoria
Servible(u) == EnCache(u) /\ Util(memoria[Huella(u)])
Gastado(p, u) == Material(u) /\ ~pet[p].fuerza /\ EnCache(u) /\ ~Servible(u)

(* requerir_material_certificado and the first half of login, without an   *)
(* await: a useful ticket of the cache ends it, a worn one is removed and  *)
(* the removal saved, and the TRA is signed with the files.                *)
SinMaterial(p, u) ==
    /\ ~Material(u)
    /\ pet' = [pet EXCEPT ![p] = Ocioso]
    /\ UNCHANGED <<memoria, disco, alDia>>

TomarDeCache(p, u) ==
    /\ Material(u) /\ ~pet[p].fuerza /\ Servible(u)
    /\ pet' = [pet EXCEPT ![p].pc = "listo", ![p].recibido = {memoria[Huella(u)]}]
    /\ UNCHANGED <<memoria, disco, alDia>>

PedirTicket(p, u) ==
    /\ Material(u)
    /\ pet[p].fuerza \/ ~Servible(u)
    /\ pet' = [pet EXCEPT ![p].pc = "en_wsaa"]
    /\ IF Gastado(p, u)
       THEN memoria' = Sin(memoria, Huella(u)) /\ GuardarEnDisco(memoria')
       ELSE UNCHANGED <<memoria, disco, alDia>>

Acceder(p) ==
    /\ pet[p].pc = "elegido"
    /\ \E u \in pet[p].fila : SinMaterial(p, u) \/ TomarDeCache(p, u) \/ PedirTicket(p, u)
    /\ UNCHANGED <<varsCert, reloj>>

Vencimiento == reloj + Vida

(* WSAA issues a ticket to whoever signed, and its answer is on its way. *)
WsaaEmite(p) ==
    /\ pet[p].pc = "en_wsaa"
    /\ \E u \in pet[p].fila :
        pet' = [pet EXCEPT ![p].pc = "respondido",
                           ![p].recibido = {[cert |-> sub[u].cert, vence |-> Vencimiento]}]
    /\ UNCHANGED <<varsCert, reloj, memoria, disco, alDia>>

(* A SOAP fault, a transport error, an answer that does not parse. *)
WsaaRechaza(p) ==
    /\ pet[p].pc \in {"en_wsaa", "respondido"}
    /\ pet' = [pet EXCEPT ![p] = Ocioso]
    /\ UNCHANGED <<varsCert, reloj, memoria, disco, alDia>>

(* The second half of login: the ticket goes to the cache and the caller. *)
GuardarTicket(p) ==
    /\ pet[p].pc = "respondido"
    /\ \E u \in pet[p].fila, t \in pet[p].recibido :
        /\ memoria' = Con(memoria, Huella(u), t)
        /\ GuardarEnDisco(memoria')
    /\ pet' = [pet EXCEPT ![p].pc = "listo"]
    /\ UNCHANGED <<varsCert, reloj>>

(* The caller talks to WSFE with it and ends. *)
Terminar(p) ==
    /\ pet[p].pc = "listo"
    /\ pet' = [pet EXCEPT ![p] = Ocioso]
    /\ UNCHANGED <<varsCert, reloj, memoria, disco, alDia>>

Guardando(p) ==
    \/ pet[p].pc = "respondido"
    \/ pet[p].pc = "elegido" /\ \E u \in pet[p].fila : Gastado(p, u)

(* The kill of Certificados, at rest or in the middle of a save, whose     *)
(* file is left truncated; the next process reads what there is.           *)
CaerYVolver ==
    /\ Caer
    /\ \/ memoria' = Releidos /\ UNCHANGED <<disco, alDia>>
       \/ /\ \E p \in Peticiones : Guardando(p)
          /\ disco' = [legible |-> FALSE, tickets |-> Vacia]
          /\ alDia' = FALSE /\ memoria' = Vacia
    /\ pet' = [p \in Peticiones |-> Ocioso]
    /\ UNCHANGED reloj

(* An answer of WSAA is not older than Demora: the transport times out     *)
(* long before a ticket wears out.                                         *)
Reciente(p) == \A t \in pet[p].recibido :
    pet[p].pc = "respondido" => reloj < t.vence - Vida + Demora

Avanzar ==
    /\ reloj < MaxReloj
    /\ \A p \in Peticiones : Reciente(p)
    /\ reloj' = reloj + 1
    /\ UNCHANGED <<varsCert, memoria, disco, alDia, pet>>

-----------------------------------------------------------------------------
Init ==
    /\ InitCert
    /\ reloj = 0 /\ memoria = Vacia /\ disco = [legible |-> TRUE, tickets |-> Vacia]
    /\ alDia = TRUE
    /\ pet = [p \in Peticiones |-> Ocioso]

PasoCertificados ==
    /\ \/ \E k \in Claves : GenerarCsr(k)
       \/ \E u \in Subidas : PasoSubida(u)
       \/ \E l \in Limpiezas : PasoLimpieza(l)
    /\ UNCHANGED varsTicket

Paso(p) ==
    \/ ElegirActivo(p) \/ ElegirAVerificar(p) \/ Acceder(p)
    \/ WsaaEmite(p) \/ WsaaRechaza(p) \/ GuardarTicket(p) \/ Terminar(p)

Next ==
    \/ PasoCertificados
    \/ \E p \in Peticiones : Paso(p)
    \/ CaerYVolver \/ Avanzar

Spec == Init /\ [][Next]_vars

-----------------------------------------------------------------------------
Cache(f) == DOMAIN f \subseteq Contenidos /\ \A c \in DOMAIN f : f[c] \in Ticket

TypeOK ==
    /\ TypeOKCert
    /\ reloj \in 0..MaxReloj
    /\ Cache(memoria) /\ disco.legible \in BOOLEAN /\ Cache(disco.tickets)
    /\ alDia \in BOOLEAN
    /\ pet \in [Peticiones -> [pc : {"libre", "elegido", "en_wsaa", "respondido", "listo"},
                               fila : SUBSET Subidas, fuerza : BOOLEAN,
                               recibido : SUBSET Ticket]]
    /\ \A p \in Peticiones : pet[p].pc # "libre" => Cardinality(pet[p].fila) = 1

(* The rows and the cache keep their shape, and rows and files correspond. *)
MaterialFiel == TypeOK /\ FilaConMaterial /\ SinCrtHuerfano

(* A request gets a ticket of the very certificate it selected, even if    *)
(* others are verified, renewed or deleted meanwhile, and never one near   *)
(* its end: not one from the cache, nor one read back at start-up, nor an  *)
(* answer stored late.                                                     *)
TicketServible ==
    [][\A p \in Peticiones : pet[p].pc # "listo" /\ pet'[p].pc = "listo"
            => \A u \in pet[p].fila, t \in pet'[p].recibido :
                  t.cert = sub[u].cert /\ t.vence - reloj > Margen]_vars

(* While no save has failed, a restart loses no useful ticket and revives  *)
(* none that was removed: what the file holds is what the memory holds.    *)
DiscoFiel ==
    alDia => /\ disco.legible
             /\ SoloUtiles(disco.tickets) = SoloUtiles(memoria)
=============================================================================
