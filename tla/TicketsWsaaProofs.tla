-------------------------- MODULE TicketsWsaaProofs --------------------------
(***************************************************************************)
(* Theorems about TicketsWsaa and the certificates under it, for any       *)
(* number of keys, uploads, cleanings and requests and for every bound.    *)
(***************************************************************************)
EXTENDS TicketsWsaa, FiniteSetTheorems, TLAPS

-----------------------------------------------------------------------------
(* The inductive invariant of the certificates.                            *)

(* Rows with something written in the table, by now or before. *)
Escritas == {u \in Subidas : fila[u] # "no"}
Iniciadas == {u \in Subidas : sub[u].pc # "inicio"}

(* A row is written by an upload that ended; a file by one that began.     *)
Autoria ==
    \A u \in Subidas :
        /\ sub[u].pc # "inicio" => sub[u].cert \in Contenidos /\ sub[u].clave \in Claves
        /\ fila[u] # "no" => sub[u].pc \in {"fin", "fallida", "abandonada"}
        /\ crt[u] # "sin_guardar" => sub[u].pc # "inicio"

(* Row locks: what a transaction deactivates is in force until its COMMIT, *)
(* and nobody else deactivates or deletes it.                              *)
Candados ==
    /\ \A u \in Subidas : IF ConTransaccion(u) THEN sub[u].viejas \subseteq Activas
                                               ELSE sub[u].viejas = {}
    /\ \A u, v \in Subidas : u # v => sub[u].viejas \cap sub[v].viejas = {}
    /\ \A u \in Subidas, l \in Limpiezas :
          lim[l].pc = "borrando" => sub[u].viejas \cap lim[l].borra = {}

(* The unique index: one row in force, one inserted and not committed, and *)
(* the second has deactivated the first.                                   *)
Indice ==
    /\ \A u, v \in Subidas : fila[u] = "activo" /\ fila[v] = "activo" => u = v
    /\ \A u, v \in Subidas : sub[u].pc = "insertada" /\ sub[v].pc = "insertada" => u = v
    /\ \A u \in Subidas : sub[u].pc = "insertada" => Activas \subseteq sub[u].viejas

(* What a deletion or a cleaning knows of the rows.                        *)
Alcance ==
    \A l \in Limpiezas :
        /\ lim[l].pc \in {"leida", "borrando"} => lim[l].borra \subseteq Escritas
        /\ lim[l].pc = "borrado" => \A u \in lim[l].borra : fila[u] = "borrada"
        /\ lim[l].pc = "decidido" =>
              /\ lim[l].borra \cap lim[l].vistas = {}
              /\ lim[l].vistas \subseteq Escritas
              /\ \A u \in lim[l].vistas : sub[u].clave \notin lim[l].claves

(* The files of a row are there from the moment its upload validated them. *)
Validada(u) ==
    sub[u].pc \in {"guardado", "esperando", "desactivada", "insertada"} \/ Confirmada(u)
Material1(u) == crt[u] = "disco" \/ u \in perdida \/ <<u, "crt">> \in solapada
Material2(u) == llave[sub[u].clave] = "disco" \/ <<u, "key">> \in solapada
Archivos == \A u \in Subidas : Validada(u) => Material1(u) /\ Material2(u)

InvCert ==
    /\ TypeOKCert /\ Autoria /\ Candados /\ Indice /\ Alcance /\ Archivos
    /\ SinCrtHuerfano

-----------------------------------------------------------------------------
(* The inductive invariant of the tickets.                                 *)

Propia(f) == \A c \in DOMAIN f : f[c].cert = c

(* The cache and its file hold tickets under the key of their certificate. *)
Guardado ==
    /\ Cache(memoria) /\ Propia(memoria)
    /\ Cache(disco.tickets) /\ Propia(disco.tickets)
    /\ disco.legible \in BOOLEAN /\ alDia \in BOOLEAN /\ DiscoFiel

EstadosPet == [pc : {"libre", "elegido", "en_wsaa", "respondido", "listo"},
               fila : SUBSET Subidas, fuerza : BOOLEAN, recibido : SUBSET Ticket]

(* A request works for an upload that began, so that its certificate is    *)
(* settled, and an answer on its way is for it and no older than Demora.   *)
Fiel(n) ==
    /\ n.fila \subseteq Iniciadas
    /\ n.pc = "respondido" =>
          \A u \in n.fila, t \in n.recibido :
              t.cert = sub[u].cert /\ reloj <= t.vence - Vida + Demora

Pedido ==
    /\ pet \in [Peticiones -> EstadosPet]
    /\ \A p \in Peticiones : pet[p].pc # "libre" => Cardinality(pet[p].fila) = 1
    /\ \A p \in Peticiones : Fiel(pet[p])

Inv == InvCert /\ reloj \in 0..MaxReloj /\ Guardado /\ Pedido

-----------------------------------------------------------------------------
LEMMA GenerarCsrConserva ==
    ASSUME InvCert, NEW k \in Claves, GenerarCsr(k)
    PROVE  InvCert'
<1> USE CertificadosValidos DEF InvCert, GenerarCsr, Empieza, filasYArchivos, Confirmada, Activas,
       EnVuelo, ConTransaccion, Bloqueadas, Registradas, Referentes, SinLimpiar,
       FilasBorradas, FilasRelevadas, Valido, IndiceEnEspera, IndiceAdmite
<1>1. TypeOKCert'
  BY DEF TypeOKCert, EstadosSubida, EstadosLimpieza
<1>2. Autoria'
  BY DEF TypeOKCert, EstadosSubida, EstadosLimpieza, Autoria
<1>3. Candados'
  BY DEF TypeOKCert, EstadosSubida, EstadosLimpieza, Candados, Autoria
<1>4. Indice'
  BY DEF TypeOKCert, EstadosSubida, EstadosLimpieza, Indice, Autoria
<1>5. Alcance'
  BY DEF TypeOKCert, EstadosSubida, EstadosLimpieza, Alcance, Autoria, Escritas, Candados
<1>6. Archivos'
  BY DEF TypeOKCert, EstadosSubida, EstadosLimpieza, Archivos, Validada, Material1, Material2, Autoria, Alcance
<1>7. SinCrtHuerfano'
  BY DEF TypeOKCert, EstadosSubida, EstadosLimpieza, SinCrtHuerfano, Autoria
<1> QED BY <1>1, <1>2, <1>3, <1>4, <1>5, <1>6, <1>7 DEF InvCert

LEMMA ComprobarClaveConserva ==
    ASSUME InvCert, NEW u \in Subidas, NEW c \in Contenidos, NEW k \in Claves, ComprobarClave(u, c, k)
    PROVE  InvCert'
<1> USE CertificadosValidos DEF InvCert, ComprobarClave, Empieza, filasYArchivos, Confirmada, Activas,
       EnVuelo, ConTransaccion, Bloqueadas, Registradas, Referentes, SinLimpiar,
       FilasBorradas, FilasRelevadas, Valido, IndiceEnEspera, IndiceAdmite
<1>1. TypeOKCert'
  <2> DEFINE nuevo == [sub[u] EXCEPT !.pc = IF llave[k] = "disco" THEN "clave_vista" ELSE "fallida",
                               !.cert = c, !.clave = k]
  <2>1. sub[u] \in EstadosSubida
    BY DEF TypeOKCert
  <2>2. nuevo \in EstadosSubida
    BY <2>1 DEF EstadosSubida
  <2>3. sub' = [sub EXCEPT ![u] = nuevo]
    OBVIOUS
  <2> HIDE DEF nuevo
  <2>4. sub' \in [Subidas -> EstadosSubida]
    <3>1. sub \in [Subidas -> EstadosSubida]
      BY DEF TypeOKCert
    <3> HIDE DEF InvCert, ComprobarClave
    <3> QED BY <2>2, <2>3, <3>1
  <2> QED BY <2>4 DEF TypeOKCert
<1>2. Autoria'
  BY DEF TypeOKCert, EstadosSubida, EstadosLimpieza, Autoria
<1>3. Candados'
  BY DEF TypeOKCert, EstadosSubida, EstadosLimpieza, Candados, Autoria
<1>4. Indice'
  BY DEF TypeOKCert, EstadosSubida, EstadosLimpieza, Indice, Autoria
<1>5. Alcance'
  BY SMTT(20) DEF TypeOKCert, EstadosSubida, EstadosLimpieza, Alcance, Autoria, Escritas, Candados
<1>6. Archivos'
  BY DEF TypeOKCert, EstadosSubida, EstadosLimpieza, Archivos, Validada, Material1, Material2, Autoria, Alcance
<1>7. SinCrtHuerfano'
  BY DEF TypeOKCert, EstadosSubida, EstadosLimpieza, SinCrtHuerfano, Autoria
<1> QED BY <1>1, <1>2, <1>3, <1>4, <1>5, <1>6, <1>7 DEF InvCert

\* An upload that ends without success removes its .crt, or leaves it abandoned
LEMMA ArchivoEliminado ==
    ASSUME TypeOKCert, NEW u \in Subidas, EliminarArchivo(u)
    PROVE  \E nuevo \in EstadosSubida, archivo \in {"sin_guardar", "disco", "borrado"} :
              /\ sub' = [sub EXCEPT ![u] = nuevo] /\ crt' = [crt EXCEPT ![u] = archivo]
              /\ nuevo.cert = sub[u].cert /\ nuevo.clave = sub[u].clave
              /\ nuevo.viejas = {} /\ nuevo.pc \in {"fallida", "abandonada"}
              /\ archivo = "disco" => nuevo.pc = "abandonada"
              /\ crt[u] = "sin_guardar" => archivo = "sin_guardar"
<1>1. sub[u] \in EstadosSubida /\ sub \in [Subidas -> EstadosSubida]
      /\ crt \in [Subidas -> {"sin_guardar", "disco", "borrado"}]
  BY DEF TypeOKCert
<1>. DEFINE con(pc) == [sub[u] EXCEPT !.pc = pc, !.foto = {}, !.viejas = {}]
<1>2. ASSUME NEW pc \in {"fallida", "abandonada"}
      PROVE  /\ con(pc) \in EstadosSubida
             /\ con(pc).cert = sub[u].cert /\ con(pc).clave = sub[u].clave
             /\ con(pc).viejas = {} /\ con(pc).pc = pc
  BY <1>1 DEF EstadosSubida
<1>3. CASE /\ sub' = [sub EXCEPT ![u].pc = "fallida", ![u].foto = {}, ![u].viejas = {}]
           /\ crt' = [crt EXCEPT ![u] = IF @ = "disco" THEN "borrado" ELSE @]
  <2>. DEFINE archivo == IF crt[u] = "disco" THEN "borrado" ELSE crt[u]
  <2>1. sub' = [sub EXCEPT ![u] = con("fallida")] /\ crt' = [crt EXCEPT ![u] = archivo]
    BY <1>3
  <2>2. archivo \in {"sin_guardar", "disco", "borrado"} /\ archivo # "disco"
        /\ (crt[u] = "sin_guardar" => archivo = "sin_guardar")
    BY <1>1
  <2>. HIDE DEF archivo, con
  <2>. QED BY <1>2, <2>1, <2>2
<1>4. CASE /\ crt[u] = "disco" /\ UNCHANGED crt
           /\ sub' = [sub EXCEPT ![u].pc = "abandonada", ![u].foto = {}, ![u].viejas = {}]
  <2>1. sub' = [sub EXCEPT ![u] = con("abandonada")] /\ crt' = [crt EXCEPT ![u] = "disco"]
    BY <1>1, <1>4
  <2>. HIDE DEF con
  <2>. QED BY <1>2, <1>4, <2>1
<1>. QED BY <1>3, <1>4 DEF EliminarArchivo

LEMMA FallarConserva ==
    ASSUME InvCert, NEW u \in Subidas, EnVuelo(u), Fallar(u), perdida' = perdida
    PROVE  InvCert'
<1> USE DEF InvCert, Confirmada, Activas, EnVuelo, ConTransaccion
<1>a. PICK nuevo \in EstadosSubida, archivo \in {"sin_guardar", "disco", "borrado"} :
        /\ sub' = [sub EXCEPT ![u] = nuevo] /\ crt' = [crt EXCEPT ![u] = archivo]
        /\ nuevo.cert = sub[u].cert /\ nuevo.clave = sub[u].clave
        /\ nuevo.viejas = {} /\ nuevo.pc \in {"fallida", "abandonada"}
        /\ archivo = "disco" => nuevo.pc = "abandonada"
        /\ crt[u] = "sin_guardar" => archivo = "sin_guardar"
  BY ArchivoEliminado DEF Fallar
<1>b. UNCHANGED <<llave, fila, lim, sucesos, caidas, perdida, solapada>>
  BY DEF Fallar
<1>1. TypeOKCert'
  BY <1>a, <1>b DEF TypeOKCert
<1>2. Autoria'
  BY <1>a, <1>b DEF TypeOKCert, Autoria
<1>3. Candados'
  BY <1>a, <1>b DEF TypeOKCert, Candados
<1>4. Indice'
  BY <1>a, <1>b DEF TypeOKCert, Indice
<1>5. Alcance'
  BY <1>a, <1>b DEF TypeOKCert, Alcance, Escritas
<1>6. Archivos'
  BY <1>a, <1>b DEF TypeOKCert, Archivos, Validada, Material1, Material2, Autoria
<1>7. SinCrtHuerfano'
  BY <1>a, <1>b DEF TypeOKCert, SinCrtHuerfano
<1> QED BY <1>1, <1>2, <1>3, <1>4, <1>5, <1>6, <1>7 DEF InvCert

LEMMA BuscarActivasConserva ==
    ASSUME InvCert, NEW u \in Subidas, BuscarActivas(u)
    PROVE  InvCert'
<1> USE CertificadosValidos DEF InvCert, BuscarActivas, Empieza, filasYArchivos, Confirmada, Activas,
       EnVuelo, ConTransaccion, Bloqueadas, Registradas, Referentes, SinLimpiar,
       FilasBorradas, FilasRelevadas, Valido, IndiceEnEspera, IndiceAdmite
<1>1. TypeOKCert'
  <2> DEFINE nuevo == [sub[u] EXCEPT !.pc = "esperando", !.foto = Activas]
  <2>1. sub[u] \in EstadosSubida
    BY DEF TypeOKCert
  <2>2. nuevo \in EstadosSubida
    BY <2>1 DEF EstadosSubida
  <2>3. sub' = [sub EXCEPT ![u] = nuevo]
    OBVIOUS
  <2> HIDE DEF nuevo
  <2>4. sub' \in [Subidas -> EstadosSubida]
    <3>1. sub \in [Subidas -> EstadosSubida]
      BY DEF TypeOKCert
    <3> HIDE DEF InvCert, BuscarActivas
    <3> QED BY <2>2, <2>3, <3>1
  <2> QED BY <2>4 DEF TypeOKCert
<1>2. Autoria'
  BY SMTT(20) DEF TypeOKCert, EstadosSubida, EstadosLimpieza, Autoria
<1>3. Candados'
  <2>1. \A v \in Subidas : sub'[v].viejas = sub[v].viejas
    BY DEF TypeOKCert, EstadosSubida
  <2>2. \A v \in Subidas : ConTransaccion(v)' <=> ConTransaccion(v)
    BY DEF TypeOKCert, EstadosSubida
  <2> QED BY <2>1, <2>2 DEF Candados
<1>4. Indice'
  BY DEF TypeOKCert, EstadosSubida, EstadosLimpieza, Indice, Autoria
<1>5. Alcance'
  BY DEF TypeOKCert, EstadosSubida, EstadosLimpieza, Alcance, Autoria, Escritas, Candados
<1>6. Archivos'
  BY DEF TypeOKCert, EstadosSubida, EstadosLimpieza, Archivos, Validada, Material1, Material2, Autoria, Alcance
<1>7. SinCrtHuerfano'
  BY DEF TypeOKCert, EstadosSubida, EstadosLimpieza, SinCrtHuerfano, Autoria
<1> QED BY <1>1, <1>2, <1>3, <1>4, <1>5, <1>6, <1>7 DEF InvCert

\* A row on its way to be deleted is locked
LEMMA BorradoBloquea ==
    ASSUME NEW limpieza \in Limpiezas, lim[limpieza].pc = "borrando"
    PROVE  lim[limpieza].borra \subseteq Bloqueadas
BY DEF Bloqueadas

LEMMA DesactivarConserva ==
    ASSUME InvCert, NEW u \in Subidas, Desactivar(u)
    PROVE  InvCert'
<1> USE DEF InvCert, Confirmada, Activas, EnVuelo, ConTransaccion
<1>a. /\ sub[u].pc = "esperando" /\ sub[u].foto \cap Bloqueadas = {}
      /\ UNCHANGED <<llave, crt, fila, lim, sucesos, caidas, perdida, solapada>>
  BY DEF Desactivar, filasYArchivos
<1>b. PICK nuevo \in EstadosSubida :
        /\ sub' = [sub EXCEPT ![u] = nuevo]
        /\ nuevo.cert = sub[u].cert /\ nuevo.clave = sub[u].clave
        /\ nuevo.viejas = sub[u].foto \cap Activas /\ nuevo.pc = "desactivada"
  <2> DEFINE nuevo == [sub[u] EXCEPT !.pc = "desactivada", !.foto = {},
                               !.viejas = sub[u].foto \cap Activas]
  <2>1. sub[u] \in EstadosSubida
    BY DEF TypeOKCert
  <2>2. /\ nuevo \in EstadosSubida
        /\ nuevo.cert = sub[u].cert /\ nuevo.clave = sub[u].clave
        /\ nuevo.viejas = sub[u].foto \cap Activas /\ nuevo.pc = "desactivada"
    BY <2>1 DEF EstadosSubida
  <2>3. sub' = [sub EXCEPT ![u] = nuevo]
    BY ZenonT(30) DEF Desactivar
  <2> HIDE DEF nuevo
  <2> QED BY <2>2, <2>3
<1>1. TypeOKCert'
  <2>1. sub' \in [Subidas -> EstadosSubida]
    BY <1>b DEF TypeOKCert
  <2> QED BY <1>a, <2>1 DEF TypeOKCert
<1>2. Autoria'
  BY <1>a, <1>b DEF TypeOKCert, Autoria
<1>3. Candados'
  <2>1. \A v \in Subidas \ {u} : sub'[v] = sub[v]
    BY <1>b DEF TypeOKCert
  <2>2. sub'[u] = nuevo
    BY <1>b DEF TypeOKCert
  <2>3. ASSUME NEW v \in Subidas \ {u} PROVE nuevo.viejas \cap sub[v].viejas = {}
    <3>1. CASE ConTransaccion(v)
      <4>1. sub[v].viejas \subseteq Bloqueadas
        BY <2>3, <3>1 DEF Bloqueadas
      <4> QED BY <1>a, <1>b, <4>1
    <3>2. CASE ~ConTransaccion(v)
      BY <2>3, <3>2 DEF Candados
    <3> QED BY <3>1, <3>2
  <2>4. ASSUME NEW l \in Limpiezas, lim[l].pc = "borrando" PROVE nuevo.viejas \cap lim[l].borra = {}
    <3>1. lim[l].borra \subseteq Bloqueadas
      BY <2>4, BorradoBloquea
    <3> QED BY <1>a, <1>b, <3>1
  <2>5. ASSUME NEW v \in Subidas
        PROVE  IF ConTransaccion(v)' THEN sub'[v].viejas \subseteq Activas' ELSE sub'[v].viejas = {}
    <3>1. CASE v = u
      BY <1>a, <1>b, <2>2, <3>1
    <3>2. CASE v # u
      BY <1>a, <2>1, <3>2 DEF Candados
    <3> QED BY <3>1, <3>2
  <2>6. ASSUME NEW v \in Subidas, NEW w \in Subidas, v # w
        PROVE  sub'[v].viejas \cap sub'[w].viejas = {}
    <3>1. CASE v = u \/ w = u
      BY <2>1, <2>2, <2>3, <2>6, <3>1
    <3>2. CASE v # u /\ w # u
      BY <2>1, <2>6, <3>2 DEF Candados
    <3> QED BY <3>1, <3>2
  <2>7. ASSUME NEW v \in Subidas, NEW l \in Limpiezas, lim'[l].pc = "borrando"
        PROVE  sub'[v].viejas \cap lim'[l].borra = {}
    <3>1. CASE v = u
      BY <1>a, <2>2, <2>4, <2>7, <3>1
    <3>2. CASE v # u
      BY <1>a, <2>1, <2>7, <3>2 DEF Candados
    <3> QED BY <3>1, <3>2
  <2> QED BY <2>5, <2>6, <2>7 DEF Candados
<1>4. Indice'
  BY <1>a, <1>b DEF TypeOKCert, Indice
<1>5. Alcance'
  BY <1>a, <1>b DEF TypeOKCert, Alcance, Escritas
<1>6. Archivos'
  BY <1>a, <1>b DEF TypeOKCert, Archivos, Validada, Material1, Material2, Autoria
<1>7. SinCrtHuerfano'
  BY <1>a, <1>b DEF TypeOKCert, SinCrtHuerfano
<1> QED BY <1>1, <1>2, <1>3, <1>4, <1>5, <1>6, <1>7 DEF InvCert

LEMMA ConfirmarSubidaConserva ==
    ASSUME InvCert, NEW u \in Subidas, ConfirmarSubida(u)
    PROVE  InvCert'
<1> USE DEF InvCert, Confirmada, Activas, EnVuelo, ConTransaccion, FilasRelevadas
<1>a. /\ sub[u].pc = "insertada" /\ fila' = FilasRelevadas(u)
      /\ sub' = [sub EXCEPT ![u].pc = "fin", ![u].viejas = {}]
      /\ UNCHANGED <<llave, crt, lim, sucesos, caidas, perdida, solapada>>
  BY DEF ConfirmarSubida
<1>b. PICK nuevo \in EstadosSubida :
        /\ sub' = [sub EXCEPT ![u] = nuevo]
        /\ nuevo.cert = sub[u].cert /\ nuevo.clave = sub[u].clave
        /\ nuevo.viejas = {} /\ nuevo.pc = "fin"
  <2> DEFINE nuevo == [sub[u] EXCEPT !.pc = "fin", !.viejas = {}]
  <2>1. sub[u] \in EstadosSubida
    BY DEF TypeOKCert
  <2>2. /\ nuevo \in EstadosSubida
        /\ nuevo.cert = sub[u].cert /\ nuevo.clave = sub[u].clave
        /\ nuevo.viejas = {} /\ nuevo.pc = "fin"
    BY <2>1 DEF EstadosSubida
  <2>3. sub' = [sub EXCEPT ![u] = nuevo]
    BY <1>a
  <2> HIDE DEF nuevo
  <2> QED BY <2>2, <2>3
<1>1. TypeOKCert'
  BY <1>a, <1>b DEF TypeOKCert
<1>2. Autoria'
  BY <1>a, <1>b DEF TypeOKCert, Autoria, Candados
<1>3. Candados'
  BY <1>a, <1>b DEF TypeOKCert, Candados, Indice
<1>4. Indice'
  BY <1>a, <1>b DEF TypeOKCert, Indice
<1>5. Alcance'
  <2>1. \A v \in Subidas : fila[v] \in {"no", "borrada"} => fila'[v] = fila[v] \/ v = u
    BY <1>a DEF TypeOKCert, Candados
  <2>2. fila[u] = "no" /\ fila'[u] = "activo"
    BY <1>a DEF TypeOKCert, Autoria
  <2>3. \A v \in Escritas : fila'[v] # "no"
    BY <1>a DEF TypeOKCert, Escritas
  <2>4. \A v \in Subidas : sub'[v].clave = sub[v].clave
    BY <1>a, <1>b DEF TypeOKCert
  <2> QED BY <1>a, <2>1, <2>2, <2>3, <2>4 DEF TypeOKCert, Alcance, Escritas, EstadosLimpieza
<1>6. Archivos'
  BY <1>a, <1>b DEF TypeOKCert, Archivos, Validada, Material1, Material2, Candados
<1>7. SinCrtHuerfano'
  BY <1>a, <1>b DEF TypeOKCert, SinCrtHuerfano
<1> QED BY <1>1, <1>2, <1>3, <1>4, <1>5, <1>6, <1>7 DEF InvCert

LEMMA LeerFilaConserva ==
    ASSUME InvCert, NEW l \in Limpiezas, NEW u \in Subidas, LeerFila(l, u)
    PROVE  InvCert'
<1> USE CertificadosValidos DEF InvCert, LeerFila, Empieza, filasYArchivos, Confirmada, Activas,
       EnVuelo, ConTransaccion, Bloqueadas, Registradas, Referentes, SinLimpiar,
       FilasBorradas, FilasRelevadas, Valido, IndiceEnEspera, IndiceAdmite
<1>1. TypeOKCert'
  <2> DEFINE nuevo == [lim[l] EXCEPT !.pc = "leida", !.borra = {u}]
  <2>1. lim[l] \in EstadosLimpieza
    BY DEF TypeOKCert
  <2>2. nuevo \in EstadosLimpieza
    BY <2>1 DEF EstadosLimpieza
  <2>3. lim' = [lim EXCEPT ![l] = nuevo]
    OBVIOUS
  <2> HIDE DEF nuevo
  <2>4. lim' \in [Limpiezas -> EstadosLimpieza]
    <3>1. lim \in [Limpiezas -> EstadosLimpieza]
      BY DEF TypeOKCert
    <3> HIDE DEF InvCert, LeerFila
    <3> QED BY <2>2, <2>3, <3>1
  <2> QED BY <2>4 DEF TypeOKCert
<1>2. Autoria'
  BY DEF TypeOKCert, EstadosSubida, EstadosLimpieza, Autoria
<1>3. Candados'
  BY DEF TypeOKCert, EstadosSubida, EstadosLimpieza, Candados, Autoria
<1>4. Indice'
  BY DEF TypeOKCert, EstadosSubida, EstadosLimpieza, Indice, Autoria
<1>5. Alcance'
  BY DEF TypeOKCert, EstadosSubida, EstadosLimpieza, Alcance, Autoria, Escritas, Candados
<1>6. Archivos'
  BY DEF TypeOKCert, EstadosSubida, EstadosLimpieza, Archivos, Validada, Material1, Material2, Autoria, Alcance
<1>7. SinCrtHuerfano'
  BY DEF TypeOKCert, EstadosSubida, EstadosLimpieza, SinCrtHuerfano, Autoria
<1> QED BY <1>1, <1>2, <1>3, <1>4, <1>5, <1>6, <1>7 DEF InvCert

LEMMA BorrarConserva ==
    ASSUME InvCert, NEW l \in Limpiezas, Borrar(l)
    PROVE  InvCert'
<1> USE CertificadosValidos DEF InvCert, Borrar, Empieza, filasYArchivos, Confirmada, Activas,
       EnVuelo, ConTransaccion, Bloqueadas, Registradas, Referentes, SinLimpiar,
       FilasBorradas, FilasRelevadas, Valido, IndiceEnEspera, IndiceAdmite
<1>1. TypeOKCert'
  <2> DEFINE nuevo == [lim[l] EXCEPT !.pc = "borrando"]
  <2>1. lim[l] \in EstadosLimpieza
    BY DEF TypeOKCert
  <2>2. nuevo \in EstadosLimpieza
    BY <2>1 DEF EstadosLimpieza
  <2>3. lim' = [lim EXCEPT ![l] = nuevo]
    OBVIOUS
  <2> HIDE DEF nuevo
  <2>4. lim' \in [Limpiezas -> EstadosLimpieza]
    <3>1. lim \in [Limpiezas -> EstadosLimpieza]
      BY DEF TypeOKCert
    <3> HIDE DEF InvCert, Borrar
    <3> QED BY <2>2, <2>3, <3>1
  <2> QED BY <2>4 DEF TypeOKCert
<1>2. Autoria'
  BY DEF TypeOKCert, EstadosSubida, EstadosLimpieza, Autoria
<1>3. Candados'
  BY DEF TypeOKCert, EstadosSubida, EstadosLimpieza, Candados, Autoria
<1>4. Indice'
  BY DEF TypeOKCert, EstadosSubida, EstadosLimpieza, Indice, Autoria
<1>5. Alcance'
  BY DEF TypeOKCert, EstadosSubida, EstadosLimpieza, Alcance, Autoria, Escritas, Candados
<1>6. Archivos'
  BY DEF TypeOKCert, EstadosSubida, EstadosLimpieza, Archivos, Validada, Material1, Material2, Autoria, Alcance
<1>7. SinCrtHuerfano'
  BY DEF TypeOKCert, EstadosSubida, EstadosLimpieza, SinCrtHuerfano, Autoria
<1> QED BY <1>1, <1>2, <1>3, <1>4, <1>5, <1>6, <1>7 DEF InvCert

LEMMA BuscarHuerfanosConserva ==
    ASSUME InvCert, NEW l \in Limpiezas, NEW us \in SUBSET Subidas,
           NEW ks \in SUBSET Claves, BuscarHuerfanos(l, us, ks)
    PROVE  InvCert'
<1> USE CertificadosValidos DEF InvCert, BuscarHuerfanos, Empieza, filasYArchivos, Confirmada, Activas,
       EnVuelo, ConTransaccion, Bloqueadas, Registradas, Referentes, SinLimpiar,
       FilasBorradas, FilasRelevadas, Valido, IndiceEnEspera, IndiceAdmite
<1>1. TypeOKCert'
  BY DEF TypeOKCert, EstadosSubida, EstadosLimpieza
<1>2. Autoria'
  BY DEF TypeOKCert, EstadosSubida, EstadosLimpieza, Autoria
<1>3. Candados'
  BY DEF TypeOKCert, EstadosSubida, EstadosLimpieza, Candados, Autoria
<1>4. Indice'
  BY DEF TypeOKCert, EstadosSubida, EstadosLimpieza, Indice, Autoria
<1>5. Alcance'
  BY DEF TypeOKCert, EstadosSubida, EstadosLimpieza, Alcance, Autoria, Escritas, Candados
<1>6. Archivos'
  BY DEF TypeOKCert, EstadosSubida, EstadosLimpieza, Archivos, Validada, Material1, Material2, Autoria, Alcance
<1>7. SinCrtHuerfano'
  BY DEF TypeOKCert, EstadosSubida, EstadosLimpieza, SinCrtHuerfano, Autoria
<1> QED BY <1>1, <1>2, <1>3, <1>4, <1>5, <1>6, <1>7 DEF InvCert

LEMMA DesenlazarConserva ==
    ASSUME InvCert, NEW l \in Limpiezas, Desenlazar(l)
    PROVE  InvCert'
<1> USE DEF InvCert, Confirmada, Activas, EnVuelo, ConTransaccion
<1>a. PICK us \in SUBSET {u \in lim[l].borra : crt[u] = "disco"},
           ks \in SUBSET {k \in lim[l].claves : llave[k] = "disco"} :
        /\ crt' = [u \in Subidas |-> IF u \in us THEN "borrado" ELSE crt[u]]
        /\ llave' = [k \in Claves |-> IF k \in ks THEN "borrada" ELSE llave[k]]
        /\ solapada' = solapada \cup Solapadas(l, us, ks)
  BY DEF Desenlazar
<1>b. /\ lim[l].pc = "decidido" /\ lim' = [lim EXCEPT ![l] = SinLimpiar]
      /\ UNCHANGED <<fila, sub, sucesos, caidas, perdida>>
  BY DEF Desenlazar
<1>c. lim[l] \in EstadosLimpieza /\ us \subseteq lim[l].borra /\ ks \subseteq lim[l].claves
  BY <1>a DEF TypeOKCert
<1>d. us \subseteq Subidas /\ ks \subseteq Claves
  BY <1>c DEF EstadosLimpieza
<1>1. TypeOKCert'
  <2>1. SinLimpiar \in EstadosLimpieza
    BY DEF SinLimpiar, EstadosLimpieza
  <2>2. solapada' \subseteq Subidas \X {"crt", "key"}
    BY <1>a DEF TypeOKCert, Solapadas
  <2>. QED BY <1>a, <1>b, <2>1, <2>2 DEF TypeOKCert
<1>2. Autoria'
  BY <1>a, <1>b, <1>c, <1>d DEF TypeOKCert, Autoria
<1>3. Candados'
  BY <1>a, <1>b DEF TypeOKCert, Candados, SinLimpiar
<1>4. Indice'
  BY <1>a, <1>b DEF TypeOKCert, Indice
<1>5. Alcance'
  BY <1>a, <1>b DEF TypeOKCert, Alcance, Escritas, SinLimpiar
<1>6. Archivos'
  <2>1. ASSUME NEW u \in Subidas, Validada(u)' PROVE Material1(u)' /\ Material2(u)'
    <3>1. Validada(u) /\ Material1(u) /\ Material2(u)
      BY <1>b, <2>1 DEF Archivos, Validada
    <3>2. EnVuelo(u) \/ Confirmada(u)
      BY <3>1 DEF Validada
    <3>3. sub[u].clave \in Claves
      BY <3>1 DEF Validada, Autoria
    <3>4. Material1(u)'
      <4>1. CASE u \in us
        <5>1. u \notin lim[l].vistas
          BY <1>b, <1>c, <4>1 DEF Alcance
        <5>. QED BY <1>a, <3>2, <4>1, <5>1 DEF Solapadas, Material1
      <4>2. CASE u \notin us
        BY <1>a, <1>b, <3>1, <4>2 DEF Material1
      <4>. QED BY <4>1, <4>2
    <3>5. Material2(u)'
      <4>1. CASE sub[u].clave \in ks
        <5>1. u \notin lim[l].vistas
          BY <1>b, <1>c, <4>1 DEF Alcance
        <5>. QED BY <1>a, <1>b, <3>2, <4>1, <5>1 DEF Solapadas, Material2
      <4>2. CASE sub[u].clave \notin ks
        BY <1>a, <1>b, <3>1, <3>3, <4>2 DEF Material2
      <4>. QED BY <4>1, <4>2
    <3>. QED BY <3>4, <3>5
  <2>. QED BY <2>1 DEF Archivos
<1>7. SinCrtHuerfano'
  BY <1>a, <1>b, <1>c, <1>d DEF TypeOKCert, SinCrtHuerfano
<1> QED BY <1>1, <1>2, <1>3, <1>4, <1>5, <1>6, <1>7 DEF InvCert

LEMMA AbandonarLimpiezaConserva ==
    ASSUME InvCert, NEW l \in Limpiezas, AbandonarLimpieza(l)
    PROVE  InvCert'
<1> USE CertificadosValidos DEF InvCert, AbandonarLimpieza, Empieza, filasYArchivos, Confirmada, Activas,
       EnVuelo, ConTransaccion, Bloqueadas, Registradas, Referentes, SinLimpiar,
       FilasBorradas, FilasRelevadas, Valido, IndiceEnEspera, IndiceAdmite
<1>1. TypeOKCert'
  BY DEF TypeOKCert, EstadosSubida, EstadosLimpieza
<1>2. Autoria'
  BY DEF TypeOKCert, EstadosSubida, EstadosLimpieza, Autoria
<1>3. Candados'
  BY DEF TypeOKCert, EstadosSubida, EstadosLimpieza, Candados, Autoria
<1>4. Indice'
  BY DEF TypeOKCert, EstadosSubida, EstadosLimpieza, Indice, Autoria
<1>5. Alcance'
  BY DEF TypeOKCert, EstadosSubida, EstadosLimpieza, Alcance, Autoria, Escritas, Candados
<1>6. Archivos'
  BY DEF TypeOKCert, EstadosSubida, EstadosLimpieza, Archivos, Validada, Material1, Material2, Autoria, Alcance
<1>7. SinCrtHuerfano'
  BY DEF TypeOKCert, EstadosSubida, EstadosLimpieza, SinCrtHuerfano, Autoria
<1> QED BY <1>1, <1>2, <1>3, <1>4, <1>5, <1>6, <1>7 DEF InvCert

LEMMA GuardarYValidarConserva ==
    ASSUME InvCert, NEW u \in Subidas, GuardarYValidar(u)
    PROVE  InvCert'
<1> USE CertificadosValidos DEF InvCert, GuardarYValidar, Confirmada, Activas, EnVuelo,
       ConTransaccion, Bloqueadas, Registradas, Valido
<1>a. sub[u] \in EstadosSubida /\ sub[u].pc = "clave_vista"
  BY DEF TypeOKCert
<1>b. PICK pc \in {"guardado", "fallida", "abandonada"}, archivo \in {"disco", "borrado"} :
        /\ sub' = [sub EXCEPT ![u].pc = pc] /\ crt' = [crt EXCEPT ![u] = archivo]
        /\ pc = "guardado" => Valido(u) /\ archivo = "disco"
        /\ pc = "fallida" => archivo = "borrado"
  OBVIOUS
<1>c. PICK nuevo \in EstadosSubida :
        /\ sub' = [sub EXCEPT ![u] = nuevo]
        /\ nuevo.cert = sub[u].cert /\ nuevo.clave = sub[u].clave
        /\ nuevo.viejas = sub[u].viejas /\ nuevo.pc = pc
  <2>. DEFINE nuevo == [sub[u] EXCEPT !.pc = pc]
  <2>1. /\ nuevo \in EstadosSubida
        /\ nuevo.cert = sub[u].cert /\ nuevo.clave = sub[u].clave
        /\ nuevo.viejas = sub[u].viejas /\ nuevo.pc = pc
    BY <1>a DEF EstadosSubida
  <2>2. sub' = [sub EXCEPT ![u] = nuevo]
    BY <1>b
  <2>. HIDE DEF nuevo
  <2>. QED BY <2>1, <2>2
<1>d. UNCHANGED <<llave, fila, lim, sucesos, caidas, perdida, solapada>>
  OBVIOUS
<1>1. TypeOKCert'
  BY <1>b, <1>c DEF TypeOKCert
<1>2. Autoria'
  BY <1>a, <1>b, <1>c, <1>d DEF TypeOKCert, Autoria
<1>3. Candados'
  BY <1>a, <1>b, <1>c, <1>d DEF TypeOKCert, Candados
<1>4. Indice'
  BY <1>a, <1>b, <1>c, <1>d DEF TypeOKCert, Indice
<1>5. Alcance'
  BY <1>a, <1>b, <1>c, <1>d DEF TypeOKCert, Alcance, Escritas
<1>6. Archivos'
  BY <1>a, <1>b, <1>c, <1>d DEF TypeOKCert, Archivos, Validada, Material1, Material2, Autoria
<1>7. SinCrtHuerfano'
  BY <1>a, <1>b, <1>c, <1>d DEF TypeOKCert, SinCrtHuerfano
<1> QED BY <1>1, <1>2, <1>3, <1>4, <1>5, <1>6, <1>7 DEF InvCert

LEMMA InsertarConserva ==
    ASSUME InvCert, NEW u \in Subidas, Insertar(u)
    PROVE  InvCert'
<1>a. CASE ~IndiceAdmite(u)
  <2>1. Fallar(u) /\ perdida' = perdida /\ EnVuelo(u)
    BY <1>a DEF Insertar, EnVuelo
  <2> QED BY <2>1, FallarConserva
<1>b. CASE IndiceAdmite(u)
  <2> USE DEF InvCert, Insertar, Confirmada, Activas, EnVuelo, ConTransaccion,
         filasYArchivos, IndiceEnEspera, IndiceAdmite
  <2> DEFINE nuevo == [sub[u] EXCEPT !.pc = "insertada"]
  <2>a. /\ sub' = [sub EXCEPT ![u] = nuevo]
        /\ UNCHANGED <<filasYArchivos, lim, sucesos, caidas, perdida, solapada>>
    BY <1>b
  <2>b. sub[u] \in EstadosSubida
    BY DEF TypeOKCert
  <2>c. nuevo \in EstadosSubida
    BY <2>b DEF EstadosSubida
  <2>d. /\ nuevo.cert = sub[u].cert /\ nuevo.clave = sub[u].clave
        /\ nuevo.viejas = sub[u].viejas /\ sub[u].pc = "desactivada"
        /\ nuevo.pc = "insertada"
    BY <2>b DEF EstadosSubida
  <2>e. Activas \subseteq sub[u].viejas /\ \A v \in Subidas \ {u} : sub[v].pc # "insertada"
    BY <1>b
  <2> HIDE DEF nuevo
  <2>1. TypeOKCert'
    BY <2>a, <2>c DEF TypeOKCert
  <2>2. Autoria'
    BY <2>a, <2>d DEF TypeOKCert, Autoria
  <2>3. Candados'
    BY <2>a, <2>d DEF TypeOKCert, Candados
  <2>4. Indice'
    BY <2>a, <2>d, <2>e DEF TypeOKCert, Indice
  <2>5. Alcance'
    BY <2>a, <2>d DEF TypeOKCert, Alcance, Escritas
  <2>6. Archivos'
    BY <2>a, <2>d DEF TypeOKCert, Archivos, Validada, Material1, Material2
  <2>7. SinCrtHuerfano'
    BY <2>a, <2>d DEF TypeOKCert, SinCrtHuerfano
  <2> QED BY <2>1, <2>2, <2>3, <2>4, <2>5, <2>6, <2>7 DEF InvCert
<1> QED BY <1>a, <1>b

LEMMA FallarAntesConserva ==
    ASSUME InvCert, NEW u \in Subidas, FallarAntes(u)
    PROVE  InvCert'
BY FallarConserva DEF FallarAntes

LEMMA CommitSinRespuestaConserva ==
    ASSUME InvCert, NEW u \in Subidas, CommitSinRespuesta(u)
    PROVE  InvCert'
<1>a. CASE Fallar(u) /\ UNCHANGED perdida
  BY <1>a, FallarConserva DEF CommitSinRespuesta, EnVuelo
<1>b. CASE ~(Fallar(u) /\ UNCHANGED perdida)
  <2> USE DEF InvCert, Confirmada, Activas, EnVuelo, ConTransaccion, FilasRelevadas
  <2>a. /\ EliminarArchivo(u) /\ fila' = FilasRelevadas(u) /\ sub[u].pc = "insertada"
        /\ perdida' = IF crt'[u] = "disco" THEN perdida ELSE perdida \cup {u}
        /\ UNCHANGED <<llave, lim, sucesos, caidas, solapada>>
    BY <1>b DEF CommitSinRespuesta
  <2>c. PICK nuevo \in EstadosSubida, archivo \in {"sin_guardar", "disco", "borrado"} :
          /\ sub' = [sub EXCEPT ![u] = nuevo] /\ crt' = [crt EXCEPT ![u] = archivo]
          /\ nuevo.cert = sub[u].cert /\ nuevo.clave = sub[u].clave
          /\ nuevo.viejas = {} /\ nuevo.pc \in {"fallida", "abandonada"}
          /\ archivo = "disco" => nuevo.pc = "abandonada"
          /\ crt[u] = "sin_guardar" => archivo = "sin_guardar"
    BY <2>a, ArchivoEliminado
  <2>d. perdida' = IF archivo = "disco" THEN perdida ELSE perdida \cup {u}
    BY <2>a, <2>c DEF TypeOKCert
  <2>1. TypeOKCert'
    BY <2>a, <2>c, <2>d DEF TypeOKCert
  <2>2. Autoria'
    BY <2>a, <2>c DEF TypeOKCert, Autoria, Candados
  <2>3. Candados'
    BY <2>a, <2>c DEF TypeOKCert, Candados, Indice
  <2>4. Indice'
    BY <2>a, <2>c DEF TypeOKCert, Indice
  <2>5. Alcance'
    <3>1. \A v \in Subidas : fila[v] \in {"no", "borrada"} => fila'[v] = fila[v] \/ v = u
      BY <2>a, <2>c DEF TypeOKCert, Candados
    <3>2. fila[u] = "no" /\ fila'[u] = "activo"
      BY <2>a, <2>c DEF TypeOKCert, Autoria
    <3>3. \A v \in Escritas : fila'[v] # "no"
      BY <2>a DEF TypeOKCert, Escritas
    <3>4. \A v \in Subidas : sub'[v].clave = sub[v].clave
      BY <2>a, <2>c DEF TypeOKCert
    <3> QED BY <2>a, <3>1, <3>2, <3>3, <3>4 DEF TypeOKCert, Alcance, Escritas, EstadosLimpieza
  <2>6. Archivos'
    BY <2>a, <2>c, <2>d DEF TypeOKCert, Archivos, Validada, Material1, Material2, Candados
  <2>7. SinCrtHuerfano'
    BY <2>a, <2>c DEF TypeOKCert, SinCrtHuerfano
  <2> QED BY <2>1, <2>2, <2>3, <2>4, <2>5, <2>6, <2>7 DEF InvCert
<1> QED BY <1>a, <1>b DEF CommitSinRespuesta

LEMMA ConfirmarBorradoConserva ==
    ASSUME InvCert, NEW l \in Limpiezas, ConfirmarBorrado(l)
    PROVE  InvCert'
<1> USE DEF InvCert, ConfirmarBorrado, Confirmada, Activas, EnVuelo, ConTransaccion,
       FilasBorradas
<1>a. lim[l] \in EstadosLimpieza /\ lim[l].pc = "borrando" /\ SinLimpiar \in EstadosLimpieza
  BY DEF TypeOKCert, EstadosLimpieza, SinLimpiar
<1>b. PICK hecho \in BOOLEAN, respuesta \in BOOLEAN :
        /\ respuesta => hecho
        /\ fila' = IF hecho THEN FilasBorradas({l}, fila) ELSE fila
        /\ lim' = [lim EXCEPT ![l] =
                     IF respuesta THEN [lim[l] EXCEPT !.pc = "borrado"] ELSE SinLimpiar]
  OBVIOUS
<1> DEFINE nueva == IF respuesta THEN [lim[l] EXCEPT !.pc = "borrado"] ELSE SinLimpiar
<1>c. /\ nueva \in EstadosLimpieza
      /\ nueva.pc \in {"borrado", "libre"}
      /\ nueva.pc = "borrado" => respuesta /\ nueva.borra = lim[l].borra
  BY <1>a DEF EstadosLimpieza, SinLimpiar
<1>d. \A u \in Subidas :
        fila'[u] = IF hecho /\ u \in lim[l].borra THEN "borrada" ELSE fila[u]
  BY <1>b DEF TypeOKCert
<1>e. lim' = [lim EXCEPT ![l] = nueva]
  BY <1>b
<1>f. lim[l].borra \subseteq Escritas
  BY <1>a DEF Alcance
<1> HIDE DEF nueva
<1>1. TypeOKCert'
  BY <1>b, <1>c, <1>e DEF TypeOKCert
<1>2. Autoria'
  BY <1>d, <1>f DEF TypeOKCert, Autoria, Escritas
<1>3. Candados'
  BY <1>a, <1>c, <1>d, <1>e DEF TypeOKCert, Candados
<1>4. Indice'
  BY <1>d DEF TypeOKCert, Indice
<1>5. Alcance'
  <2> SUFFICES ASSUME NEW m \in Limpiezas
               PROVE  /\ lim'[m].pc \in {"leida", "borrando"} => lim'[m].borra \subseteq Escritas'
                      /\ lim'[m].pc = "borrado" => \A u \in lim'[m].borra : fila'[u] = "borrada"
                      /\ lim'[m].pc = "decidido" =>
                            /\ lim'[m].borra \cap lim'[m].vistas = {}
                            /\ lim'[m].vistas \subseteq Escritas'
                            /\ \A u \in lim'[m].vistas : sub'[u].clave \notin lim'[m].claves
    BY DEF Alcance
  <2>1. Escritas \subseteq Escritas' /\ sub' = sub
    BY <1>d DEF Escritas
  <2>2. CASE m = l
    BY <1>b, <1>c, <1>d, <1>e, <1>f, <2>2 DEF TypeOKCert, Escritas
  <2>3. CASE m # l
    <3>1. lim'[m] = lim[m] /\ lim[m].borra \subseteq Subidas
      BY <1>e, <2>3 DEF TypeOKCert, EstadosLimpieza
    <3> QED BY <1>d, <2>1, <3>1 DEF Alcance
  <2> QED BY <2>2, <2>3
<1>6. Archivos'
  BY <1>d DEF TypeOKCert, Archivos, Validada, Material1, Material2
<1>7. SinCrtHuerfano'
  BY <1>d DEF TypeOKCert, SinCrtHuerfano
<1> QED BY <1>1, <1>2, <1>3, <1>4, <1>5, <1>6, <1>7 DEF InvCert

LEMMA BuscarReferenciasConserva ==
    ASSUME InvCert, NEW l \in Limpiezas, BuscarReferencias(l)
    PROVE  InvCert'
<1> USE DEF InvCert, BuscarReferencias, Confirmada, Activas, EnVuelo, ConTransaccion,
       filasYArchivos, Registradas, Referentes
<1> DEFINE claves == {sub[u].clave : u \in lim[l].borra} \ {sub[u].clave : u \in Referentes}
           nueva == [lim[l] EXCEPT !.pc = "decidido", !.vistas = Registradas, !.claves = claves]
<1>a. lim[l] \in EstadosLimpieza /\ lim[l].pc = "borrado"
  BY DEF TypeOKCert
<1>b. \A u \in lim[l].borra : fila[u] = "borrada" /\ u \in Subidas
  BY <1>a DEF Alcance, EstadosLimpieza
<1>c. claves \subseteq Claves
  BY <1>b DEF Autoria
<1>d. lim' = [lim EXCEPT ![l] = nueva]
  OBVIOUS
<1>e. \A u \in Registradas : sub[u].clave \notin claves
  OBVIOUS
<1> HIDE DEF claves
<1>f. /\ nueva \in EstadosLimpieza
      /\ nueva.pc = "decidido" /\ nueva.vistas = Registradas /\ nueva.claves = claves
      /\ nueva.borra = lim[l].borra
  BY <1>a, <1>c DEF EstadosLimpieza
<1>g. UNCHANGED <<llave, crt, fila, sub, sucesos, caidas, perdida, solapada>>
  OBVIOUS
<1> HIDE DEF nueva, BuscarReferencias
<1>1. TypeOKCert'
  <2>1. lim' \in [Limpiezas -> EstadosLimpieza]
    BY <1>d, <1>f DEF TypeOKCert
  <2> QED BY <1>g, <2>1 DEF TypeOKCert
<1>2. Autoria'
  BY <1>g DEF Autoria
<1>3. Candados'
  BY <1>d, <1>f, <1>g DEF TypeOKCert, Candados
<1>4. Indice'
  BY <1>g DEF Indice
<1>5. Alcance'
  BY <1>b, <1>d, <1>e, <1>f, <1>g DEF TypeOKCert, Alcance, Escritas
<1>6. Archivos'
  BY <1>g DEF Archivos, Validada, Material1, Material2
<1>7. SinCrtHuerfano'
  BY <1>g DEF SinCrtHuerfano
<1> QED BY <1>1, <1>2, <1>3, <1>4, <1>5, <1>6, <1>7 DEF InvCert

(* A kill: at most one inserted row was on its way (Indice), and a deletion *)
(* on its way is of a row nobody was deactivating (Candados).               *)
LEMMA CaerConserva ==
    ASSUME InvCert, Caer
    PROVE  InvCert'
<1> USE DEF InvCert, Caer, Confirmada, Activas, EnVuelo, ConTransaccion
<1>a. PICK llegan \in SUBSET {u \in Subidas : sub[u].pc = "insertada"},
           borran \in SUBSET {l \in Limpiezas : lim[l].pc = "borrando"} :
        /\ fila' = FilasBorradas(borran, [v \in Subidas |->
                     IF \E u \in llegan : FilasRelevadas(u)[v] # fila[v]
                     THEN IF v \in llegan THEN "activo" ELSE "inactivo"
                     ELSE fila[v]])
        /\ sub' = [u \in Subidas |->
                     IF EnVuelo(u)
                     THEN [sub[u] EXCEPT !.pc = IF u \in llegan THEN "fin" ELSE "muerta",
                                         !.foto = {}, !.viejas = {}]
                     ELSE sub[u]]
  OBVIOUS
<1>b. \A u \in Subidas :
        /\ sub'[u] \in EstadosSubida
        /\ sub'[u].cert = sub[u].cert /\ sub'[u].clave = sub[u].clave
        /\ ~EnVuelo(u) => sub'[u] = sub[u]
        /\ EnVuelo(u) => /\ sub'[u].pc = IF u \in llegan THEN "fin" ELSE "muerta"
                         /\ sub'[u].viejas = {}
  <2> TAKE u \in Subidas
  <2>1. sub[u] \in EstadosSubida
    BY DEF TypeOKCert
  <2>2. CASE EnVuelo(u)
    <3> DEFINE pc == IF u \in llegan THEN "fin" ELSE "muerta"
    <3>1. sub'[u] = [sub[u] EXCEPT !.pc = pc, !.foto = {}, !.viejas = {}]
      BY <1>a, <2>2
    <3>2. pc \in {"fin", "muerta"}
      OBVIOUS
    <3> HIDE DEF pc
    <3>3. /\ sub'[u] \in EstadosSubida
          /\ sub'[u].cert = sub[u].cert /\ sub'[u].clave = sub[u].clave
          /\ sub'[u].pc = pc /\ sub'[u].viejas = {}
      BY <2>1, <3>1, <3>2 DEF EstadosSubida
    <3> QED BY <2>2, <3>3 DEF pc
  <2>3. CASE ~EnVuelo(u)
    BY <1>a, <2>1, <2>3
  <2> QED BY <2>2, <2>3
<1>0. UNCHANGED <<llave, crt, sucesos, perdida, solapada>> /\ caidas' \in 0..MaxCaidas
  <2>1. /\ UNCHANGED <<llave, crt, sucesos, perdida, solapada>>
        /\ caidas < MaxCaidas /\ caidas' = caidas + 1
    OBVIOUS
  <2> HIDE DEF Caer
  <2>2. caidas \in Nat /\ MaxCaidas \in Nat
    BY CertificadosValidos DEF TypeOKCert
  <2> QED BY <2>1, <2>2
<1> HIDE DEF Caer
<1>i. \A u \in llegan :
        /\ u \in Subidas /\ fila[u] = "no" /\ EnVuelo(u)
        /\ sub[u].viejas = Activas
  <2> TAKE u \in llegan
  <2>1. u \in Subidas /\ sub[u].pc = "insertada"
    OBVIOUS
  <2> QED BY <2>1 DEF Indice, Candados, Autoria
<1>c. \A u \in Subidas : ~EnVuelo(u) => sub[u].viejas = {}
  BY DEF Candados
<1>d. \A u \in Subidas : sub'[u].viejas = {} /\ ~EnVuelo(u)'
  BY <1>b, <1>c
<1> DEFINE borradas == UNION {lim[l].borra : l \in borran}
           relevadas == UNION {sub[u].viejas : u \in llegan}
<1>e. \A v \in borradas : v \in Escritas /\ v \notin relevadas
  <2> TAKE v \in borradas
  <2>1. PICK l \in borran : v \in lim[l].borra
    OBVIOUS
  <2>2. l \in Limpiezas /\ lim[l].pc = "borrando"
    OBVIOUS
  <2>3. v \in Escritas
    BY <2>1, <2>2 DEF Alcance
  <2>4. \A u \in llegan : v \notin sub[u].viejas
    BY <1>i, <2>1, <2>2 DEF Candados
  <2> QED BY <2>3, <2>4
<1>f. \A v \in relevadas : v \in Subidas /\ fila[v] = "activo" /\ v \notin llegan
  BY <1>i
<1>g. \A v \in Subidas :
        fila'[v] = IF v \in borradas THEN "borrada"
                   ELSE IF v \in llegan THEN "activo"
                   ELSE IF v \in relevadas THEN "inactivo" ELSE fila[v]
  <2> SUFFICES ASSUME NEW v \in Subidas
               PROVE  fila'[v] = IF v \in borradas THEN "borrada"
                                 ELSE IF v \in llegan THEN "activo"
                                 ELSE IF v \in relevadas THEN "inactivo" ELSE fila[v]
    OBVIOUS
  <2>1. \A u \in llegan : FilasRelevadas(u)[v] =
            IF v = u THEN "activo" ELSE IF v \in sub[u].viejas THEN "inactivo" ELSE fila[v]
    BY DEF FilasRelevadas
  <2>2. v \in llegan => fila[v] = "no"
    BY <1>i
  <2>3. v \in relevadas => fila[v] = "activo"
    BY <1>f
  <2>4. (\E u \in llegan : FilasRelevadas(u)[v] # fila[v]) <=> v \in llegan \/ v \in relevadas
    BY <2>1, <2>2, <2>3
  <2> QED BY <1>a, <2>4 DEF FilasBorradas
<1>h. \A v \in llegan : v \in Subidas /\ v \notin borradas /\ fila[v] = "no" /\ EnVuelo(v)
  BY <1>e, <1>i DEF Escritas
<1>j. lim' = [l \in Limpiezas |-> SinLimpiar]
  BY DEF Caer
<1> HIDE DEF borradas, relevadas
<1>1. TypeOKCert'
  <2>1. sub' \in [Subidas -> EstadosSubida]
    BY <1>a, <1>b
  <2>2. fila' \in [Subidas -> {"no", "activo", "inactivo", "borrada"}]
    BY <1>a, <1>g DEF TypeOKCert, FilasBorradas
  <2>3. lim' \in [Limpiezas -> EstadosLimpieza]
    BY <1>j DEF SinLimpiar, EstadosLimpieza
  <2> QED BY <1>0, <2>1, <2>2, <2>3 DEF TypeOKCert
<1>2. Autoria'
  <2> SUFFICES ASSUME NEW u \in Subidas
               PROVE  /\ sub'[u].pc # "inicio" => sub'[u].cert \in Contenidos /\ sub'[u].clave \in Claves
                      /\ fila'[u] # "no" => sub'[u].pc \in {"fin", "fallida", "abandonada"}
                      /\ crt'[u] # "sin_guardar" => sub'[u].pc # "inicio"
    BY DEF Autoria
  <2>1. CASE EnVuelo(u)
    <3>1. fila[u] = "no" /\ u \notin borradas /\ u \notin relevadas
      BY <1>e, <1>f, <2>1 DEF Autoria, Escritas
    <3> QED BY <1>b, <1>g, <2>1, <3>1 DEF Autoria
  <2>2. CASE ~EnVuelo(u)
    <3>1. u \in borradas \/ u \in relevadas => fila[u] # "no"
      BY <1>e, <1>f DEF Escritas
    <3> QED BY <1>0, <1>b, <1>g, <1>i, <2>2, <3>1 DEF Autoria
  <2> QED BY <2>1, <2>2
<1>3. Candados'
  BY <1>d DEF Candados
<1>4. Indice'
  <2>1. \A u, v \in llegan : u = v
    BY DEF Indice
  <2>2. \A u \in llegan : Activas \subseteq relevadas
    BY <1>i DEF relevadas
  <2>3. \A u, v \in Subidas : fila'[u] = "activo" /\ fila'[v] = "activo" => u = v
    BY <1>f, <1>g, <2>1, <2>2 DEF Indice
  <2> QED BY <1>d, <2>3 DEF Indice
<1>5. Alcance'
  BY <1>j DEF Alcance, SinLimpiar
<1>6. Archivos'
  BY <1>0, <1>b, <1>d, <1>f, <1>g, <1>h DEF Archivos, Validada, Material1, Material2
<1>7. SinCrtHuerfano'
  BY <1>0, <1>b, <1>g, <1>h DEF SinCrtHuerfano
<1> QED BY <1>1, <1>2, <1>3, <1>4, <1>5, <1>6, <1>7 DEF InvCert

-----------------------------------------------------------------------------
(* The certificates at rest, and every step of theirs.                     *)

LEMMA InicioCert == ASSUME InitCert PROVE InvCert
<1> PICK h \in Historias :
      LET hechas == DOMAIN h IN
      /\ llave = [k \in Claves |-> IF \E u \in hechas : ClaveDe[h[u]] = k
                                   THEN "disco" ELSE "sin_generar"]
      /\ crt = [u \in Subidas |-> IF u \in hechas THEN "disco" ELSE "sin_guardar"]
      /\ \E ultima \in IF hechas = {} THEN {{}} ELSE {{u} : u \in hechas} :
            fila = [u \in Subidas |-> IF u \in ultima THEN "activo"
                                     ELSE IF u \in hechas THEN "inactivo" ELSE "no"]
      /\ sub = [u \in Subidas |-> IF u \in hechas THEN Subida(h[u]) ELSE SinSubir]
      /\ lim = [l \in Limpiezas |-> SinLimpiar]
      /\ sucesos = Cardinality(hechas) /\ caidas = 0 /\ perdida = {} /\ solapada = {}
  BY DEF InitCert
<1> DEFINE hechas == DOMAIN h
<1>1. /\ hechas \subseteq Subidas /\ Cardinality(hechas) <= 2
      /\ \A u \in hechas : h[u] \in Contenidos /\ ClaveDe[h[u]] \in Claves
  BY CertificadosValidos DEF Historias
<1>2. Cardinality(hechas) \in 0..MaxSucesos
  <2>1. IsFiniteSet(hechas)
    BY <1>1, FS_Subset, CertificadosValidos
  <2>2. Cardinality(hechas) \in Nat
    BY <2>1, FS_CardinalityType
  <2>3. MaxSucesos \in Nat /\ MaxSucesos >= 2
    BY CertificadosValidos
  <2> QED BY <1>1, <2>2, <2>3
<1>3. PICK ultima : /\ ultima \subseteq hechas /\ \A u, v \in ultima : u = v
                    /\ fila = [u \in Subidas |-> IF u \in ultima THEN "activo"
                                     ELSE IF u \in hechas THEN "inactivo" ELSE "no"]
  OBVIOUS
<1>4. \A u \in Subidas :
        /\ sub[u] \in EstadosSubida
        /\ u \in hechas => /\ sub[u].pc = "fin" /\ sub[u].clave = ClaveDe[h[u]]
                           /\ sub[u].cert = h[u]
        /\ u \notin hechas => sub[u].pc = "inicio"
        /\ sub[u].viejas = {}
  BY <1>1 DEF Subida, SinSubir, EstadosSubida
<1>5. \A u \in hechas : llave[sub[u].clave] = "disco"
  BY <1>1, <1>4
<1>6. SinLimpiar \in EstadosLimpieza /\ SinLimpiar.pc = "libre"
  BY DEF SinLimpiar, EstadosLimpieza
<1>7. TypeOKCert
  BY <1>2, <1>3, <1>4, <1>6, CertificadosValidos DEF TypeOKCert
<1>8. Autoria
  BY <1>1, <1>3, <1>4 DEF Autoria
<1>9. Candados
  BY <1>4, <1>6 DEF Candados, ConTransaccion
<1>10. Indice
  BY <1>3, <1>4 DEF Indice
<1>11. Alcance
  BY <1>6 DEF Alcance
<1>12. Archivos
  BY <1>3, <1>4, <1>5 DEF Archivos, Validada, Confirmada, Material1, Material2
<1>13. SinCrtHuerfano
  BY <1>3 DEF SinCrtHuerfano
<1> QED BY <1>7, <1>8, <1>9, <1>10, <1>11, <1>12, <1>13 DEF InvCert

(* A step that leaves rows, files and their requests alone, but counts a    *)
(* request begun.                                                           *)
LEMMA AjenoConserva ==
    ASSUME InvCert, UNCHANGED <<llave, crt, fila, sub, lim, caidas, perdida, solapada>>,
           Empieza \/ UNCHANGED sucesos
    PROVE  InvCert'
<1>1. TypeOKCert'
  BY CertificadosValidos DEF InvCert, TypeOKCert, Empieza
<1> QED BY <1>1 DEF InvCert, Autoria, Candados, Indice, Alcance, Archivos, SinCrtHuerfano,
           Validada, Material1, Material2, Confirmada, Activas, Escritas, EnVuelo,
           ConTransaccion

LEMMA CertConserva == ASSUME InvCert, [Next]_vars PROVE InvCert'
<1>1. CASE PasoCertificados
  BY <1>1, GenerarCsrConserva, ComprobarClaveConserva, GuardarYValidarConserva,
     BuscarActivasConserva, DesactivarConserva, InsertarConserva, ConfirmarSubidaConserva,
     CommitSinRespuestaConserva, FallarAntesConserva, LeerFilaConserva, BorrarConserva,
     ConfirmarBorradoConserva, BuscarReferenciasConserva, BuscarHuerfanosConserva,
     DesenlazarConserva, AbandonarLimpiezaConserva
     DEF PasoCertificados, PasoSubida, PasoLimpieza
<1>2. CASE \E p \in Peticiones : Paso(p)
  BY <1>2, AjenoConserva
     DEF Paso, ElegirActivo, ElegirAVerificar, Acceder, WsaaEmite, WsaaRechaza,
         GuardarTicket, Terminar, varsCert
<1>3. CASE CaerYVolver
  BY <1>3, CaerConserva DEF CaerYVolver
<1>4. CASE Avanzar \/ UNCHANGED vars
  BY <1>4, AjenoConserva DEF Avanzar, vars, varsCert
<1> QED BY <1>1, <1>2, <1>3, <1>4 DEF Next

-----------------------------------------------------------------------------
(* The two promises about certificates.                                    *)

LEMMA InvCertSiempre == Spec => []InvCert
<1>1. Init => InvCert
  BY InicioCert DEF Init
<1>2. InvCert /\ [Next]_vars => InvCert'
  BY CertConserva
<1> QED BY <1>1, <1>2, PTL DEF Spec

(* The rows in force are at most one.                                      *)
LEMMA UnaActiva == InvCert => Cardinality(Activas) <= 1
<1> SUFFICES ASSUME InvCert PROVE Cardinality(Activas) <= 1
  OBVIOUS
<1>1. CASE Activas = {}
  <2>1. Cardinality(Activas) = 0
    BY <1>1, FS_EmptySet
  <2> QED BY <2>1
<1>2. CASE Activas # {}
  <2>1. PICK u \in Activas : TRUE
    BY <1>2
  <2>2. Activas = {u}
    BY <2>1 DEF InvCert, Indice, Activas
  <2>3. Cardinality({u}) = 1
    BY FS_Singleton
  <2>4. Cardinality(Activas) = 1
    BY <2>2, <2>3
  <2> QED BY <2>4
<1> QED BY <1>1, <1>2

(* A step that leaves the issuer without a certificate in force deletes    *)
(* the one there was.                                                      *)
LEMMA SoloBorrar ==
    ASSUME InvCert, Next, Activas # {}, Activas' = {}, NEW u \in Activas
    PROVE  fila'[u] = "borrada"
<1> USE DEF filasYArchivos, Activas
<1>0. u \in Subidas /\ fila[u] = "activo" /\ fila'[u] # "activo" /\ fila' # fila
  OBVIOUS
<1>1. ASSUME NEW v \in Subidas, sub[v].pc = "insertada", fila' = FilasRelevadas(v) PROVE FALSE
  BY <1>1 DEF FilasRelevadas
<1>2. ASSUME NEW v \in Subidas, PasoSubida(v) PROVE FALSE
  BY <1>0, <1>1, <1>2
     DEF PasoSubida, ComprobarClave, GuardarYValidar, BuscarActivas, Desactivar, Insertar,
         ConfirmarSubida, CommitSinRespuesta, FallarAntes, Fallar, EliminarArchivo
<1>3. ASSUME NEW l \in Limpiezas, PasoLimpieza(l) PROVE fila'[u] = "borrada"
  <2>1. ConfirmarBorrado(l)
    BY <1>0, <1>3 DEF PasoLimpieza, LeerFila, Borrar, BuscarReferencias, Desenlazar,
                      AbandonarLimpieza, BuscarHuerfanos
  <2>2. fila'[u] \in {fila[u], "borrada"}
    BY <1>0, <2>1 DEF ConfirmarBorrado, FilasBorradas
  <2> QED BY <1>0, <2>2
<1>4. ASSUME Caer PROVE fila'[u] = "borrada"
  <2>1. PICK llegan \in SUBSET {v \in Subidas : sub[v].pc = "insertada"},
             borran \in SUBSET {l \in Limpiezas : lim[l].pc = "borrando"} :
          fila' = FilasBorradas(borran, [v \in Subidas |->
                     IF \E w \in llegan : FilasRelevadas(w)[v] # fila[v]
                     THEN IF v \in llegan THEN "activo" ELSE "inactivo"
                     ELSE fila[v]])
    BY <1>4 DEF Caer
  <2> DEFINE borradas == UNION {lim[l].borra : l \in borran}
  <2>2. ASSUME NEW w \in llegan PROVE w \in Activas'
    <3>1. w \in Subidas /\ sub[w].pc = "insertada"
      BY <2>2
    <3>2. fila[w] = "no"
      BY <3>1 DEF InvCert, Autoria
    <3>3. FilasRelevadas(w)[w] = "activo"
      BY <3>1 DEF FilasRelevadas
    <3>4. w \notin borradas
      BY <3>2 DEF InvCert, Alcance, Escritas
    <3> QED BY <2>1, <2>2, <3>1, <3>2, <3>3, <3>4 DEF FilasBorradas
  <2>3. llegan = {}
    BY <2>2
  <2>4. fila'[u] \in {fila[u], "borrada"}
    BY <1>0, <2>1, <2>3 DEF FilasBorradas
  <2> QED BY <1>0, <2>4
<1>5. CASE PasoCertificados
  BY <1>0, <1>2, <1>3, <1>5 DEF PasoCertificados, GenerarCsr
<1>6. CASE \E p \in Peticiones : Paso(p)
  BY <1>0, <1>6
     DEF Paso, ElegirActivo, ElegirAVerificar, Acceder, WsaaEmite, WsaaRechaza,
         GuardarTicket, Terminar, varsCert
<1>7. CASE CaerYVolver \/ Avanzar
  BY <1>0, <1>4, <1>7 DEF CaerYVolver, Avanzar, varsCert
<1> QED BY <1>5, <1>6, <1>7 DEF Next

(* However many uploads, deletions and kills race for the certificate of an *)
(* issuer, one at most is in force, and it is only lost by deleting it.    *)
THEOREM VigenteUnico == Spec => UnoVigente
<1>1. (InvCert => Cardinality(Activas) <= 1)'
  BY UnaActiva, PTL
<1>2. ASSUME InvCert, InvCert', [Next]_vars
      PROVE  [/\ Cardinality(Activas') <= 1
              /\ Activas # {} /\ Activas' = {} => \A u \in Activas : fila'[u] = "borrada"]_varsCert
  <2>1. Cardinality(Activas') <= 1
    BY <1>1, <1>2
  <2>2. CASE Next
    BY <1>2, <2>1, <2>2, SoloBorrar
  <2>3. CASE UNCHANGED vars
    BY <2>3 DEF vars
  <2> QED BY <1>2, <2>2, <2>3
<1> QED BY <1>2, InvCertSiempre, PTL DEF Spec, UnoVigente

-----------------------------------------------------------------------------
(* The tickets of a cache, at an instant.                                  *)
UtilesEn(r, f) == [c \in {d \in DOMAIN f : r < f[d].vence - Margen} |-> f[c]]

LEMMA UtilesAhora == \A f : SoloUtiles(f) = UtilesEn(reloj, f)
BY DEF SoloUtiles, Utiles, Util, UtilesEn

LEMMA UtilesDos == \A r, f : UtilesEn(r, UtilesEn(r, f)) = UtilesEn(r, f)
BY DEF UtilesEn

(* What is equal now is equal later, when fewer tickets are useful.        *)
LEMMA UtilesLuego ==
    ASSUME NEW f, NEW g, NEW r \in Nat, NEW s \in Nat, r <= s, Cache(f), Cache(g),
           UtilesEn(r, f) = UtilesEn(r, g)
    PROVE  UtilesEn(s, f) = UtilesEn(s, g)
<1>1. \A c \in DOMAIN f : f[c].vence \in Int
  BY TiemposValidos DEF Cache, Ticket
<1>2. \A c \in DOMAIN g : g[c].vence \in Int
  BY TiemposValidos DEF Cache, Ticket
<1>3. \A c \in DOMAIN f : s < f[c].vence - Margen =>
        c \in DOMAIN g /\ g[c] = f[c]
  <2> SUFFICES ASSUME NEW c \in DOMAIN f, s < f[c].vence - Margen
               PROVE  c \in DOMAIN g /\ g[c] = f[c]
    OBVIOUS
  <2>1. r < f[c].vence - Margen
    BY <1>1, TiemposValidos
  <2>2. c \in DOMAIN UtilesEn(r, f) /\ UtilesEn(r, f)[c] = f[c]
    BY <2>1 DEF UtilesEn
  <2>3. c \in DOMAIN UtilesEn(r, g) /\ UtilesEn(r, g)[c] = f[c]
    BY <2>2
  <2> QED BY <2>3 DEF UtilesEn
<1>4. \A c \in DOMAIN g : s < g[c].vence - Margen =>
        c \in DOMAIN f /\ g[c] = f[c]
  <2> SUFFICES ASSUME NEW c \in DOMAIN g, s < g[c].vence - Margen
               PROVE  c \in DOMAIN f /\ g[c] = f[c]
    OBVIOUS
  <2>1. r < g[c].vence - Margen
    BY <1>2, TiemposValidos
  <2>2. c \in DOMAIN UtilesEn(r, g) /\ UtilesEn(r, g)[c] = g[c]
    BY <2>1 DEF UtilesEn
  <2>3. c \in DOMAIN UtilesEn(r, f) /\ UtilesEn(r, f)[c] = g[c]
    BY <2>2
  <2> QED BY <2>3 DEF UtilesEn
<1>5. {d \in DOMAIN f : s < f[d].vence - Margen} = {d \in DOMAIN g : s < g[d].vence - Margen}
  BY <1>3, <1>4
<1> QED BY <1>3, <1>5 DEF UtilesEn

(* A cache stays one when a ticket of its own key is put in it or taken out, *)
(* or when the worn ones are.                                              *)
LEMMA CacheTipo ==
    ASSUME NEW m, Cache(m), Propia(m)
    PROVE  /\ Cache(UtilesEn(reloj, m)) /\ Propia(UtilesEn(reloj, m))
           /\ \A c : Cache(Sin(m, c)) /\ Propia(Sin(m, c))
           /\ \A t \in Ticket : Cache(Con(m, t.cert, t)) /\ Propia(Con(m, t.cert, t))
<1>1. Cache(UtilesEn(reloj, m)) /\ Propia(UtilesEn(reloj, m))
  BY DEF Cache, Propia, UtilesEn
<1>2. \A c : Cache(Sin(m, c)) /\ Propia(Sin(m, c))
  BY DEF Cache, Propia, Sin
<1>3. ASSUME NEW t \in Ticket PROVE Cache(Con(m, t.cert, t)) /\ Propia(Con(m, t.cert, t))
  <2>1. t.cert \in Contenidos
    BY DEF Ticket
  <2> QED BY <2>1 DEF Cache, Propia, Con
<1> QED BY <1>1, <1>2, <1>3

LEMMA CacheVacia == Cache(Vacia) /\ Propia(Vacia)
BY DEF Cache, Propia, Vacia

(* A save keeps them, whether it reaches the disk or not.                  *)
LEMMA GuardarGuarda ==
    ASSUME Guardado, NEW m, Cache(m), Propia(m), memoria' = m, GuardarEnDisco(m),
           UNCHANGED reloj
    PROVE  Guardado'
<1>1. CASE disco' = [legible |-> TRUE, tickets |-> SoloUtiles(m)] /\ alDia' = TRUE
  <2>1. disco'.legible = TRUE /\ disco'.tickets = UtilesEn(reloj, m)
    BY <1>1, UtilesAhora
  <2>2. Cache(disco'.tickets) /\ Propia(disco'.tickets)
    BY <2>1, CacheTipo
  <2>3. UtilesEn(reloj, disco'.tickets) = UtilesEn(reloj, m)
    BY <2>1, UtilesDos
  <2>4. SoloUtiles(disco.tickets)' = SoloUtiles(memoria)'
    BY <2>3 DEF SoloUtiles, Utiles, Util, UtilesEn
  <2> QED BY <1>1, <2>1, <2>2, <2>4 DEF Guardado, DiscoFiel, Cache, Propia, Ticket
<1>2. CASE disco' = disco /\ alDia' = FALSE
  BY <1>2 DEF Guardado, DiscoFiel, Cache, Propia, Ticket
<1>3. CASE disco' = [legible |-> FALSE, tickets |-> Vacia] /\ alDia' = FALSE
  <2>1. disco'.legible = FALSE /\ disco'.tickets = Vacia
    BY <1>3
  <2> QED BY <1>3, <2>1, CacheVacia DEF Guardado, DiscoFiel, Cache, Propia, Ticket
<1> QED BY <1>1, <1>2, <1>3 DEF GuardarEnDisco

(* And so does a step that does not touch them.                            *)
LEMMA Igual ==
    ASSUME Guardado, UNCHANGED <<memoria, disco, alDia, reloj>>
    PROVE  Guardado'
BY DEF Guardado, DiscoFiel, SoloUtiles, Utiles, Util, Cache, Propia, Ticket

-----------------------------------------------------------------------------
(* The requests.                                                           *)

(* A request selects one row.                                              *)
LEMMA UnaFila ==
    ASSUME Pedido, NEW p \in Peticiones, pet[p].pc # "libre"
    PROVE  \E u \in Iniciadas : pet[p].fila = {u}
<1>1. pet[p].fila \subseteq Iniciadas /\ Cardinality(pet[p].fila) = 1
  BY DEF Pedido, Fiel
<1>2. IsFiniteSet(pet[p].fila)
  BY <1>1, FS_Subset, CertificadosValidos DEF Iniciadas
<1> QED BY <1>1, <1>2, FS_Singleton

LEMMA UnaPeticion ==
    ASSUME Pedido, NEW p \in Peticiones, NEW n \in EstadosPet, pet' = [pet EXCEPT ![p] = n],
           n.pc # "libre" => Cardinality(n.fila) = 1, Fiel(n), UNCHANGED <<sub, reloj>>
    PROVE  Pedido'
<1>1. pet' \in [Peticiones -> EstadosPet]
  BY DEF Pedido
<1>2. \A q \in Peticiones : pet'[q].pc # "libre" => Cardinality(pet'[q].fila) = 1
  BY DEF Pedido
<1>3. \A q \in Peticiones : Fiel(pet'[q])
  BY DEF Pedido
<1>4. \A q \in Peticiones : Fiel(pet[q])'
  BY <1>3 DEF Fiel, Iniciadas
<1>5. EstadosPet' = EstadosPet
  BY DEF EstadosPet, Ticket
<1> QED BY <1>1, <1>2, <1>4, <1>5 DEF Pedido

LEMMA Ociosa == Ocioso \in EstadosPet /\ Fiel(Ocioso) /\ Ocioso.pc = "libre"
BY DEF Ocioso, EstadosPet, Fiel

LEMMA ElegirConserva ==
    ASSUME InvCert, Pedido, NEW p \in Peticiones, ElegirActivo(p) \/ ElegirAVerificar(p)
    PROVE  Pedido'
<1>1. PICK u \in Subidas, b \in BOOLEAN :
        /\ Confirmada(u)
        /\ pet' = [pet EXCEPT ![p] = [pet[p] EXCEPT !.pc = "elegido", !.fila = {u}, !.fuerza = b]]
  <2>1. pet[p] \in EstadosPet
    BY DEF Pedido
  <2>2. CASE ElegirActivo(p)
    <3>1. PICK u \in Activas : pet' = [pet EXCEPT ![p].pc = "elegido", ![p].fila = {u}]
      BY <2>2 DEF ElegirActivo
    <3>2. u \in Subidas /\ Confirmada(u)
      BY DEF Activas, Confirmada
    <3>3. [pet[p] EXCEPT !.pc = "elegido", !.fila = {u}]
            = [pet[p] EXCEPT !.pc = "elegido", !.fila = {u}, !.fuerza = pet[p].fuerza]
      BY <2>1 DEF EstadosPet
    <3>4. pet[p].fuerza \in BOOLEAN
      BY <2>1 DEF EstadosPet
    <3>5. pet' = [pet EXCEPT ![p] = [pet[p] EXCEPT !.pc = "elegido", !.fila = {u}]]
      BY <3>1 DEF Pedido
    <3> QED BY <3>2, <3>3, <3>4, <3>5
  <2>3. CASE ElegirAVerificar(p)
    BY <2>3 DEF ElegirAVerificar, Pedido
  <2> QED BY <2>2, <2>3
<1> DEFINE n == [pet[p] EXCEPT !.pc = "elegido", !.fila = {u}, !.fuerza = b]
<1>2. n \in EstadosPet /\ n.pc = "elegido" /\ n.fila = {u}
  BY DEF Pedido, EstadosPet
<1>3. u \in Iniciadas
  BY <1>1 DEF InvCert, Autoria, Iniciadas, Confirmada
<1>4. Cardinality(n.fila) = 1
  BY <1>2, FS_Singleton
<1>5. Fiel(n)
  BY <1>2, <1>3 DEF Fiel
<1>6. UNCHANGED <<sub, reloj>>
  BY DEF ElegirActivo, ElegirAVerificar
<1> HIDE DEF n
<1> QED BY <1>1, <1>2, <1>4, <1>5, <1>6, UnaPeticion DEF n

LEMMA AccederConserva ==
    ASSUME Guardado, Pedido, NEW p \in Peticiones, Acceder(p)
    PROVE  Guardado' /\ Pedido'
<1>0. pet[p] \in EstadosPet /\ pet[p].pc = "elegido" /\ UNCHANGED <<sub, reloj>>
  BY DEF Pedido, Acceder, varsCert
<1>1. PICK u \in Iniciadas : pet[p].fila = {u}
  BY <1>0, UnaFila
<1>2. SinMaterial(p, u) \/ TomarDeCache(p, u) \/ PedirTicket(p, u)
  BY <1>1 DEF Acceder
<1>3. CASE SinMaterial(p, u)
  BY <1>0, <1>3, Ociosa, UnaPeticion, Igual DEF SinMaterial
<1>4. CASE TomarDeCache(p, u)
  <2> DEFINE t == memoria[Huella(u)]
             n == [pet[p] EXCEPT !.pc = "listo", !.recibido = {t}]
  <2>1. t \in Ticket
    BY <1>4 DEF TomarDeCache, Servible, EnCache, Guardado, Cache
  <2>2. n \in EstadosPet /\ n.pc = "listo" /\ n.fila = pet[p].fila
    BY <1>0, <2>1 DEF EstadosPet
  <2>3. pet' = [pet EXCEPT ![p] = n]
    BY <1>4 DEF TomarDeCache, Pedido
  <2>4. Fiel(n) /\ Cardinality(n.fila) = 1
    BY <1>0, <2>2 DEF Pedido, Fiel
  <2> HIDE DEF n
  <2> QED BY <1>0, <1>4, <2>2, <2>3, <2>4, UnaPeticion, Igual DEF TomarDeCache
<1>5. CASE PedirTicket(p, u)
  <2> DEFINE n == [pet[p] EXCEPT !.pc = "en_wsaa"]
  <2>1. n \in EstadosPet /\ n.pc = "en_wsaa" /\ n.fila = pet[p].fila
    BY <1>0 DEF EstadosPet
  <2>2. pet' = [pet EXCEPT ![p] = n]
    BY <1>5 DEF PedirTicket, Pedido
  <2>3. Fiel(n) /\ Cardinality(n.fila) = 1
    BY <1>0, <2>1 DEF Pedido, Fiel
  <2> HIDE DEF n
  <2>4. Pedido'
    BY <1>0, <2>1, <2>2, <2>3, UnaPeticion
  <2>5. CASE Gastado(p, u)
    <3>1. memoria' = Sin(memoria, Huella(u)) /\ GuardarEnDisco(memoria')
      BY <1>5, <2>5 DEF PedirTicket
    <3>2. Cache(memoria') /\ Propia(memoria')
      BY <3>1, CacheTipo DEF Guardado
    <3> QED BY <1>0, <2>4, <3>1, <3>2, GuardarGuarda
  <2>6. CASE ~Gastado(p, u)
    BY <1>0, <1>5, <2>4, <2>6, Igual DEF PedirTicket
  <2> QED BY <2>5, <2>6
<1> QED BY <1>2, <1>3, <1>4, <1>5

LEMMA WsaaEmiteConserva ==
    ASSUME InvCert, reloj \in 0..MaxReloj, Pedido, NEW p \in Peticiones, WsaaEmite(p)
    PROVE  Pedido'
<1>0. pet[p] \in EstadosPet /\ pet[p].pc = "en_wsaa" /\ UNCHANGED <<sub, reloj>>
  BY DEF Pedido, WsaaEmite, varsCert
<1>1. PICK u \in Iniciadas : pet[p].fila = {u}
  BY <1>0, UnaFila
<1> DEFINE t == [cert |-> sub[u].cert, vence |-> reloj + Vida]
           n == [pet[p] EXCEPT !.pc = "respondido", !.recibido = {t}]
<1>2. sub[u].cert \in Contenidos
  BY DEF InvCert, Autoria, Iniciadas
<1>3. reloj \in Nat /\ reloj + Vida \in Vida..(MaxReloj + Vida) /\ reloj <= reloj + Vida - Vida + Demora
  BY TiemposValidos
<1>4. t \in Ticket
  BY <1>2, <1>3 DEF Ticket
<1>5. n \in EstadosPet /\ n.pc = "respondido" /\ n.fila = {u} /\ n.recibido = {t}
  BY <1>0, <1>1, <1>4 DEF EstadosPet
<1>6. pet' = [pet EXCEPT ![p] = n]
  BY <1>1 DEF WsaaEmite, Vencimiento, Pedido
<1>7. Fiel(n)
  <2>1. \A w \in n.fila, x \in n.recibido : w = u /\ x = t
    BY <1>5
  <2>2. t.cert = sub[u].cert /\ t.vence = reloj + Vida
    OBVIOUS
  <2>3. reloj <= t.vence - Vida + Demora
    BY <1>3, <2>2, TiemposValidos
  <2> HIDE DEF t, n
  <2>4. \A w \in n.fila, x \in n.recibido :
          x.cert = sub[w].cert /\ reloj <= x.vence - Vida + Demora
    BY <2>1, <2>2, <2>3
  <2> QED BY <1>5, <2>4 DEF Fiel
<1>8. Cardinality(n.fila) = 1
  BY <1>5, FS_Singleton
<1> HIDE DEF n
<1> QED BY <1>0, <1>5, <1>6, <1>7, <1>8, UnaPeticion

LEMMA VolverConserva ==
    ASSUME Pedido, NEW p \in Peticiones, WsaaRechaza(p) \/ Terminar(p)
    PROVE  Pedido'
BY Ociosa, UnaPeticion DEF WsaaRechaza, Terminar, varsCert

LEMMA GuardarTicketConserva ==
    ASSUME Guardado, Pedido, NEW p \in Peticiones, GuardarTicket(p)
    PROVE  Guardado' /\ Pedido'
<1>0. /\ pet[p] \in EstadosPet /\ pet[p].pc = "respondido" /\ UNCHANGED <<sub, reloj>>
      /\ Fiel(pet[p])
  BY DEF Pedido, GuardarTicket, varsCert
<1>1. PICK u \in pet[p].fila, t \in pet[p].recibido :
        memoria' = Con(memoria, Huella(u), t) /\ GuardarEnDisco(memoria')
  BY DEF GuardarTicket
<1>2. t \in Ticket /\ t.cert = Huella(u)
  BY <1>0 DEF EstadosPet, Fiel, Huella
<1>3. Cache(memoria') /\ Propia(memoria')
  BY <1>1, <1>2, CacheTipo DEF Guardado
<1>4. Guardado'
  BY <1>0, <1>1, <1>3, GuardarGuarda
<1> DEFINE n == [pet[p] EXCEPT !.pc = "listo"]
<1>5. n \in EstadosPet /\ n.pc = "listo" /\ n.fila = pet[p].fila
  BY <1>0 DEF EstadosPet
<1>6. pet' = [pet EXCEPT ![p] = n]
  BY DEF GuardarTicket, Pedido
<1>7. Fiel(n) /\ Cardinality(n.fila) = 1
  BY <1>0, <1>5 DEF Pedido, Fiel
<1> HIDE DEF n
<1> QED BY <1>0, <1>4, <1>5, <1>6, <1>7, UnaPeticion

(* No step of an upload forgets its certificate.                           *)
LEMMA SubidaFija ==
    ASSUME InvCert, PasoCertificados, NEW u \in Iniciadas
    PROVE  u \in Iniciadas' /\ sub'[u].cert = sub[u].cert
<1>0. u \in Subidas /\ sub[u] \in EstadosSubida /\ sub[u].pc # "inicio"
  BY DEF Iniciadas, InvCert, TypeOKCert
<1>a. sub \in [Subidas -> EstadosSubida]
  BY DEF InvCert, TypeOKCert
<1>1. ASSUME NEW v \in Subidas, PasoSubida(v) PROVE sub'[u].cert = sub[u].cert /\ sub'[u].pc # "inicio"
  <2>1. CASE \E c \in Contenidos, k \in Claves : ComprobarClave(v, c, k)
    <3>1. v # u /\ sub'[u] = sub[u]
      BY <1>0, <1>a, <2>1 DEF ComprobarClave
    <3> QED BY <1>0, <3>1
  <2>2. CASE GuardarYValidar(v)
    BY <1>0, <1>a, <2>2 DEF GuardarYValidar, EstadosSubida
  <2>3. CASE BuscarActivas(v)
    BY <1>0, <1>a, <2>3 DEF BuscarActivas, EstadosSubida
  <2>4. CASE Desactivar(v)
    BY <1>0, <1>a, <2>4 DEF Desactivar, EstadosSubida
  <2>5. CASE Insertar(v)
    BY <1>0, <1>a, <2>5 DEF Insertar, Fallar, EliminarArchivo, EstadosSubida
  <2>6. CASE ConfirmarSubida(v)
    BY <1>0, <1>a, <2>6 DEF ConfirmarSubida, EstadosSubida
  <2>7. CASE CommitSinRespuesta(v)
    BY <1>0, <1>a, <2>7 DEF CommitSinRespuesta, Fallar, EliminarArchivo, EstadosSubida
  <2>8. CASE FallarAntes(v)
    BY <1>0, <1>a, <2>8 DEF FallarAntes, Fallar, EliminarArchivo, EstadosSubida
  <2> QED BY <1>1, <2>1, <2>2, <2>3, <2>4, <2>5, <2>6, <2>7, <2>8 DEF PasoSubida
<1>2. ASSUME NEW l \in Limpiezas, PasoLimpieza(l) PROVE sub' = sub
  BY <1>2 DEF PasoLimpieza, LeerFila, Borrar, ConfirmarBorrado, BuscarReferencias, Desenlazar,
              AbandonarLimpieza, BuscarHuerfanos
<1>3. ASSUME NEW k \in Claves, GenerarCsr(k) PROVE sub' = sub
  BY <1>3 DEF GenerarCsr
<1>4. sub'[u].cert = sub[u].cert /\ sub'[u].pc # "inicio"
  BY <1>0, <1>1, <1>2, <1>3 DEF PasoCertificados
<1> QED BY <1>0, <1>4 DEF Iniciadas

LEMMA CertificadosConserva ==
    ASSUME InvCert, Guardado, Pedido, PasoCertificados
    PROVE  Guardado' /\ Pedido'
<1>1. UNCHANGED <<pet, memoria, disco, alDia, reloj>>
  BY DEF PasoCertificados, varsTicket
<1>2. Guardado'
  BY <1>1, Igual
<1>3. \A p \in Peticiones : Fiel(pet[p])'
  <2> TAKE p \in Peticiones
  <2>1. Fiel(pet[p])
    BY DEF Pedido
  <2> QED BY <1>1, <2>1, SubidaFija DEF Fiel
<1>4. EstadosPet' = EstadosPet
  BY DEF EstadosPet, Ticket
<1> QED BY <1>1, <1>2, <1>3, <1>4 DEF Pedido

LEMMA CaerYVolverConserva ==
    ASSUME Guardado, CaerYVolver
    PROVE  Guardado' /\ Pedido'
<1>0. pet' = [p \in Peticiones |-> Ocioso] /\ reloj' = reloj
  BY DEF CaerYVolver
<1>1. Pedido'
  <2>1. \A p \in Peticiones : Fiel(pet[p])'
    BY <1>0 DEF Fiel, Ocioso
  <2>2. pet' \in [Peticiones -> EstadosPet] /\ EstadosPet' = EstadosPet
    BY <1>0, Ociosa DEF EstadosPet, Ticket
  <2>3. \A p \in Peticiones : pet'[p].pc = "libre"
    BY <1>0 DEF Ocioso
  <2> QED BY <2>1, <2>2, <2>3 DEF Pedido
<1>2. CASE memoria' = Releidos /\ UNCHANGED <<disco, alDia>>
  <2>1. Cache(memoria') /\ Propia(memoria')
    BY <1>2, UtilesAhora, CacheTipo, CacheVacia DEF Releidos, Guardado
  <2>2. alDia => disco.legible /\ UtilesEn(reloj, memoria') = UtilesEn(reloj, disco.tickets)
    BY <1>2, UtilesAhora, UtilesDos DEF Guardado, DiscoFiel, Releidos
  <2>3. DiscoFiel'
    BY <1>0, <1>2, <2>2 DEF DiscoFiel, SoloUtiles, Utiles, Util, UtilesEn
  <2> QED BY <1>1, <1>2, <2>1, <2>3 DEF Guardado, Cache, Propia, Ticket
<1>3. CASE /\ disco' = [legible |-> FALSE, tickets |-> Vacia]
           /\ alDia' = FALSE /\ memoria' = Vacia
  <2>1. disco'.legible = FALSE /\ disco'.tickets = Vacia
    BY <1>3
  <2> QED BY <1>1, <1>3, <2>1, CacheVacia DEF Guardado, DiscoFiel, Cache, Propia, Ticket
<1> QED BY <1>1, <1>2, <1>3 DEF CaerYVolver

LEMMA AvanzarConserva ==
    ASSUME Guardado, Pedido, reloj \in 0..MaxReloj, Avanzar
    PROVE  Guardado' /\ Pedido' /\ reloj' \in 0..MaxReloj
<1>0. /\ reloj \in Nat /\ reloj' = reloj + 1 /\ reloj' \in 0..MaxReloj
      /\ UNCHANGED <<sub, memoria, disco, alDia, pet>>
  BY TiemposValidos DEF Avanzar, varsCert
<1>1. DiscoFiel'
  <2>1. alDia => UtilesEn(reloj, disco.tickets) = UtilesEn(reloj, memoria)
    BY UtilesAhora DEF Guardado, DiscoFiel
  <2>2. alDia => UtilesEn(reloj + 1, disco.tickets) = UtilesEn(reloj + 1, memoria)
    BY <1>0, <2>1, UtilesLuego DEF Guardado
  <2> QED BY <1>0, <2>2 DEF Guardado, DiscoFiel, SoloUtiles, Utiles, Util, UtilesEn
<1>2. Guardado'
  BY <1>0, <1>1 DEF Guardado, Cache, Propia, Ticket
<1>3. ASSUME NEW p \in Peticiones PROVE Fiel(pet[p])'
  <2>1. Fiel(pet[p]) /\ Reciente(p) /\ pet[p].recibido \subseteq Ticket
    BY <1>3 DEF Pedido, Avanzar, EstadosPet
  <2>2. \A t \in pet[p].recibido : t.vence \in Int
    BY <2>1, TiemposValidos DEF Ticket
  <2>3. pet[p].pc = "respondido" =>
          \A t \in pet[p].recibido : reloj + 1 <= t.vence - Vida + Demora
    BY <1>0, <2>1, <2>2, TiemposValidos DEF Reciente
  <2> QED BY <1>0, <2>1, <2>3 DEF Fiel, Iniciadas
<1>4. EstadosPet' = EstadosPet
  BY DEF EstadosPet, Ticket
<1> QED BY <1>0, <1>2, <1>3, <1>4 DEF Pedido

LEMMA QuietoConserva ==
    ASSUME Guardado, Pedido, UNCHANGED vars
    PROVE  Guardado' /\ Pedido'
<1>1. UNCHANGED <<sub, pet, reloj, memoria, disco, alDia>>
  BY DEF vars, varsCert, varsTicket
<1>2. Guardado'
  BY <1>1, Igual
<1>3. \A p \in Peticiones : Fiel(pet[p])'
  BY <1>1 DEF Pedido, Fiel, Iniciadas
<1>4. EstadosPet' = EstadosPet
  BY DEF EstadosPet, Ticket
<1> QED BY <1>1, <1>2, <1>3, <1>4 DEF Pedido

-----------------------------------------------------------------------------
(* The whole invariant.                                                    *)

LEMMA InvInicio == Init => Inv
<1> SUFFICES ASSUME Init PROVE Inv
  OBVIOUS
<1>1. InvCert
  BY InicioCert DEF Init
<1>2. reloj \in 0..MaxReloj
  BY TiemposValidos DEF Init
<1>3. Guardado
  <2>1. memoria = Vacia /\ disco.tickets = Vacia /\ disco.legible = TRUE /\ alDia = TRUE
    BY DEF Init
  <2> QED BY <2>1, CacheVacia DEF Guardado, DiscoFiel
<1>4. Pedido
  <2>1. \A p \in Peticiones : pet[p] = Ocioso
    BY DEF Init
  <2> QED BY <2>1, Ociosa DEF Init, Pedido
<1> QED BY <1>1, <1>2, <1>3, <1>4 DEF Inv

LEMMA PasoConserva ==
    ASSUME Inv, NEW p \in Peticiones, Paso(p)
    PROVE  Guardado' /\ Pedido' /\ reloj' = reloj
<1> USE DEF Inv
<1>1. CASE ElegirActivo(p) \/ ElegirAVerificar(p)
  BY <1>1, ElegirConserva, Igual DEF ElegirActivo, ElegirAVerificar
<1>2. CASE Acceder(p)
  BY <1>2, AccederConserva DEF Acceder
<1>3. CASE WsaaEmite(p)
  BY <1>3, WsaaEmiteConserva, Igual DEF WsaaEmite
<1>4. CASE WsaaRechaza(p) \/ Terminar(p)
  BY <1>4, VolverConserva, Igual DEF WsaaRechaza, Terminar
<1>5. CASE GuardarTicket(p)
  BY <1>5, GuardarTicketConserva DEF GuardarTicket
<1> QED BY <1>1, <1>2, <1>3, <1>4, <1>5 DEF Paso

LEMMA InvConserva == Inv /\ [Next]_vars => Inv'
<1> SUFFICES ASSUME Inv, [Next]_vars PROVE Inv'
  OBVIOUS
<1> USE DEF Inv
<1>0. InvCert'
  BY CertConserva
<1>1. CASE PasoCertificados
  BY <1>0, <1>1, CertificadosConserva DEF PasoCertificados, varsTicket
<1>2. CASE \E p \in Peticiones : Paso(p)
  BY <1>0, <1>2, PasoConserva
<1>3. CASE CaerYVolver
  BY <1>0, <1>3, CaerYVolverConserva DEF CaerYVolver
<1>4. CASE Avanzar
  BY <1>0, <1>4, AvanzarConserva
<1>5. CASE UNCHANGED vars
  BY <1>0, <1>5, QuietoConserva DEF vars, varsTicket
<1> QED BY <1>1, <1>2, <1>3, <1>4, <1>5 DEF Next

LEMMA InvSiempre == Spec => []Inv
BY InvInicio, InvConserva, PTL DEF Spec

-----------------------------------------------------------------------------
(* The promises.                                                           *)

(* Rows, files, cache and requests keep their shape; a registered          *)
(* certificate has its key and its .crt, and a stored .crt an owner.       *)
THEOREM MaterialSiempre == Spec => []MaterialFiel
<1>1. Inv => MaterialFiel
  <2> SUFFICES ASSUME Inv PROVE MaterialFiel
    OBVIOUS
  <2>1. TypeOK
    BY DEF Inv, InvCert, Guardado, Pedido, EstadosPet, TypeOK
  <2>2. FilaConMaterial
    BY DEF Inv, InvCert, Archivos, Validada, Material1, Material2, FilaConMaterial
  <2> QED BY <2>1, <2>2 DEF Inv, InvCert, MaterialFiel
<1> QED BY <1>1, InvSiempre, PTL

(* While no save has failed, the file holds the useful tickets of the      *)
(* memory, at every instant and after every restart.                       *)
THEOREM CacheFiel == Spec => []DiscoFiel
<1>1. Inv => DiscoFiel
  BY DEF Inv, Guardado
<1> QED BY <1>1, InvSiempre, PTL

(* The step by which a request gets its ticket: from the cache or from     *)
(* WSAA, it is one of the certificate selected and not near its end.       *)
LEMMA EntregaBuena ==
    ASSUME Inv, [Next]_vars, NEW p \in Peticiones, pet[p].pc # "listo", pet'[p].pc = "listo",
           NEW u \in pet[p].fila, NEW t \in pet'[p].recibido
    PROVE  t.cert = sub[u].cert /\ t.vence - reloj > Margen
<1> USE DEF Inv
<1>0. pet \in [Peticiones -> EstadosPet] /\ pet[p] \in EstadosPet /\ reloj \in Nat
  BY DEF Pedido
<1>1. CASE Acceder(p)
  <2>0. pet[p].pc = "elegido"
    BY <1>1 DEF Acceder
  <2>1. PICK v \in Iniciadas : pet[p].fila = {v}
    BY <2>0, UnaFila
  <2>2. u = v
    BY <2>1
  <2>3. TomarDeCache(p, u)
    <3>1. SinMaterial(p, u) \/ TomarDeCache(p, u) \/ PedirTicket(p, u)
      BY <1>1, <2>1, <2>2 DEF Acceder
    <3>2. ~SinMaterial(p, u)
      BY <1>0 DEF SinMaterial, Ocioso
    <3>3. ~PedirTicket(p, u)
      BY <1>0 DEF PedirTicket, EstadosPet
    <3> QED BY <3>1, <3>2, <3>3
  <2>4. t = memoria[Huella(u)] /\ Huella(u) \in DOMAIN memoria /\ Util(memoria[Huella(u)])
    BY <1>0, <2>3 DEF TomarDeCache, Servible, EnCache, EstadosPet
  <2>5. t.cert = Huella(u) /\ t \in Ticket
    BY <2>4 DEF Guardado, Propia, Cache
  <2>6. t.vence \in Int /\ reloj < t.vence - Margen
    BY <2>4, <2>5, TiemposValidos DEF Util, Ticket
  <2> QED BY <1>0, <2>5, <2>6, TiemposValidos DEF Huella
<1>2. CASE GuardarTicket(p)
  <2>1. pet[p].pc = "respondido" /\ pet'[p] = [pet[p] EXCEPT !.pc = "listo"]
    BY <1>0, <1>2 DEF GuardarTicket
  <2>2. t \in pet[p].recibido /\ t \in Ticket
    BY <1>0, <2>1 DEF EstadosPet
  <2>3. t.cert = sub[u].cert /\ reloj <= t.vence - Vida + Demora /\ t.vence \in Int
    BY <2>1, <2>2, TiemposValidos DEF Pedido, Fiel, Ticket
  <2> QED BY <1>0, <2>3, TiemposValidos
<1>3. ASSUME NEW q \in Peticiones, Paso(q), ~(Acceder(p) \/ GuardarTicket(p)) PROVE FALSE
  <2>1. CASE q # p
    <3>1. pet'[p] = pet[p]
      BY <1>0, <1>3, <2>1
         DEF Paso, ElegirActivo, ElegirAVerificar, Acceder, SinMaterial, TomarDeCache,
             PedirTicket, WsaaEmite, WsaaRechaza, GuardarTicket, Terminar
    <3> QED BY <3>1
  <2>2. CASE q = p
    <3>1. ElegirActivo(p) \/ ElegirAVerificar(p) \/ WsaaEmite(p) \/ WsaaRechaza(p) \/ Terminar(p)
      BY <1>3, <2>2 DEF Paso
    <3>2. ~ElegirActivo(p) /\ ~ElegirAVerificar(p)
      <4>1. ASSUME NEW v, pet' = [pet EXCEPT ![p].pc = "elegido", ![p].fila = {v}] PROVE FALSE
        BY <1>0, <4>1 DEF EstadosPet
      <4>2. ASSUME NEW v, pet' = [pet EXCEPT ![p].pc = "elegido", ![p].fila = {v}, ![p].fuerza = TRUE]
            PROVE  FALSE
        BY <1>0, <4>2 DEF EstadosPet
      <4> QED BY <4>1, <4>2 DEF ElegirActivo, ElegirAVerificar
    <3>3. ~WsaaEmite(p)
      BY <1>0 DEF WsaaEmite, EstadosPet
    <3>4. ~WsaaRechaza(p) /\ ~Terminar(p)
      BY <1>0 DEF WsaaRechaza, Terminar, Ocioso
    <3> QED BY <3>1, <3>2, <3>3, <3>4
  <2> QED BY <2>1, <2>2
<1>4. CASE PasoCertificados \/ Avanzar \/ UNCHANGED vars
  BY <1>4 DEF PasoCertificados, Avanzar, vars, varsTicket
<1>5. CASE CaerYVolver
  BY <1>5 DEF CaerYVolver, Ocioso
<1> QED BY <1>1, <1>2, <1>3, <1>4, <1>5 DEF Next

(* No request is ever given the ticket of another certificate, nor one     *)
(* within the margin of its end.                                           *)
THEOREM TicketPropio == Spec => TicketServible
<1>1. Inv /\ [Next]_vars =>
        [\A p \in Peticiones : pet[p].pc # "listo" /\ pet'[p].pc = "listo"
            => \A u \in pet[p].fila, t \in pet'[p].recibido :
                  t.cert = sub[u].cert /\ t.vence - reloj > Margen]_vars
  BY EntregaBuena
<1> QED BY <1>1, InvSiempre, PTL DEF Spec, TicketServible

=============================================================================
