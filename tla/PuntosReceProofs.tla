--------------------------- MODULE PuntosReceProofs ---------------------------
(***************************************************************************)
(* InductivoPuntos is inductive, and what follows from it.                 *)
(***************************************************************************)
EXTENDS PuntosReceInv, FiniteSetTheorems, SequenceTheorems, TLAPS

-----------------------------------------------------------------------------
(* What the requests carry *)

\* A request that did not move carries what it carried.
LEMMA PedidoQuieto ==
    ASSUME NEW q \in Pedidos, Pedido(q), ped'[q] = ped[q]
    PROVE  Pedido(q)'
<1>1. Nuevos(q)' = Nuevos(q)
      BY DEF Nuevos, Leidos, Informado, ConArca
<1> QED BY <1>1 DEF Pedido

LEMMA CopiaQuieta ==
    ASSUME NEW q \in Pedidos, CopiaFiel(q), ped'[q] = ped[q], punto' = punto
    PROVE  CopiaFiel(q)'
BY DEF CopiaFiel

\* An idle request carries nothing.
LEMMA OciosoTipo == Ocioso \in EstadosPedido
BY DEF Ocioso, EstadosPedido, NoCuit

\* A request that ends releases what it held and leaves the others alone.
LEMMA SueltaCurso ==
    ASSUME InductivoPuntos, NEW p \in Pedidos, Soltar(p), empresa' = empresa,
           \A q \in Pedidos \ {p} :
               CopiaFiel(q)' /\ GuardaPropia(q)' /\ ped[q].alta \cap NumerosActuales' = {}
    PROVE  /\ Curso'
           /\ ped' \in [Pedidos -> EstadosPedido]
           /\ candado' \in [Puntos -> Pedidos \cup {Nadie}]
           /\ frontera' \in Pedidos \cup {Nadie}
<1> USE DEF InductivoPuntos
<1>1. /\ ped' \in [Pedidos -> EstadosPedido]
      /\ ped'[p] = Ocioso
      /\ \A q \in Pedidos \ {p} : ped'[q] = ped[q]
      BY OciosoTipo DEF Soltar, Formas
<1>2. /\ candado' \in [Puntos -> Pedidos \cup {Nadie}]
      /\ \A pt \in Puntos : candado'[pt] # Nadie => candado'[pt] = candado[pt] /\ candado[pt] # p
      BY DEF Soltar, Formas
<1>3. /\ frontera' \in Pedidos \cup {Nadie}
      /\ frontera' # Nadie => frontera' = frontera /\ frontera # p
      /\ frontera # p => frontera' = frontera
      BY DEF Soltar, Formas
<1>4. Pedido(p)' /\ CopiaFiel(p)' /\ AltaPropia(p)' /\ GuardaPropia(p)' /\ ~EnFrontera(p)'
      BY <1>1 DEF Ocioso, Pedido, CopiaFiel, AltaPropia, GuardaPropia, EnFrontera,
                  FasesDeLote, FasesDeEmision, ConCopia
<1>5. ASSUME NEW q \in Pedidos, q # p
      PROVE  /\ Pedido(q)' /\ CopiaFiel(q)' /\ AltaPropia(q)' /\ GuardaPropia(q)'
             /\ EnFrontera(q)' => frontera' = q
  <2>1. ped'[q] = ped[q] /\ Pedido(q) /\ AltaPropia(q) /\ (EnFrontera(q) => frontera = q)
        BY <1>1, <1>5 DEF Curso
  <2>2. Pedido(q)'  BY <2>1, PedidoQuieto
  <2>3. AltaPropia(q)'
    <3>1. ped'[q].alta \cap NumerosActuales' = {}
          BY <2>1, <1>5
    <3>2. ASSUME NEW r \in Pedidos \ {q} PROVE ped'[r].alta \cap ped'[q].alta = {}
      <4>1. CASE r = p  BY <4>1, <1>1 DEF Ocioso
      <4>2. CASE r # p  BY <4>2, <1>1, <2>1 DEF AltaPropia
      <4> QED BY <4>1, <4>2
    <3> QED BY <3>1, <3>2 DEF AltaPropia
  <2>4. EnFrontera(q)' => frontera' = q
        BY <2>1, <1>3, <1>5 DEF EnFrontera
  <2> QED BY <2>2, <2>3, <2>4, <1>5
<1>6. FronteraViva'
  <2>1. SUFFICES ASSUME frontera' # Nadie
                 PROVE  /\ EnFrontera(frontera)' /\ ped'[frontera'].cuit = empresa.cuit
                        /\ Administrador[frontera'] \in empresa.admins
        BY DEF FronteraViva
  <2>2. frontera' = frontera /\ frontera \in Pedidos \ {p} /\ frontera # Nadie
        BY <2>1, <1>3 DEF Formas
  <2> QED BY <2>2, <1>1 DEF Curso, FronteraViva, EnFrontera
<1>7. CandadosVivos'
  <2>1. SUFFICES ASSUME NEW pt \in Puntos, candado'[pt] # Nadie
                 PROVE  ped'[candado'[pt]].fase # "libre"
        BY DEF CandadosVivos, Libre
  <2>2. candado'[pt] = candado[pt] /\ candado[pt] \in Pedidos \ {p} /\ candado[pt] # Nadie
        BY <2>1, <1>2 DEF Formas
  <2> QED BY <2>2, <1>1 DEF Curso, CandadosVivos, Libre
<1>8. \A q \in Pedidos :
          /\ Pedido(q)' /\ CopiaFiel(q)' /\ AltaPropia(q)' /\ GuardaPropia(q)'
          /\ EnFrontera(q)' => frontera' = q
      BY <1>4, <1>5
<1>9. Curso'
      BY <1>6, <1>7, <1>8 DEF Curso
<1> QED BY <1>1, <1>2, <1>3, <1>9

\* A request that goes on only has to keep its own part.
LEMMA AvanzaCurso ==
    ASSUME InductivoPuntos, NEW p \in Pedidos, NEW x \in EstadosPedido,
           ped' = [ped EXCEPT ![p] = x], x.fase # "libre", UNCHANGED <<punto, empresa>>,
           \A pt \in Puntos : candado'[pt] \in {candado[pt], p, Nadie},
           frontera' = frontera \/ frontera = Nadie,
           frontera' = p =>
               x.cuit = empresa.cuit /\ Administrador[p] \in empresa.admins,
           frontera' \in {frontera, p},
           EnFrontera(p)' <=> frontera' = p,
           Pedido(p)', CopiaFiel(p)', AltaPropia(p)',
           \A q \in Pedidos : GuardaPropia(q)'
    PROVE  Curso' /\ ped' \in [Pedidos -> EstadosPedido]
<1> USE DEF InductivoPuntos
<1>1. /\ ped' \in [Pedidos -> EstadosPedido]
      /\ ped'[p] = x
      /\ \A q \in Pedidos \ {p} : ped'[q] = ped[q]
      BY DEF Formas
<1>5. ASSUME NEW q \in Pedidos, q # p
      PROVE  /\ Pedido(q)' /\ CopiaFiel(q)' /\ AltaPropia(q)'
             /\ EnFrontera(q)' => frontera' = q
  <2>1. /\ ped'[q] = ped[q] /\ Pedido(q) /\ CopiaFiel(q) /\ AltaPropia(q)
        /\ EnFrontera(q) => frontera = q
        BY <1>1, <1>5 DEF Curso
  <2>2. Pedido(q)'  BY <2>1, PedidoQuieto
  <2>3. CopiaFiel(q)'  BY <2>1, CopiaQuieta
  <2>4. AltaPropia(q)'
    <3>1. ped'[q].alta \cap NumerosActuales' = {}
          BY <2>1 DEF AltaPropia, NumerosActuales, Existentes, Existe
    <3>2. ASSUME NEW r \in Pedidos \ {q} PROVE ped'[r].alta \cap ped'[q].alta = {}
      <4>1. CASE r = p  BY <4>1, <1>5 DEF AltaPropia
      <4>2. CASE r # p  BY <4>2, <1>1, <2>1 DEF AltaPropia
      <4> QED BY <4>1, <4>2
    <3> QED BY <3>1, <3>2 DEF AltaPropia
  <2>5. EnFrontera(q)' => frontera' = q
        BY <2>1, <1>5, ConstantesValidas DEF EnFrontera
  <2> QED BY <2>2, <2>3, <2>4, <2>5
<1>6. FronteraViva'
  <2>1. CASE frontera' = p
        BY <2>1, <1>1 DEF FronteraViva
  <2>2. CASE frontera' # p
    <3>1. SUFFICES ASSUME frontera' # Nadie
                   PROVE  /\ EnFrontera(frontera)' /\ ped'[frontera'].cuit = empresa.cuit
                          /\ Administrador[frontera'] \in empresa.admins
          BY DEF FronteraViva
    <3>2. frontera' = frontera /\ frontera \in Pedidos \ {p} /\ frontera # Nadie
          BY <2>2, <3>1 DEF Formas
    <3> QED BY <3>2, <1>1 DEF Curso, FronteraViva, EnFrontera
  <2> QED BY <2>1, <2>2
<1>7. CandadosVivos'
  <2>1. SUFFICES ASSUME NEW pt \in Puntos, candado'[pt] # Nadie
                 PROVE  ped'[candado'[pt]].fase # "libre"
        BY DEF CandadosVivos, Libre
  <2>2. CASE candado'[pt] = p  BY <2>2, <1>1
  <2>3. CASE candado'[pt] # p
    <3>1. candado'[pt] = candado[pt] /\ candado[pt] \in Pedidos \ {p} /\ candado[pt] # Nadie
          BY <2>1, <2>3 DEF Formas
    <3> QED BY <3>1, <1>1 DEF Curso, CandadosVivos, Libre
  <2> QED BY <2>2, <2>3
<1>8. \A q \in Pedidos :
          /\ Pedido(q)' /\ CopiaFiel(q)' /\ AltaPropia(q)' /\ GuardaPropia(q)'
          /\ EnFrontera(q)' => frontera' = q
      BY <1>5
<1> QED BY <1>1, <1>6, <1>7, <1>8 DEF Curso

\* A step of nobody's leaves the requests as they were.
LEMMA QuietoCurso ==
    ASSUME InductivoPuntos, UNCHANGED <<ped, candado, frontera>>,
           \A q \in Pedidos : CopiaFiel(q)' /\ AltaPropia(q)' /\ GuardaPropia(q)',
           frontera # Nadie =>
               empresa'.cuit = empresa.cuit
               /\ (Administrador[frontera] \in empresa.admins => Administrador[frontera] \in empresa'.admins)
    PROVE  Curso'
<1> USE DEF InductivoPuntos
<1>1. \A q \in Pedidos : Pedido(q)' /\ (EnFrontera(q)' => frontera' = q)
      BY PedidoQuieto DEF Curso, EnFrontera
<1>2. FronteraViva'
      BY DEF Curso, FronteraViva, EnFrontera
<1>3. CandadosVivos'
      BY DEF Curso, CandadosVivos, Libre
<1> QED BY <1>1, <1>2, <1>3 DEF Curso

-----------------------------------------------------------------------------
(* Rows, guards and ledger *)

\* The ledger does not depend on the requests, and a guard is taken for
\* the current context of a point that exists.
LEMMA RegistroGuarda ==
    ASSUME InductivoPuntos, UNCHANGED <<punto, libro, dictamen>>, empresa'.cuit = empresa.cuit,
           \A pt \in Puntos : GuardaActiva(pt)' =>
               \/ GuardaActiva(pt) /\ guarda'[pt].ctx = guarda[pt].ctx
               \/ Existe(pt) /\ guarda'[pt].ctx = Contexto(pt)
    PROVE  Registro'
<1> USE DEF InductivoPuntos
<1>1. /\ Existentes' = Existentes
      /\ \A pt \in Puntos : /\ Existe(pt)' <=> Existe(pt)
                            /\ Contexto(pt)' = Contexto(pt)
                            /\ Cabeza(pt)' = Cabeza(pt)
      BY DEF Existentes, Existe, Contexto, Cabeza
<1>2. IdsEnOrden' /\ NumerosUnicos' /\ RevisionesAcotadas' /\ NacenJuntos'
      BY <1>1 DEF Registro, IdsEnOrden, NumerosUnicos, RevisionesAcotadas, NacenJuntos
<1>3. GuardasConPunto' /\ GuardaAlDia'
      BY <1>1 DEF Registro, GuardasConPunto, GuardaAlDia
<1>4. Existentes \subseteq Puntos
      BY DEF Existentes
<1>5. HistoriaFiel'
      BY <1>1, <1>4 DEF Registro, HistoriaFiel
<1>6. EvidenciaFiel'
      BY <1>1, <1>4 DEF Registro, EvidenciaFiel
<1>7. DocumentosEnOrden'
      BY DEF Registro, DocumentosEnOrden
<1> QED BY <1>2, <1>3, <1>5, <1>6, <1>7 DEF Registro

LEMMA RegistroQuieto ==
    ASSUME InductivoPuntos, UNCHANGED <<punto, libro, dictamen, guarda>>, empresa'.cuit = empresa.cuit
    PROVE  Registro'
<1>1. \A pt \in Puntos : GuardaActiva(pt)' => GuardaActiva(pt) /\ guarda'[pt].ctx = guarda[pt].ctx
      BY DEF GuardaActiva
<1> QED BY <1>1, RegistroGuarda

\* A rejected request changes nothing but itself.
LEMMA RechazoConserva ==
    ASSUME InductivoPuntos, NEW p \in Pedidos, Rechazar(p), UNCHANGED Entorno
    PROVE  InductivoPuntos'
<1> USE DEF Rechazar, Entorno
<1>1. \A q \in Pedidos \ {p} :
          CopiaFiel(q)' /\ GuardaPropia(q)' /\ ped[q].alta \cap NumerosActuales' = {}
  <2>1. SUFFICES ASSUME NEW q \in Pedidos \ {p}
                 PROVE CopiaFiel(q)' /\ GuardaPropia(q)' /\ ped[q].alta \cap NumerosActuales' = {}
        OBVIOUS
  <2>2. ped'[q] = ped[q]
        BY DEF Soltar, InductivoPuntos, Formas
  <2>3. CopiaFiel(q) /\ GuardaPropia(q) /\ AltaPropia(q)
        BY DEF InductivoPuntos, Curso
  <2> QED BY <2>2, <2>3, CopiaQuieta
          DEF GuardaPropia, GuardaActiva, AltaPropia, NumerosActuales, Existentes, Existe
<1>2. /\ Curso'
      /\ ped' \in [Pedidos -> EstadosPedido]
      /\ candado' \in [Puntos -> Pedidos \cup {Nadie}]
      /\ frontera' \in Pedidos \cup {Nadie}
      BY <1>1, SueltaCurso
<1>3. Registro'
      BY RegistroQuieto
<1> QED BY <1>2, <1>3 DEF InductivoPuntos, Formas

-----------------------------------------------------------------------------
(* One lemma per action: requests that begin, read and wait *)

\* A request that moves on without inserting, reserving or attesting.
LEMMA AvanzaConserva ==
    ASSUME InductivoPuntos, NEW p \in Pedidos, NEW x \in EstadosPedido,
           ped' = [ped EXCEPT ![p] = x], x.fase # "libre",
           UNCHANGED <<Fila, Entorno, frontera>>,
           candado' \in [Puntos -> Pedidos \cup {Nadie}],
           \A pt \in Puntos : candado'[pt] \in {candado[pt], p, Nadie},
           x.alta = ped[p].alta, x.cuit = ped[p].cuit \/ ~EnFrontera(p),
           x.confirma /\ x.fase \in {"altas", "espera"} <=> EnFrontera(p),
           x.fase \in {"reservado", "enviado"} => FALSE,
           Pedido(p)', CopiaFiel(p)'
    PROVE  InductivoPuntos'
<1> USE DEF InductivoPuntos, Fila, Entorno
<1>1. /\ ped'[p] = x
      /\ \A q \in Pedidos \ {p} : ped'[q] = ped[q]
      BY DEF Formas
<1>2. EnFrontera(p)' <=> EnFrontera(p)
      BY <1>1 DEF EnFrontera
<1>3. EnFrontera(p) <=> frontera = p
      BY ConstantesValidas DEF Curso, FronteraViva
<1>4. frontera' = p => x.cuit = empresa.cuit /\ Administrador[p] \in empresa.admins
      BY <1>3, ConstantesValidas DEF Curso, FronteraViva
<1>5. AltaPropia(p)'
      BY <1>1 DEF Curso, AltaPropia, NumerosActuales, Existentes, Existe
<1>6. \A q \in Pedidos : GuardaPropia(q)'
      BY <1>1 DEF Curso, GuardaPropia, GuardaActiva
<1>7. frontera' = frontera /\ UNCHANGED <<punto, empresa>>
      OBVIOUS
<1>8. EnFrontera(p)' <=> frontera' = p
      BY <1>2, <1>3, <1>7
<1>9. frontera' = p => frontera' \in {frontera, p}
      OBVIOUS
<1>10. Curso' /\ ped' \in [Pedidos -> EstadosPedido]
      BY <1>4, <1>5, <1>6, <1>7, <1>8, AvanzaCurso
<1>11. Registro'
      BY RegistroQuieto
<1> QED BY <1>10, <1>11 DEF Formas

\* An idle request holds nothing.
LEMMA LibreNada ==
    ASSUME InductivoPuntos, NEW p \in Pedidos, ped[p].fase = "libre"
    PROVE  ped[p].alta = {} /\ ~EnFrontera(p) /\ frontera # p
BY ConstantesValidas DEF InductivoPuntos, Curso, Pedido, FronteraViva, EnFrontera

LEMMA EditarConserva ==
    ASSUME InductivoPuntos, NEW p \in Pedidos, Editar(p)
    PROVE  InductivoPuntos'
<1> USE DEF InductivoPuntos
<1>1. PICK pt \in Existentes, e \in Ediciones :
          ped' = [ped EXCEPT ![p] = [Ocioso EXCEPT
                     !.clase = "editar", !.fase = "espera", !.pt = pt, !.edicion = e,
                     !.copia = punto, !.faltan = {pt}]]
      BY DEF Editar
<1> DEFINE x == [Ocioso EXCEPT !.clase = "editar", !.fase = "espera", !.pt = pt,
                               !.edicion = e, !.copia = punto, !.faltan = {pt}]
<1>2. /\ x.clase = "editar" /\ x.fase = "espera" /\ x.pt = pt /\ x.edicion = e
      /\ x.copia = punto /\ x.alta = {} /\ x.confirma = FALSE
      BY DEF Ocioso
<1>3. x \in EstadosPedido
      BY DEF Ocioso, EstadosPedido, Existentes, Formas, NoCuit, FasesDeLote
<1>4. ped' = [ped EXCEPT ![p] = x]
      BY <1>1
<1> HIDE DEF x
<1>5. ped'[p] = x
      BY <1>4 DEF Formas
<1>6. ped[p].alta = {} /\ ~EnFrontera(p)
      BY LibreNada DEF Editar, Libre
<1>7. Pedido(p)'
      BY <1>2, <1>5 DEF Pedido, FasesDeLote, FasesDeEmision, ConCopia, Formas, Existentes, Existe
<1>8. UNCHANGED <<Fila, Entorno, frontera, candado>>
      BY DEF Editar
<1>9. CopiaFiel(p)'
      BY <1>2, <1>5, <1>8 DEF CopiaFiel, Fila, Formas, Filas
<1>10. /\ candado' \in [Puntos -> Pedidos \cup {Nadie}]
       /\ \A qt \in Puntos : candado'[qt] \in {candado[qt], p, Nadie}
      BY <1>8 DEF Formas
<1> QED BY <1>2, <1>3, <1>4, <1>6, <1>7, <1>8, <1>9, <1>10, AvanzaConserva

LEMMA SincronizarConserva ==
    ASSUME InductivoPuntos, NEW p \in Pedidos, Sincronizar(p)
    PROVE  InductivoPuntos'
<1> USE DEF InductivoPuntos
<1> DEFINE x == [Ocioso EXCEPT !.clase = "sincronizar", !.fase = "lista", !.lista = arca]
<1>1. ped' = [ped EXCEPT ![p] = x]
      BY DEF Sincronizar
<1>2. x.clase = "sincronizar" /\ x.fase = "lista" /\ x.alta = {} /\ x.confirma = FALSE
      BY DEF Ocioso
<1>3. x \in EstadosPedido
      BY DEF Ocioso, EstadosPedido, NoCuit, FasesDeLote
<1> HIDE DEF x
<1>5. ped'[p] = x
      BY <1>1 DEF Formas
<1>6. ped[p].alta = {} /\ ~EnFrontera(p)
      BY LibreNada DEF Sincronizar, Libre
<1>7. Pedido(p)' /\ CopiaFiel(p)'
      BY <1>2, <1>5 DEF Pedido, CopiaFiel, FasesDeLote, FasesDeEmision, ConCopia
<1>8. UNCHANGED <<Fila, Entorno, frontera, candado>>
      BY DEF Sincronizar
<1>9. /\ candado' \in [Puntos -> Pedidos \cup {Nadie}]
      /\ \A qt \in Puntos : candado'[qt] \in {candado[qt], p, Nadie}
      BY <1>8 DEF Formas
<1> QED BY <1>1, <1>2, <1>3, <1>6, <1>7, <1>8, <1>9, AvanzaConserva

LEMMA ImportarConserva ==
    ASSUME InductivoPuntos, NEW p \in Pedidos, Importar(p)
    PROVE  InductivoPuntos'
<1> USE DEF InductivoPuntos
<1>1. PICK c \in Constancias, confirma \in BOOLEAN, disponible \in BOOLEAN :
          ped' = [ped EXCEPT ![p] = [Ocioso EXCEPT
                     !.clase = "importar", !.fase = "lista", !.doc = c,
                     !.confirma = confirma, !.cuit = empresa.cuit,
                     !.lista = IF disponible THEN arca ELSE <<>>]]
      BY DEF Importar
<1> DEFINE x == [Ocioso EXCEPT !.clase = "importar", !.fase = "lista", !.doc = c,
                               !.confirma = confirma, !.cuit = empresa.cuit,
                               !.lista = IF disponible THEN arca ELSE <<>>]
<1>2. /\ x.clase = "importar" /\ x.fase = "lista" /\ x.doc = c /\ x.alta = {}
      /\ x.cuit = empresa.cuit
      BY DEF Ocioso
<1>3. x \in EstadosPedido
  <2>1. empresa.cuit \in Cuits
        BY DEF Formas
  <2>2. (IF disponible THEN arca ELSE <<>>) \in EstadosArca \cup {<<>>}
        OBVIOUS
  <2> QED BY <2>1, <2>2 DEF Ocioso, EstadosPedido, FasesDeLote
<1>4. ped' = [ped EXCEPT ![p] = x]
      BY <1>1
<1> HIDE DEF x
<1>5. ped'[p] = x
      BY <1>4 DEF Formas
<1>6. ped[p].alta = {} /\ ~EnFrontera(p)
      BY LibreNada DEF Importar, Libre
<1>7. Pedido(p)' /\ CopiaFiel(p)'
      BY <1>2, <1>5 DEF Pedido, CopiaFiel, FasesDeLote, FasesDeEmision, ConCopia, Formas
<1>8. UNCHANGED <<Fila, Entorno, frontera, candado>>
      BY DEF Importar
<1>9. /\ candado' \in [Puntos -> Pedidos \cup {Nadie}]
      /\ \A qt \in Puntos : candado'[qt] \in {candado[qt], p, Nadie}
      BY <1>8 DEF Formas
<1> QED BY <1>2, <1>3, <1>4, <1>6, <1>7, <1>8, <1>9, AvanzaConserva

LEMMA LeerPuntosConserva ==
    ASSUME InductivoPuntos, NEW p \in Pedidos, LeerPuntos(p)
    PROVE  InductivoPuntos'
<1> USE DEF InductivoPuntos
<1> DEFINE f == IF ped[p].confirma THEN "frontera" ELSE "altas"
           x == [ped[p] EXCEPT !.copia = punto, !.fase = f]
<1>1. ped' = [ped EXCEPT ![p] = x]
      BY DEF LeerPuntos, Formas, EstadosPedido
<1>2. ped[p] \in EstadosPedido /\ ped[p].fase = "lista" /\ Pedido(p) /\ f \in {"frontera", "altas"}
      BY DEF LeerPuntos, Formas, Curso
<1> HIDE DEF f
<1>3. /\ x \in EstadosPedido /\ x.fase = f /\ x.copia = punto /\ x.clase = ped[p].clase
      /\ x.alta = ped[p].alta /\ x.confirma = ped[p].confirma /\ x.cuit = ped[p].cuit
      /\ x.doc = ped[p].doc
  <2>1. f \in {"libre"} \cup FasesDeLote \cup FasesDeEmision /\ punto \in [Puntos -> Filas]
        BY <1>2 DEF FasesDeLote, Formas
  <2> QED BY <1>2, <2>1, ZenonT(30) DEF EstadosPedido
<1> HIDE DEF x
<1>4. ped'[p] = x
      BY <1>1 DEF Formas
<1>5. ~EnFrontera(p) /\ ~(x.confirma /\ x.fase \in {"altas", "espera"}) /\ x.fase \in {"frontera", "altas"}
      BY <1>2, <1>3 DEF EnFrontera, f
<1>6. ped[p].alta = {}
      BY <1>2 DEF Pedido
<1>7. Pedido(p)'
      BY <1>2, <1>3, <1>4, <1>5, <1>6 DEF f, Pedido, FasesDeLote, FasesDeEmision, ConCopia, Formas
<1>8. UNCHANGED <<Fila, Entorno, frontera, candado>>
      BY DEF LeerPuntos
<1>9. CopiaFiel(p)'
      BY <1>3, <1>4, <1>8 DEF CopiaFiel, Fila, Formas, Filas
<1>10. /\ candado' \in [Puntos -> Pedidos \cup {Nadie}]
       /\ \A qt \in Puntos : candado'[qt] \in {candado[qt], p, Nadie}
      BY <1>8 DEF Formas
<1> QED BY <1>1, <1>3, <1>5, <1>7, <1>8, <1>9, <1>10, AvanzaConserva

LEMMA EmitirConserva ==
    ASSUME InductivoPuntos, NEW p \in Pedidos, Emitir(p)
    PROVE  InductivoPuntos'
<1> USE DEF InductivoPuntos
<1>1. PICK pt \in Existentes :
          ped' = [ped EXCEPT ![p] = [Ocioso EXCEPT
                     !.clase = "emitir", !.fase = "capturar", !.pt = pt, !.faltan = {pt}]]
      BY DEF Emitir
<1> DEFINE x == [Ocioso EXCEPT !.clase = "emitir", !.fase = "capturar", !.pt = pt,
                               !.faltan = {pt}]
<1>2. /\ x.clase = "emitir" /\ x.fase = "capturar" /\ x.pt = pt /\ x.alta = {}
      /\ x.confirma = FALSE
      BY DEF Ocioso
<1>3. pt \in Puntos
      BY DEF Existentes
<1>4. x \in EstadosPedido
      BY <1>3 DEF Ocioso, EstadosPedido, NoCuit, FasesDeEmision
<1>5. ped' = [ped EXCEPT ![p] = x]
      BY <1>1
<1> HIDE DEF x
<1>6. ped'[p] = x
      BY <1>5 DEF Formas
<1>7. ped[p].alta = {} /\ ~EnFrontera(p)
      BY LibreNada DEF Emitir, Libre
<1>8. Pedido(p)' /\ CopiaFiel(p)'
      BY <1>2, <1>3, <1>6 DEF Pedido, CopiaFiel, FasesDeLote, FasesDeEmision, ConCopia
<1>9. UNCHANGED <<Fila, Entorno, frontera, candado>>
      BY DEF Emitir
<1>10. /\ candado' \in [Puntos -> Pedidos \cup {Nadie}]
       /\ \A qt \in Puntos : candado'[qt] \in {candado[qt], p, Nadie}
      BY <1>9 DEF Formas
<1> QED BY <1>2, <1>4, <1>5, <1>7, <1>8, <1>9, <1>10, AvanzaConserva

LEMMA TomarFronteraConserva ==
    ASSUME InductivoPuntos, NEW p \in Pedidos, TomarFrontera(p)
    PROVE  InductivoPuntos'
<1> USE DEF InductivoPuntos
<1>1. CASE ~AutoridadVigente(p)
      BY <1>1, RechazoConserva DEF TomarFrontera, Entorno
<1>2. CASE AutoridadVigente(p)
  <2> DEFINE x == [ped[p] EXCEPT !.fase = "altas"]
  <2>1. /\ ped[p] \in EstadosPedido /\ ped[p].fase = "frontera" /\ Pedido(p)
        /\ CopiaFiel(p) /\ AltaPropia(p)
        BY DEF TomarFrontera, Formas, Curso
  <2>2. /\ x \in EstadosPedido /\ x.fase = "altas" /\ x.clase = ped[p].clase
        /\ x.alta = ped[p].alta /\ x.confirma = ped[p].confirma /\ x.cuit = ped[p].cuit
        /\ x.doc = ped[p].doc /\ x.copia = ped[p].copia
        BY <2>1 DEF EstadosPedido, FasesDeLote
  <2>3. ped' = [ped EXCEPT ![p] = x] /\ frontera' = p /\ frontera = Nadie
        BY <1>2 DEF TomarFrontera
  <2>4. UNCHANGED <<Fila, Entorno, candado>>
        BY <1>2 DEF TomarFrontera
  <2> HIDE DEF x
  <2>5. ped'[p] = x /\ \A q \in Pedidos \ {p} : ped'[q] = ped[q]
        BY <2>3 DEF Formas
  <2>6. ped[p].alta = {} /\ x.confirma
        BY <2>1, <2>2 DEF Pedido
  <2>7. Pedido(p)'
        BY <2>1, <2>2, <2>5, <2>6 DEF Pedido, FasesDeLote, FasesDeEmision, ConCopia
  <2>8. CopiaFiel(p)' /\ AltaPropia(p)'
        BY <2>1, <2>2, <2>4, <2>5, <2>6
        DEF CopiaFiel, AltaPropia, NumerosActuales, Existentes, Existe, Fila, ConCopia
  <2>9. \A q \in Pedidos : GuardaPropia(q)'
        BY <2>2, <2>4, <2>5 DEF Curso, GuardaPropia, GuardaActiva, Fila
  <2>10. EnFrontera(p)'
        BY <2>2, <2>5, <2>6 DEF EnFrontera
  <2>11. x.cuit = empresa.cuit /\ Administrador[p] \in empresa.admins
        BY <1>2, <2>2 DEF AutoridadVigente
  <2>12. /\ UNCHANGED <<punto, empresa>>
         /\ \A pt \in Puntos : candado'[pt] \in {candado[pt], p, Nadie}
        BY <2>4 DEF Fila, Entorno
  <2>13. Curso' /\ ped' \in [Pedidos -> EstadosPedido]
        BY <2>2, <2>3, <2>7, <2>8, <2>9, <2>10, <2>11, <2>12, AvanzaCurso
  <2>14. Registro'
        BY <2>4, RegistroQuieto DEF Fila, Entorno
  <2> QED BY <2>3, <2>4, <2>13, <2>14 DEF Formas, Fila, Entorno
<1> QED BY <1>1, <1>2

\* What a batch inserts depends on what the request had read, only.
LEMMA MismosNuevos ==
    ASSUME NEW p \in Pedidos, ped'[p].clase = ped[p].clase, ped'[p].doc = ped[p].doc,
           ped'[p].lista = ped[p].lista, ped'[p].copia = ped[p].copia
    PROVE  Nuevos(p)' = Nuevos(p)
<1>1. Leidos(p)' = Leidos(p)
      BY DEF Leidos
<1>2. \A n : Informado(p, n)' <=> Informado(p, n)
      BY DEF Informado, ConArca
<1> DEFINE c == {ped[p].copia[pt].numero : pt \in Leidos(p)}
<1>3. c' = c
      BY <1>1
<1>4. {n \in Numeros \ c : Informado(p, n)}' = {n \in Numeros \ c : Informado(p, n)}
      BY <1>2, <1>3
<1>5. (DOMAIN ped[p].doc.filas \ c)' = DOMAIN ped[p].doc.filas \ c
      BY <1>3
<1> HIDE DEF c
<1>6. /\ Nuevos(p) = CASE ped[p].clase = "sincronizar" -> {n \in Numeros \ c : Informado(p, n)}
                       [] ped[p].clase = "importar" -> DOMAIN ped[p].doc.filas \ c
                       [] OTHER -> {}
      /\ Nuevos(p)' = CASE ped'[p].clase = "sincronizar" -> {n \in Numeros \ c : Informado(p, n)}'
                       [] ped'[p].clase = "importar" -> (DOMAIN ped[p].doc.filas \ c)'
                       [] OTHER -> {}
      BY DEF Nuevos, c
<1> QED BY <1>4, <1>5, <1>6

\* The numbers of a batch are those of its document or of ARCA's list.
LEMMA NuevosTipo ==
    ASSUME InductivoPuntos, NEW p \in Pedidos, ped[p].fase = "altas"
    PROVE  Nuevos(p) \subseteq Numeros /\ Tocados(p) \subseteq Puntos
<1>1. ped[p].clase \in {"sincronizar", "importar"} /\ Pedido(p)
      BY DEF InductivoPuntos, Curso, Pedido, FasesDeLote
<1>2. CASE ped[p].clase = "sincronizar"
      BY <1>2 DEF Nuevos, Tocados, Leidos
<1>3. CASE ped[p].clase = "importar"
  <2>1. DOMAIN ped[p].doc.filas \subseteq Numeros
        BY <1>1, <1>3, ConstantesValidas DEF Pedido, EsConstancia
  <2> QED BY <1>3, <2>1 DEF Nuevos, Tocados, Leidos, Ausentes
<1> QED BY <1>1, <1>2, <1>3

LEMMA InsertarAltasConserva ==
    ASSUME InductivoPuntos, NEW p \in Pedidos, InsertarAltas(p)
    PROVE  InductivoPuntos'
<1> USE DEF InductivoPuntos
<1>1. CASE Nuevos(p) \cap NumerosActuales # {} \/ (ped[p].confirma /\ ~Fresca(ped[p].doc))
      BY <1>1, RechazoConserva DEF InsertarAltas, Entorno
<1>2. CASE ~(Nuevos(p) \cap NumerosActuales # {} \/ (ped[p].confirma /\ ~Fresca(ped[p].doc)))
  <2> DEFINE a == Nuevos(p)
             t == Tocados(p)
             x == [ped[p] EXCEPT !.fase = "espera", !.alta = a, !.faltan = t]
  <2>1. /\ ped[p] \in EstadosPedido /\ ped[p].fase = "altas" /\ Pedido(p)
        /\ CopiaFiel(p) /\ AltaPropia(p)
        BY DEF InsertarAltas, Formas, Curso
  <2>2. a \subseteq Numeros /\ t \subseteq Puntos
        BY <2>1, NuevosTipo
  <2>3. ped' = [ped EXCEPT ![p] = x]
        BY <1>2, <2>1 DEF InsertarAltas, Formas, EstadosPedido
  <2>4. UNCHANGED <<Fila, Entorno, candado, frontera>>
        BY <1>2 DEF InsertarAltas
  <2>5. a \cap NumerosActuales = {} /\ \A q \in Pedidos \ {p} : ped[q].alta \cap a = {}
        BY <1>2 DEF InsertarAltas
  <2> HIDE DEF a, t
  <2>6. /\ x \in EstadosPedido /\ x.fase = "espera" /\ x.clase = ped[p].clase
        /\ x.alta = a /\ x.confirma = ped[p].confirma /\ x.cuit = ped[p].cuit
        /\ x.doc = ped[p].doc /\ x.copia = ped[p].copia /\ x.lista = ped[p].lista
        BY <2>1, <2>2, ZenonT(30) DEF EstadosPedido, FasesDeLote
  <2> HIDE DEF x
  <2>7. ped'[p] = x /\ \A q \in Pedidos \ {p} : ped'[q] = ped[q]
        BY <2>3 DEF Formas
  <2>8. Nuevos(p)' = a
        BY <2>6, <2>7, MismosNuevos DEF a
  <2>9. ped[p].clase # "editar"
        BY <2>1 DEF Pedido
  <2>10. Pedido(p)'
        BY <2>1, <2>6, <2>7, <2>8, <2>9 DEF Pedido, FasesDeLote, FasesDeEmision, ConCopia
  <2>11. CopiaFiel(p)'
        BY <2>1, <2>4, <2>6, <2>7 DEF CopiaFiel, Fila, ConCopia
  <2>12. AltaPropia(p)'
        BY <2>4, <2>5, <2>6, <2>7 DEF AltaPropia, NumerosActuales, Existentes, Existe, Fila
  <2>13. \A q \in Pedidos : GuardaPropia(q)'
        BY <2>4, <2>6, <2>7 DEF Curso, GuardaPropia, GuardaActiva, Fila
  <2>14. (EnFrontera(p)' <=> EnFrontera(p)) /\ (EnFrontera(p) <=> frontera = p)
        BY <2>1, <2>6, <2>7, ConstantesValidas DEF EnFrontera, Curso, FronteraViva
  <2>15. frontera = p => x.cuit = empresa.cuit /\ Administrador[p] \in empresa.admins
        BY <2>6, ConstantesValidas DEF Curso, FronteraViva
  <2>16. /\ UNCHANGED <<punto, empresa>> /\ frontera' = frontera
         /\ \A pt \in Puntos : candado'[pt] \in {candado[pt], p, Nadie}
        BY <2>4 DEF Fila, Entorno
  <2>17. /\ frontera' = p => x.cuit = empresa.cuit /\ Administrador[p] \in empresa.admins
         /\ EnFrontera(p)' <=> frontera' = p
        BY <2>14, <2>15, <2>16
  <2>18. Curso' /\ ped' \in [Pedidos -> EstadosPedido]
        BY <2>3, <2>6, <2>10, <2>11, <2>12, <2>13, <2>16, <2>17, AvanzaCurso
  <2>19. Registro'
        BY <2>4, RegistroQuieto DEF Fila, Entorno
  <2> QED BY <2>4, <2>18, <2>19 DEF Formas, Fila, Entorno
<1> QED BY <1>1, <1>2

LEMMA TomarCandadoConserva ==
    ASSUME InductivoPuntos, NEW p \in Pedidos, TomarCandado(p)
    PROVE  InductivoPuntos'
<1> USE DEF InductivoPuntos
<1> DEFINE f == ped[p].faltan \ {Min(ped[p].faltan)}
           x == [ped[p] EXCEPT !.faltan = f]
<1>1. /\ ped[p] \in EstadosPedido /\ ped[p].fase \in {"espera", "capturar", "reservar"}
      /\ Pedido(p) /\ CopiaFiel(p)
      BY DEF TomarCandado, Formas, Curso
<1>2. ped' = [ped EXCEPT ![p] = x]
      BY DEF TomarCandado
<1>3. f \subseteq Puntos
      BY <1>1 DEF EstadosPedido
<1>4. UNCHANGED <<Fila, Entorno, frontera>>
      BY DEF TomarCandado
<1>5. /\ candado' \in [Puntos -> Pedidos \cup {Nadie}]
      /\ \A pt \in Puntos : candado'[pt] \in {candado[pt], p, Nadie}
      BY DEF TomarCandado, Formas
<1> HIDE DEF f
<1>6. /\ x \in EstadosPedido /\ x.fase = ped[p].fase /\ x.clase = ped[p].clase
      /\ x.alta = ped[p].alta /\ x.confirma = ped[p].confirma /\ x.cuit = ped[p].cuit
      /\ x.doc = ped[p].doc /\ x.copia = ped[p].copia /\ x.lista = ped[p].lista
      /\ x.pt = ped[p].pt /\ x.edicion = ped[p].edicion
      BY <1>1, <1>3 DEF EstadosPedido
<1> HIDE DEF x
<1>7. ped'[p] = x
      BY <1>2 DEF Formas
<1>8. Nuevos(p)' = Nuevos(p)
      BY <1>6, <1>7, MismosNuevos
<1>9. Pedido(p)' /\ CopiaFiel(p)'
      BY <1>1, <1>4, <1>6, <1>7, <1>8 DEF Pedido, CopiaFiel, Fila
<1>10. /\ x.confirma /\ x.fase \in {"altas", "espera"} <=> EnFrontera(p)
       /\ x.fase # "libre" /\ ~(x.fase \in {"reservado", "enviado"})
      BY <1>1, <1>6 DEF EnFrontera
<1> QED BY <1>2, <1>4, <1>5, <1>6, <1>9, <1>10, AvanzaConserva

-----------------------------------------------------------------------------
(* Emissions and their guards *)

LEMMA ContextoTipo ==
    ASSUME Formas, NEW pt \in Puntos
    PROVE  Contexto(pt) \in Contextos
<1>1. punto[pt].rev \in Nat
      BY DEF Formas, Filas
<1>2. Len(libro[pt]) \in Nat
      BY LenProperties DEF Formas
<1> QED BY <1>1, <1>2 DEF Contexto, Contextos

LEMMA CapturarConserva ==
    ASSUME InductivoPuntos, NEW p \in Pedidos, Capturar(p)
    PROVE  InductivoPuntos'
<1> USE DEF InductivoPuntos
<1> DEFINE pt == ped[p].pt
<1>1. CASE ~Emitible(pt)
      BY <1>1, RechazoConserva DEF Capturar, Entorno
<1>2. CASE Emitible(pt)
  <2> DEFINE c == Contexto(pt)
             x == [ped[p] EXCEPT !.fase = "reservar", !.faltan = {pt}, !.ctx = c]
  <2>1. ped[p] \in EstadosPedido /\ ped[p].fase = "capturar" /\ Pedido(p) /\ pt \in Puntos
        BY DEF Capturar, Formas, Curso, Pedido, FasesDeEmision
  <2>2. c \in Contextos
        BY <2>1, ContextoTipo
  <2>3. ped' = [ped EXCEPT ![p] = x]
        BY <1>2, <2>1 DEF Capturar, Formas, EstadosPedido
  <2>4. UNCHANGED <<Fila, Entorno, frontera>> /\ candado' = [candado EXCEPT ![pt] = Nadie]
        BY <1>2 DEF Capturar, SoltarCandado
  <2> HIDE DEF c
  <2>5. /\ x \in EstadosPedido /\ x.fase = "reservar" /\ x.clase = ped[p].clase
        /\ x.alta = ped[p].alta /\ x.confirma = ped[p].confirma /\ x.cuit = ped[p].cuit
        /\ x.pt = pt
        BY <2>1, <2>2 DEF EstadosPedido, FasesDeEmision
  <2> HIDE DEF x
  <2>6. ped'[p] = x
        BY <2>3 DEF Formas
  <2>7. ped[p].alta = {} /\ ~ped[p].confirma /\ ped[p].clase = "emitir"
        BY <2>1 DEF Pedido, FasesDeEmision
  <2>8. Pedido(p)' /\ CopiaFiel(p)'
        BY <2>1, <2>5, <2>6, <2>7 DEF Pedido, CopiaFiel, FasesDeLote, FasesDeEmision, ConCopia
  <2>9. /\ candado' \in [Puntos -> Pedidos \cup {Nadie}]
        /\ \A qt \in Puntos : candado'[qt] \in {candado[qt], p, Nadie}
        BY <2>4 DEF Formas
  <2>10. ~EnFrontera(p)
        BY <2>7 DEF EnFrontera
  <2> QED BY <2>3, <2>4, <2>5, <2>7, <2>8, <2>9, <2>10, AvanzaConserva
<1> QED BY <1>1, <1>2

\* A request of the emission that keeps its guard, or takes a free one.
LEMMA GuardaConserva ==
    ASSUME InductivoPuntos, NEW p \in Pedidos, NEW f \in {"reservado", "enviado"},
           NEW g \in Guardas, NEW pt \in Puntos, pt = ped[p].pt,
           ped[p].fase \in {"reservar", "reservado"},
           ped' = [ped EXCEPT ![p].fase = f],
           guarda' = [guarda EXCEPT ![pt] = g],
           g.fase \in Activas, g.quien = p, g.ctx = Contexto(pt), Existe(pt),
           ~GuardaActiva(pt) \/ guarda[pt].quien = p,
           candado' \in [Puntos -> Pedidos \cup {Nadie}],
           \A qt \in Puntos : candado'[qt] \in {candado[qt], p, Nadie},
           UNCHANGED <<punto, libro, dictamen, Entorno, frontera>>
    PROVE  InductivoPuntos'
<1> USE DEF InductivoPuntos, Entorno
<1> DEFINE x == [ped[p] EXCEPT !.fase = f]
<1>1. ped[p] \in EstadosPedido /\ Pedido(p)
      BY DEF Formas, Curso
<1>2. ped' = [ped EXCEPT ![p] = x]
      OBVIOUS
<1>3. /\ x \in EstadosPedido /\ x.fase = f /\ x.clase = ped[p].clase /\ x.pt = pt
      /\ x.alta = ped[p].alta /\ x.confirma = ped[p].confirma
      BY <1>1 DEF EstadosPedido, FasesDeEmision
<1> HIDE DEF x
<1>4. ped'[p] = x /\ \A q \in Pedidos \ {p} : ped'[q] = ped[q]
      BY <1>2 DEF Formas
<1>5. ped[p].alta = {} /\ ~ped[p].confirma /\ ped[p].clase = "emitir"
      BY <1>1 DEF Pedido, FasesDeEmision
<1>6. Pedido(p)' /\ CopiaFiel(p)' /\ AltaPropia(p)' /\ ~EnFrontera(p)'
      BY <1>3, <1>4, <1>5 DEF Pedido, CopiaFiel, AltaPropia, EnFrontera, FasesDeLote, FasesDeEmision,
                              ConCopia
<1>7. guarda'[pt] = g /\ \A qt \in Puntos \ {pt} : guarda'[qt] = guarda[qt]
      BY DEF Formas
<1>8. ASSUME NEW q \in Pedidos PROVE GuardaPropia(q)'
  <2>1. CASE q = p
        BY <2>1, <1>3, <1>4, <1>7 DEF GuardaPropia, GuardaActiva
  <2>2. CASE q # p
    <3>1. SUFFICES ASSUME ped[q].fase \in {"reservado", "enviado"}
                   PROVE  guarda'[ped[q].pt] = guarda[ped[q].pt]
          BY <2>2, <1>4 DEF Curso, GuardaPropia, GuardaActiva
    <3>2. GuardaActiva(ped[q].pt) /\ guarda[ped[q].pt].quien = q /\ ped[q].pt \in Puntos
          BY <3>1 DEF Curso, GuardaPropia, Pedido, FasesDeEmision
    <3> QED BY <3>2, <2>2, <1>7
  <2> QED BY <2>1, <2>2
<1>9. frontera # p
      BY <1>5, ConstantesValidas DEF Curso, FronteraViva, EnFrontera
<1>10. x.fase # "libre"
      BY <1>3
<1>11. Curso' /\ ped' \in [Pedidos -> EstadosPedido]
      BY <1>2, <1>3, <1>6, <1>8, <1>9, <1>10, AvanzaCurso
<1>12. \A qt \in Puntos : GuardaActiva(qt)' =>
          \/ GuardaActiva(qt) /\ guarda'[qt].ctx = guarda[qt].ctx
          \/ Existe(qt) /\ guarda'[qt].ctx = Contexto(qt)
      BY <1>7 DEF GuardaActiva
<1>13. Registro'
      BY <1>12, RegistroGuarda
<1> QED BY <1>11, <1>13 DEF Formas

\* A request that ends may close its guard, or leave it behind.
LEMMA CierreConserva ==
    ASSUME InductivoPuntos, NEW p \in Pedidos, Soltar(p),
           UNCHANGED <<punto, libro, dictamen, Entorno>>,
           guarda' \in [Puntos -> Guardas],
           \A pt \in Puntos :
               \/ guarda'[pt] = guarda[pt]
               \/ /\ guarda[pt].quien = p
                  /\ guarda'[pt].fase \in Activas =>
                        guarda[pt].fase \in Activas /\ guarda'[pt].ctx = guarda[pt].ctx
    PROVE  InductivoPuntos'
<1> USE DEF InductivoPuntos, Entorno
<1>1. \A q \in Pedidos \ {p} :
          CopiaFiel(q)' /\ GuardaPropia(q)' /\ ped[q].alta \cap NumerosActuales' = {}
  <2>1. SUFFICES ASSUME NEW q \in Pedidos \ {p}
                 PROVE CopiaFiel(q)' /\ GuardaPropia(q)' /\ ped[q].alta \cap NumerosActuales' = {}
        OBVIOUS
  <2>2. ped'[q] = ped[q]
        BY DEF Soltar, Formas
  <2>3. CopiaFiel(q) /\ GuardaPropia(q) /\ AltaPropia(q) /\ Pedido(q)
        BY DEF Curso
  <2>4. GuardaPropia(q)'
    <3>1. SUFFICES ASSUME ped[q].fase \in {"reservado", "enviado"}
                   PROVE  guarda'[ped[q].pt] = guarda[ped[q].pt]
          BY <2>2, <2>3 DEF GuardaPropia, GuardaActiva
    <3> QED BY <3>1, <2>3 DEF GuardaPropia, Pedido, FasesDeEmision
  <2> QED BY <2>2, <2>3, <2>4, CopiaQuieta DEF AltaPropia, NumerosActuales, Existentes, Existe
<1>2. /\ Curso'
      /\ ped' \in [Pedidos -> EstadosPedido]
      /\ candado' \in [Puntos -> Pedidos \cup {Nadie}]
      /\ frontera' \in Pedidos \cup {Nadie}
      BY <1>1, SueltaCurso
<1>3. \A pt \in Puntos : GuardaActiva(pt)' => GuardaActiva(pt) /\ guarda'[pt].ctx = guarda[pt].ctx
      BY DEF GuardaActiva
<1>4. Registro'
      BY <1>3, RegistroGuarda
<1> QED BY <1>2, <1>4 DEF Formas

LEMMA ReservarConserva ==
    ASSUME InductivoPuntos, NEW p \in Pedidos, Reservar(p)
    PROVE  InductivoPuntos'
<1> USE DEF InductivoPuntos
<1> DEFINE pt == ped[p].pt
           g == [fase |-> "pre_arca", ctx |-> ped[p].ctx, quien |-> p]
<1>1. CASE ~(ContextoIntacto(p) /\ ~GuardaActiva(pt))
      BY <1>1, RechazoConserva DEF Reservar, Entorno
<1>2. CASE ContextoIntacto(p) /\ ~GuardaActiva(pt)
  <2>1. ped[p].fase = "reservar" /\ Pedido(p) /\ pt \in Puntos
        BY DEF Reservar, Formas, Curso, Pedido, FasesDeEmision
  <2>2. Existe(pt) /\ ped[p].ctx = Contexto(pt)
        BY <1>2 DEF ContextoIntacto, Emitible
  <2>3. g \in Guardas /\ g.fase = "pre_arca" /\ g.quien = p /\ g.ctx = Contexto(pt)
        BY <2>1, <2>2, ContextoTipo DEF Guardas, Activas
  <2>4. /\ ped' = [ped EXCEPT ![p].fase = "reservado"]
        /\ guarda' = [guarda EXCEPT ![pt] = g]
        /\ candado' = [candado EXCEPT ![pt] = Nadie]
        /\ UNCHANGED <<punto, libro, dictamen, Entorno, frontera>>
        BY <1>2 DEF Reservar, SoltarCandado
  <2> HIDE DEF g
  <2>5. /\ candado' \in [Puntos -> Pedidos \cup {Nadie}]
        /\ \A qt \in Puntos : candado'[qt] \in {candado[qt], p, Nadie}
        BY <2>4 DEF Formas
  <2> QED BY <1>2, <2>1, <2>2, <2>3, <2>4, <2>5, GuardaConserva DEF Activas
<1> QED BY <1>1, <1>2

LEMMA SinGuardaTipo == SinGuarda \in Guardas /\ SinGuarda.fase \notin Activas
BY DEF SinGuarda, Guardas, Activas

\* The guard of a request that has reserved names its point as it is.
LEMMA GuardaEnVuelo ==
    ASSUME InductivoPuntos, NEW p \in Pedidos, ped[p].fase \in {"reservado", "enviado"}
    PROVE  /\ ped[p].pt \in Puntos
           /\ guarda[ped[p].pt] \in Guardas /\ guarda[ped[p].pt].quien = p
           /\ GuardaActiva(ped[p].pt)
           /\ Existe(ped[p].pt) /\ guarda[ped[p].pt].ctx = Contexto(ped[p].pt)
<1>1. ped[p].pt \in Puntos
      BY DEF InductivoPuntos, Curso, Pedido, FasesDeEmision
<1>2. GuardaActiva(ped[p].pt) /\ guarda[ped[p].pt].quien = p
      BY DEF InductivoPuntos, Curso, GuardaPropia
<1> QED BY <1>1, <1>2 DEF InductivoPuntos, Formas, Registro, GuardasConPunto, GuardaAlDia

LEMMA MarcarArcaIniciadaConserva ==
    ASSUME InductivoPuntos, NEW p \in Pedidos, MarcarArcaIniciada(p)
    PROVE  InductivoPuntos'
<1> DEFINE pt == ped[p].pt
           g == [guarda[pt] EXCEPT !.fase = "arca_iniciada"]
<1>1. ped[p].fase = "reservado" /\ UNCHANGED <<punto, libro, dictamen, Entorno>>
      BY DEF MarcarArcaIniciada
<1>2. /\ pt \in Puntos /\ guarda[pt] \in Guardas /\ guarda[pt].quien = p
      /\ Existe(pt) /\ guarda[pt].ctx = Contexto(pt) /\ GuardaActiva(pt)
      BY <1>1, GuardaEnVuelo
<1>3. CASE ContextoIntacto(p)
  <2>1. g \in Guardas /\ g.fase = "arca_iniciada" /\ g.quien = p /\ g.ctx = Contexto(pt)
        BY <1>2 DEF Guardas, Activas
  <2>2. /\ ped' = [ped EXCEPT ![p].fase = "enviado"] /\ guarda' = [guarda EXCEPT ![pt] = g]
        /\ UNCHANGED <<candado, frontera>>
        BY <1>3 DEF MarcarArcaIniciada
  <2> HIDE DEF g
  <2>3. /\ candado' \in [Puntos -> Pedidos \cup {Nadie}]
        /\ \A qt \in Puntos : candado'[qt] \in {candado[qt], p, Nadie}
        BY <2>2 DEF InductivoPuntos, Formas
  <2> QED BY <1>1, <1>2, <2>1, <2>2, <2>3, GuardaConserva DEF Activas
<1>4. CASE ~ContextoIntacto(p)
  <2>1. guarda' = [guarda EXCEPT ![pt] = SinGuarda] /\ Soltar(p)
        BY <1>4 DEF MarcarArcaIniciada
  <2>2. /\ guarda' \in [Puntos -> Guardas] /\ guarda'[pt] = SinGuarda
        /\ \A qt \in Puntos \ {pt} : guarda'[qt] = guarda[qt]
        BY <1>2, <2>1, SinGuardaTipo DEF InductivoPuntos, Formas
  <2> QED BY <1>1, <1>2, <2>1, <2>2, SinGuardaTipo, CierreConserva
<1> QED BY <1>3, <1>4

LEMMA TerminarConserva ==
    ASSUME InductivoPuntos, NEW p \in Pedidos, Terminar(p)
    PROVE  InductivoPuntos'
<1> DEFINE pt == ped[p].pt
           g == [guarda[pt] EXCEPT !.fase = "requiere_reconciliacion", !.quien = Nadie]
<1>1. ped[p].fase = "enviado" /\ UNCHANGED <<punto, libro, dictamen, Entorno>> /\ Soltar(p)
      BY DEF Terminar
<1>2. pt \in Puntos /\ guarda[pt] \in Guardas /\ guarda[pt].quien = p /\ GuardaActiva(pt)
      BY <1>1, GuardaEnVuelo
<1>3. g \in Guardas /\ g.ctx = guarda[pt].ctx
      BY <1>2 DEF Guardas, Activas
<1>4. CASE guarda' = [guarda EXCEPT ![pt] = SinGuarda]
  <2>1. /\ guarda' \in [Puntos -> Guardas] /\ guarda'[pt] = SinGuarda
        /\ \A qt \in Puntos \ {pt} : guarda'[qt] = guarda[qt]
        BY <1>2, <1>4, SinGuardaTipo DEF InductivoPuntos, Formas
  <2> QED BY <1>1, <1>2, <2>1, SinGuardaTipo, CierreConserva
<1>5. CASE guarda' = [guarda EXCEPT ![pt].fase = "requiere_reconciliacion", ![pt].quien = Nadie]
  <2>1. guarda' = [guarda EXCEPT ![pt] = g]
        BY <1>2, <1>5 DEF InductivoPuntos, Formas, Guardas
  <2> HIDE DEF g
  <2>2. /\ guarda' \in [Puntos -> Guardas] /\ guarda'[pt] = g
        /\ \A qt \in Puntos \ {pt} : guarda'[qt] = guarda[qt]
        BY <1>2, <1>3, <2>1 DEF InductivoPuntos, Formas
  <2> QED BY <1>1, <1>2, <1>3, <2>2, CierreConserva DEF GuardaActiva
<1> QED BY <1>4, <1>5 DEF Terminar

LEMMA AbortarConserva ==
    ASSUME InductivoPuntos, NEW p \in Pedidos, Abortar(p)
    PROVE  InductivoPuntos'
<1>1. Soltar(p) /\ UNCHANGED <<punto, libro, dictamen, Entorno>>
      BY DEF Abortar
<1>2. ASSUME NEW pt \in Puntos
      PROVE  /\ guarda'[pt] \in Guardas
             /\ \/ guarda'[pt] = guarda[pt]
                \/ /\ guarda[pt].quien = p
                   /\ guarda'[pt].fase = guarda[pt].fase /\ guarda'[pt].ctx = guarda[pt].ctx
  <2>1. /\ guarda[pt] \in Guardas
        /\ guarda'[pt] = IF guarda[pt].quien = p THEN [guarda[pt] EXCEPT !.quien = Nadie]
                                                 ELSE guarda[pt]
        BY DEF Abortar, InductivoPuntos, Formas
  <2>2. CASE guarda[pt].quien = p
    <3>1. guarda'[pt] = [guarda[pt] EXCEPT !.quien = Nadie]
          BY <2>1, <2>2
    <3> QED BY <2>1, <2>2, <3>1 DEF Guardas
  <2>3. CASE guarda[pt].quien # p  BY <2>1, <2>3
  <2> QED BY <2>2, <2>3
<1>3. guarda' \in [Puntos -> Guardas]
      BY <1>2 DEF Abortar
<1> QED BY <1>1, <1>2, <1>3, CierreConserva

LEMMA ConflictoConserva ==
    ASSUME InductivoPuntos, NEW p \in Pedidos, Conflicto(p)
    PROVE  InductivoPuntos'
BY RechazoConserva DEF Conflicto, Entorno

\* Only guards nobody owns are closed from outside.
LEMMA CerrarGuardaConserva ==
    ASSUME InductivoPuntos, NEW pt \in Puntos, CerrarGuarda(pt)
    PROVE  InductivoPuntos'
<1> USE DEF InductivoPuntos
<1>1. UNCHANGED <<punto, libro, dictamen, Entorno, ped, candado, frontera>>
      BY DEF CerrarGuarda
<1>2. /\ guarda' \in [Puntos -> Guardas] /\ guarda'[pt] = SinGuarda
      /\ \A qt \in Puntos \ {pt} : guarda'[qt] = guarda[qt]
      BY SinGuardaTipo DEF CerrarGuarda, Formas
<1>3. \A qt \in Puntos : GuardaActiva(qt)' => GuardaActiva(qt) /\ guarda'[qt].ctx = guarda[qt].ctx
      BY <1>2, SinGuardaTipo DEF GuardaActiva
<1>4. Registro'
      BY <1>1, <1>3, RegistroGuarda DEF Entorno
<1>5. ASSUME NEW q \in Pedidos PROVE CopiaFiel(q)' /\ AltaPropia(q)' /\ GuardaPropia(q)'
  <2>1. CopiaFiel(q) /\ AltaPropia(q) /\ GuardaPropia(q) /\ Pedido(q)
        BY DEF Curso
  <2>2. CopiaFiel(q)' /\ AltaPropia(q)'
        BY <1>1, <2>1 DEF CopiaFiel, AltaPropia, NumerosActuales, Existentes, Existe
  <2>3. GuardaPropia(q)'
    <3>1. SUFFICES ASSUME ped[q].fase \in {"reservado", "enviado"}
                   PROVE  guarda'[ped[q].pt] = guarda[ped[q].pt]
          BY <1>1, <2>1 DEF GuardaPropia, GuardaActiva
    <3>2. ped[q].pt \in Puntos /\ guarda[ped[q].pt].quien = q
          BY <3>1, <2>1 DEF GuardaPropia, Pedido, FasesDeEmision
    <3> QED BY <3>2, <1>2, ConstantesValidas DEF CerrarGuarda
  <2> QED BY <2>2, <2>3
<1>6. Curso'
      BY <1>1, <1>5, QuietoCurso DEF Entorno
<1> QED BY <1>1, <1>2, <1>4, <1>6 DEF Formas, Entorno

-----------------------------------------------------------------------------
(* What moves around them *)

\* Nothing the requests carry depends on the issuer, the day or ARCA.
LEMMA EntornoCurso ==
    ASSUME InductivoPuntos, UNCHANGED <<Fila, ped, candado, frontera>>,
           frontera # Nadie =>
               empresa'.cuit = empresa.cuit
               /\ (Administrador[frontera] \in empresa.admins => Administrador[frontera] \in empresa'.admins)
    PROVE  Curso'
<1>1. ASSUME NEW q \in Pedidos PROVE CopiaFiel(q)' /\ AltaPropia(q)' /\ GuardaPropia(q)'
  <2>1. CopiaFiel(q) /\ AltaPropia(q) /\ GuardaPropia(q)
        BY DEF InductivoPuntos, Curso
  <2> QED BY <2>1 DEF CopiaFiel, AltaPropia, NumerosActuales, Existentes, Existe, GuardaPropia,
                      GuardaActiva, Fila
<1> QED BY <1>1, QuietoCurso

\* The CUIT only changes while the issuer has no points and nobody attests.
LEMMA CambiarCuitConserva ==
    ASSUME InductivoPuntos, CambiarCuit
    PROVE  InductivoPuntos'
<1> USE DEF InductivoPuntos
<1>1. PICK c \in Cuits : empresa' = [empresa EXCEPT !.cuit = c]
      BY DEF CambiarCuit
<1>2. /\ empresa' \in [cuit : Cuits, admins : SUBSET {Administrador[p] : p \in Pedidos},
                       certificado : BOOLEAN]
      /\ empresa'.admins = empresa.admins
      BY <1>1 DEF Formas
<1>3. UNCHANGED <<Fila, hoy, arca, ped, candado, frontera>> /\ frontera = Nadie /\ Existentes = {}
      BY DEF CambiarCuit
<1>4. Curso'
      BY <1>3, EntornoCurso
<1>5. /\ Existentes' = Existentes
      /\ \A pt \in Puntos : (Existe(pt)' <=> Existe(pt)) /\ Contexto(pt)' = Contexto(pt)
      BY <1>3 DEF Existentes, Existe, Contexto, Fila
<1>6. IdsEnOrden' /\ NumerosUnicos' /\ RevisionesAcotadas' /\ NacenJuntos'
      BY <1>3, <1>5 DEF Registro, IdsEnOrden, NumerosUnicos, RevisionesAcotadas, NacenJuntos, Fila
<1>7. GuardasConPunto' /\ GuardaAlDia'
      BY <1>3, <1>5 DEF Registro, GuardasConPunto, GuardaAlDia, GuardaActiva, Fila
<1>8. HistoriaFiel' /\ EvidenciaFiel'
      BY <1>3, <1>5 DEF HistoriaFiel, EvidenciaFiel
<1>9. DocumentosEnOrden'
      BY <1>3 DEF Registro, DocumentosEnOrden, Fila
<1> QED BY <1>2, <1>3, <1>4, <1>6, <1>7, <1>8, <1>9 DEF Formas, Fila, Registro

LEMMA DegradarConserva ==
    ASSUME InductivoPuntos, Degradar
    PROVE  InductivoPuntos'
<1> USE DEF InductivoPuntos
<1>1. PICK a \in empresa.admins :
          /\ empresa.admins # {a}
          /\ frontera # Nadie => Administrador[frontera] # a
          /\ empresa' = [empresa EXCEPT !.admins = empresa.admins \ {a}]
      BY DEF Degradar
<1>2. /\ empresa' \in [cuit : Cuits, admins : SUBSET {Administrador[p] : p \in Pedidos},
                       certificado : BOOLEAN]
      /\ empresa'.cuit = empresa.cuit
      /\ empresa'.admins = empresa.admins \ {a}
      BY <1>1 DEF Formas
<1>3. empresa'.admins # {}
      BY <1>1, <1>2
<1>4. UNCHANGED <<Fila, hoy, arca, ped, candado, frontera>>
      BY DEF Degradar
<1>5. Curso'
      BY <1>1, <1>2, <1>4, EntornoCurso
<1>6. Registro'
      BY <1>2, <1>4, RegistroQuieto DEF Fila
<1> QED BY <1>2, <1>3, <1>4, <1>5, <1>6 DEF Formas, Fila

LEMMA PasarDiaConserva ==
    ASSUME InductivoPuntos, PasarDia
    PROVE  InductivoPuntos'
<1> USE DEF InductivoPuntos
<1>1. UNCHANGED <<Fila, empresa, arca, ped, candado, frontera>>
      BY DEF PasarDia
<1>2. hoy' \in 1..MaxDia /\ hoy' \in Nat
      BY ConstantesValidas DEF PasarDia
<1>3. Curso'
      BY <1>1, EntornoCurso
<1>4. Registro'
      BY <1>1, RegistroQuieto DEF Fila
<1> QED BY <1>1, <1>2, <1>3, <1>4 DEF Formas, Fila

LEMMA ArcaCambiaConserva ==
    ASSUME InductivoPuntos, ArcaCambia
    PROVE  InductivoPuntos'
<1> USE DEF InductivoPuntos
<1>1. UNCHANGED <<Fila, empresa, hoy, ped, candado, frontera>> /\ arca' \in EstadosArca
      BY DEF ArcaCambia
<1>2. Curso'
      BY <1>1, EntornoCurso
<1>3. Registro'
      BY <1>1, RegistroQuieto DEF Fila
<1> QED BY <1>1, <1>2, <1>3 DEF Formas, Fila

-----------------------------------------------------------------------------
(* Writing rows and their ledger *)

\* What a written row and its ledger have to say.
Asentado(pt) ==
    /\ punto[pt].rev \in 1..MaxRevision /\ libro[pt] # <<>>
    /\ Cabeza(pt).rev <= punto[pt].rev
    /\ dictamen[pt] = "tocado" => Cabeza(pt).estado = "no_verificado"
    /\ dictamen[pt] = "bloqueado" =>
          Cabeza(pt).estado = "no_verificado" \/ Cabeza(pt).rev < punto[pt].rev
    /\ Cabeza(pt).estado = "verificado_rece" =>
          /\ Cabeza(pt).cuit = empresa.cuit
          /\ Cabeza(pt).numero = punto[pt].numero
          /\ punto[pt].sistema = "rece"
    /\ \A i, j \in DOMAIN libro[pt] :
          i < j /\ libro[pt][j].dia # NoDia => libro[pt][i].dia <= libro[pt][j].dia

LEMMA RegistroEscribe ==
    ASSUME InductivoPuntos, NEW W \in SUBSET Puntos, empresa' = empresa, guarda' = guarda,
           \A pt \in Puntos \ W :
               punto'[pt] = punto[pt] /\ libro'[pt] = libro[pt] /\ dictamen'[pt] = dictamen[pt],
           \A pt \in W : ~GuardaActiva(pt) /\ Asentado(pt)',
           IdsEnOrden', NumerosUnicos'
    PROVE  Registro'
<1> USE DEF InductivoPuntos
<1>1. ASSUME NEW pt \in Puntos \ W
      PROVE  /\ Existe(pt)' <=> Existe(pt)
             /\ Contexto(pt)' = Contexto(pt)
             /\ Cabeza(pt)' = Cabeza(pt)
      BY <1>1 DEF Existe, Contexto, Cabeza
<1>2. \A pt \in W : Existe(pt)' /\ libro'[pt] # <<>> /\ punto'[pt].rev <= MaxRevision
      BY ConstantesValidas DEF Asentado, Existe
<1>3. RevisionesAcotadas' /\ NacenJuntos'
      BY <1>1, <1>2 DEF Registro, RevisionesAcotadas, NacenJuntos
<1>4. GuardasConPunto' /\ GuardaAlDia'
      BY <1>1 DEF Registro, GuardasConPunto, GuardaAlDia, GuardaActiva
<1>5. HistoriaFiel'
  <2>1. SUFFICES ASSUME NEW pt \in Puntos, Existe(pt)'
                 PROVE  /\ Cabeza(pt)'.rev <= punto'[pt].rev
                        /\ dictamen'[pt] = "tocado" => Cabeza(pt)'.estado = "no_verificado"
                        /\ dictamen'[pt] = "bloqueado" =>
                              \/ Cabeza(pt)'.estado = "no_verificado"
                              \/ Cabeza(pt)'.rev < punto'[pt].rev
        BY DEF HistoriaFiel, Existentes
  <2>2. CASE pt \in W  BY <2>2 DEF Asentado
  <2>3. CASE pt \notin W
        BY <2>1, <2>3, <1>1 DEF Registro, HistoriaFiel, Existentes
  <2> QED BY <2>2, <2>3
<1>6. EvidenciaFiel'
  <2>1. SUFFICES ASSUME NEW pt \in Puntos, Existe(pt)', Cabeza(pt)'.estado = "verificado_rece"
                 PROVE  /\ Cabeza(pt)'.cuit = empresa'.cuit
                        /\ Cabeza(pt)'.numero = punto'[pt].numero
                        /\ punto'[pt].sistema = "rece"
        BY DEF EvidenciaFiel, Existentes
  <2>2. CASE pt \in W  BY <2>1, <2>2 DEF Asentado
  <2>3. CASE pt \notin W
        BY <2>1, <2>3, <1>1 DEF Registro, EvidenciaFiel, Existentes
  <2> QED BY <2>2, <2>3
<1>7. DocumentosEnOrden'
  <2>1. SUFFICES ASSUME NEW pt \in Puntos
                 PROVE  \A i, j \in DOMAIN libro'[pt] :
                            i < j /\ libro'[pt][j].dia # NoDia => libro'[pt][i].dia <= libro'[pt][j].dia
        BY DEF DocumentosEnOrden
  <2>2. CASE pt \in W  BY <2>2 DEF Asentado
  <2>3. CASE pt \notin W  BY <2>3 DEF Registro, DocumentosEnOrden
  <2> QED BY <2>2, <2>3
<1> QED BY <1>3, <1>4, <1>5, <1>6, <1>7 DEF Registro

LEMMA NoVerificadaTipo ==
    ASSUME NEW n \in Nat
    PROVE  /\ NoVerificada(n) \in Revisiones
           /\ NoVerificada(n).estado = "no_verificado"
           /\ NoVerificada(n).rev = n /\ NoVerificada(n).dia = NoDia
BY DEF NoVerificada, Revision, Revisiones, EstadosRece, NoDia, NoCuit

\* The rows there are take the first ids.
LEMMA IdsTipo ==
    ASSUME InductivoPuntos
    PROVE  \E m \in Nat : /\ m = Cardinality(Existentes) /\ m <= Cardinality(Puntos)
                          /\ Existentes = 1..m /\ Cardinality(Puntos) \in Nat
<1>1. Cardinality(Puntos) \in Nat
      BY FS_CardinalityType, ConstantesValidas
<1>2. PICK m \in 0..Cardinality(Puntos) : Existentes = 1..m
      BY DEF InductivoPuntos, Registro, IdsEnOrden
<1>3. Cardinality(1..m) = m
      BY <1>1, <1>2, FS_Interval
<1> QED BY <1>1, <1>2, <1>3

LEMMA CrearPuntoConserva ==
    ASSUME InductivoPuntos, NEW p \in Pedidos, CrearPunto(p)
    PROVE  InductivoPuntos'
<1> USE DEF InductivoPuntos
<1>1. PICK n \in Numeros \ NumerosActuales, s \in Sistemas :
          /\ \A q \in Pedidos : n \notin ped[q].alta
          /\ LET pt == Min(IdsLibres) IN
              /\ punto' = [punto EXCEPT ![pt] = [SinFila EXCEPT
                              !.rev = 1, !.numero = n, !.activo = TRUE, !.sistema = s]]
              /\ libro' = [libro EXCEPT ![pt] = <<NoVerificada(1)>>]
      BY DEF CrearPunto
<1> DEFINE fila == [SinFila EXCEPT !.rev = 1, !.numero = n, !.activo = TRUE, !.sistema = s]
<1>2. PICK m \in Nat : /\ m <= Cardinality(Puntos) /\ Existentes = 1..m
                       /\ Cardinality(Puntos) \in Nat
      BY IdsTipo
<1>3. UNCHANGED <<guarda, dictamen, Entorno, ped, candado, frontera>> /\ IdsLibres # {}
      BY DEF CrearPunto
<1> DEFINE k == m + 1
<1>4. Puntos = 1..Cardinality(Puntos) /\ IdsLibres = k..Cardinality(Puntos)
      BY <1>2, ConstantesValidas DEF IdsLibres
<1>5. k \in IdsLibres /\ \A y \in IdsLibres : k <= y
      BY <1>2, <1>3, <1>4
<1>6. Min(IdsLibres) = k
  <2>1. Min(IdsLibres) \in IdsLibres /\ \A y \in IdsLibres : Min(IdsLibres) <= y
        BY <1>5 DEF Min
  <2> QED BY <2>1, <1>2, <1>4, <1>5
<1>7. k \in Puntos /\ k \notin Existentes
      BY <1>2, <1>5 DEF IdsLibres
<1>8. /\ fila \in Filas /\ fila.rev = 1 /\ fila.numero = n
      BY DEF SinFila, Filas
<1> HIDE DEF fila
<1>9. /\ punto' \in [Puntos -> Filas] /\ punto'[k] = fila
      /\ \A pt \in Puntos \ {k} : punto'[pt] = punto[pt]
      BY <1>1, <1>6, <1>7, <1>8 DEF Formas, fila
<1>10. /\ libro' \in [Puntos -> Seq(Revisiones)] /\ libro'[k] = <<NoVerificada(1)>>
       /\ \A pt \in Puntos \ {k} : libro'[pt] = libro[pt]
  <2>1. <<NoVerificada(1)>> \in Seq(Revisiones)
        BY NoVerificadaTipo
  <2>2. libro' = [libro EXCEPT ![k] = <<NoVerificada(1)>>]
        BY <1>1, <1>6
  <2> QED BY <2>1, <2>2, <1>7 DEF Formas
<1>11. Existentes' = Existentes \cup {k}
  <2>1. \A pt \in Puntos : Existe(pt)' <=> Existe(pt) \/ pt = k
        BY <1>8, <1>9 DEF Existe
  <2> QED BY <2>1, <1>7 DEF Existentes
<1>12. IdsEnOrden'
      BY <1>2, <1>4, <1>7, <1>11 DEF IdsEnOrden
<1>13. \A pt \in Existentes : pt \in Puntos /\ punto'[pt] = punto[pt] /\ punto[pt].numero # n
      BY <1>1, <1>7, <1>9 DEF Existentes, NumerosActuales
<1>14. NumerosUnicos'
  <2>1. SUFFICES ASSUME NEW pt \in Existentes', NEW qt \in Existentes',
                        punto'[pt].numero = punto'[qt].numero
                 PROVE  pt = qt
        BY DEF NumerosUnicos
  <2> QED BY <2>1, <1>8, <1>9, <1>11, <1>13 DEF Registro, NumerosUnicos
<1>15. Asentado(k)'
  <2>1. Len(libro'[k]) = 1 /\ libro'[k] # <<>> /\ DOMAIN libro'[k] = {1}
        BY <1>10
  <2>2. Cabeza(k)' = NoVerificada(1)
        BY <1>10, <2>1 DEF Cabeza
  <2> QED BY <1>8, <1>9, <2>1, <2>2, NoVerificadaTipo, ConstantesValidas DEF Asentado
<1>16. ~GuardaActiva(k)
      BY <1>7 DEF Registro, GuardasConPunto, Existentes
<1>17. Registro'
  <2>1. /\ {k} \in SUBSET Puntos /\ empresa' = empresa /\ guarda' = guarda
        /\ \A pt \in Puntos \ {k} :
              punto'[pt] = punto[pt] /\ libro'[pt] = libro[pt] /\ dictamen'[pt] = dictamen[pt]
        BY <1>3, <1>7, <1>9, <1>10 DEF Entorno
  <2> QED BY <2>1, <1>12, <1>14, <1>15, <1>16, RegistroEscribe
<1>18. ASSUME NEW q \in Pedidos PROVE CopiaFiel(q)' /\ AltaPropia(q)' /\ GuardaPropia(q)'
  <2>1. CopiaFiel(q) /\ AltaPropia(q) /\ GuardaPropia(q) /\ Pedido(q)
        BY DEF Curso
  <2>2. CopiaFiel(q)'
    <3>1. SUFFICES ASSUME ped[q].fase \in ConCopia, NEW pt \in Puntos
                   PROVE  /\ ped[q].copia[pt].rev <= punto'[pt].rev
                          /\ ped[q].copia[pt].rev = punto'[pt].rev => ped[q].copia[pt] = punto'[pt]
          BY <1>3 DEF CopiaFiel
    <3>2. CASE pt # k  BY <3>1, <3>2, <2>1, <1>9 DEF CopiaFiel
    <3>3. CASE pt = k
      <4>1. ped[q].copia \in [Puntos -> Filas] /\ ped[q].copia[k].rev <= punto[k].rev
            BY <3>1, <2>1, <1>7 DEF CopiaFiel, Pedido
      <4>2. punto[k].rev = 0
            BY <1>7 DEF Existentes, Existe, Formas, Filas
      <4>3. ped[q].copia[k].rev = 0
            BY <4>1, <4>2, <1>7 DEF Filas
      <4> QED BY <4>3, <3>3, <1>8, <1>9
    <3> QED BY <3>2, <3>3
  <2>3. AltaPropia(q)'
    <3>1. NumerosActuales' \subseteq NumerosActuales \cup {n}
          BY <1>8, <1>9, <1>11, <1>13 DEF NumerosActuales
    <3> QED BY <3>1, <2>1, <1>1, <1>3 DEF AltaPropia
  <2>4. GuardaPropia(q)'
        BY <2>1, <1>3 DEF GuardaPropia, GuardaActiva
  <2> QED BY <2>2, <2>3, <2>4
<1>19. Curso'
      BY <1>3, <1>18, QuietoCurso DEF Entorno
<1> QED BY <1>3, <1>9, <1>10, <1>17, <1>19 DEF Formas, Entorno

-----------------------------------------------------------------------------
(* The transaction of a batch *)

LEMMA TecnicoTipo ==
    ASSUME NEW p \in Pedidos, NEW n, NEW fila \in Filas
    PROVE  /\ Tecnico(p, n, fila) \in Filas
           /\ Tecnico(p, n, fila).rev = fila.rev
           /\ Tecnico(p, n, fila).numero = fila.numero
           /\ Tecnico(p, n, fila).sistema = fila.sistema
<1> DEFINE a == ped[p].lista[n] = "bloqueado"
           b == ped[p].lista[n] = "baja"
           c == ped[p].lista[n] = "activo"
<1>1. a \in BOOLEAN /\ b \in BOOLEAN /\ c \in BOOLEAN
      OBVIOUS
<1>2. Tecnico(p, n, fila) = [fila EXCEPT !.bloqueado = a, !.baja = b, !.activo = c]
      BY DEF Tecnico
<1> HIDE DEF a, b, c
<1> QED BY <1>1, <1>2 DEF Filas

\* Synchronising or importing a row keeps its revision and its number.
LEMMA SincronizadaTipo ==
    ASSUME NEW p \in Pedidos, NEW fila \in Filas
    PROVE  /\ FilaSincronizada(p, fila) \in Filas
           /\ FilaSincronizada(p, fila).rev = fila.rev
           /\ FilaSincronizada(p, fila).numero = fila.numero
<1> DEFINE t == Tecnico(p, fila.numero, fila)
           s == IF t.sistema = "otro" THEN "ws" ELSE t.sistema
<1>1. t \in Filas /\ t.rev = fila.rev /\ t.numero = fila.numero
      BY TecnicoTipo
<1>2. FilaSincronizada(p, fila) =
          IF Informado(p, fila.numero) THEN [t EXCEPT !.sistema = s]
                                       ELSE [fila EXCEPT !.activo = FALSE]
      BY DEF FilaSincronizada
<1> HIDE DEF t
<1>3. s \in Sistemas
      BY <1>1 DEF Filas, Sistemas
<1> HIDE DEF s
<1>4. /\ [t EXCEPT !.sistema = s] \in Filas
      /\ [t EXCEPT !.sistema = s].rev = fila.rev
      /\ [t EXCEPT !.sistema = s].numero = fila.numero
      BY <1>1, <1>3 DEF Filas
<1>5. /\ [fila EXCEPT !.activo = FALSE] \in Filas
      /\ [fila EXCEPT !.activo = FALSE].rev = fila.rev
      /\ [fila EXCEPT !.activo = FALSE].numero = fila.numero
      BY DEF Filas
<1> QED BY <1>2, <1>4, <1>5

LEMMA ImportadaTipo ==
    ASSUME NEW p \in Pedidos, NEW fila \in Filas, ped[p].doc \in Constancias,
           EnDocumento(p, fila.numero)
    PROVE  /\ FilaImportada(p, fila) \in Filas
           /\ FilaImportada(p, fila).rev = fila.rev
           /\ FilaImportada(p, fila).numero = fila.numero
           /\ FilaImportada(p, fila).sistema = ped[p].doc.filas[fila.numero]
<1> DEFINE n == fila.numero
           s == ped[p].doc.filas[n]
           b == [fila EXCEPT !.sistema = s]
           t == Tecnico(p, n, b)
<1>1. s \in Sistemas
      BY DatosValidos DEF EnDocumento
<1>2. FilaImportada(p, fila) =
          IF Informado(p, n) THEN t
          ELSE IF ConArca(p) THEN [b EXCEPT !.activo = FALSE] ELSE b
      BY DEF FilaImportada
<1> HIDE DEF s
<1>3. b \in Filas /\ b.rev = fila.rev /\ b.numero = fila.numero /\ b.sistema = s
      BY <1>1 DEF Filas
<1> HIDE DEF b
<1>4. t \in Filas /\ t.rev = fila.rev /\ t.numero = fila.numero /\ t.sistema = s
      BY <1>3, TecnicoTipo
<1>5. /\ [b EXCEPT !.activo = FALSE] \in Filas
      /\ [b EXCEPT !.activo = FALSE].rev = fila.rev
      /\ [b EXCEPT !.activo = FALSE].numero = fila.numero
      /\ [b EXCEPT !.activo = FALSE].sistema = s
      BY <1>3 DEF Filas
<1> HIDE DEF t
<1>6. /\ FilaImportada(p, fila) \in Filas
      /\ FilaImportada(p, fila).rev = fila.rev
      /\ FilaImportada(p, fila).numero = fila.numero
      /\ FilaImportada(p, fila).sistema = s
      BY <1>2, <1>3, <1>4, <1>5
<1> QED BY <1>6 DEF s

LEMMA EditadaTipo ==
    ASSUME NEW e \in Ediciones, NEW fila \in Filas
    PROVE  /\ [fila EXCEPT ![e[1]] = e[2]] \in Filas
           /\ [fila EXCEPT ![e[1]] = e[2]].rev = fila.rev
<1>1. CASE e[1] = "numero" /\ e[2] \in Numeros
      BY <1>1 DEF Filas
<1>2. CASE e[1] = "activo" /\ e[2] \in BOOLEAN
  <2>1. [fila EXCEPT ![e[1]] = e[2]] = [fila EXCEPT !.activo = e[2]]
        BY <1>2
  <2> QED BY <1>2, <2>1 DEF Filas
<1>3. CASE e[1] = "bloqueado" /\ e[2] \in BOOLEAN
  <2>1. [fila EXCEPT ![e[1]] = e[2]] = [fila EXCEPT !.bloqueado = e[2]]
        BY <1>3
  <2> QED BY <1>3, <2>1 DEF Filas
<1>4. CASE e[1] = "baja" /\ e[2] \in BOOLEAN
  <2>1. [fila EXCEPT ![e[1]] = e[2]] = [fila EXCEPT !.baja = e[2]]
        BY <1>4
  <2> QED BY <1>4, <2>1 DEF Filas
<1>5. CASE e[1] = "sistema" /\ e[2] \in Sistemas
      BY <1>5 DEF Filas
<1> QED BY <1>1, <1>2, <1>3, <1>4, <1>5, DatosValidos

\* A batch at its commit: what it carries, and the authority it holds.
LEMMA LoteListo ==
    ASSUME InductivoPuntos, NEW p \in Pedidos, Aplicar(p)
    PROVE  /\ ped[p] \in EstadosPedido /\ ped[p].fase = "espera"
           /\ ped[p].clase \in {"editar", "sincronizar", "importar"}
           /\ ped[p].copia \in [Puntos -> Filas]
           /\ Pedido(p) /\ CopiaFiel(p) /\ AltaPropia(p)
           /\ ped[p].confirma =>
                 ped[p].clase = "importar" /\ ped[p].cuit = empresa.cuit /\ ped[p].cuit \in Cuits
<1>1. /\ ped[p] \in EstadosPedido /\ ped[p].fase = "espera"
      /\ Pedido(p) /\ CopiaFiel(p) /\ AltaPropia(p) /\ (EnFrontera(p) => frontera = p)
      BY DEF Aplicar, InductivoPuntos, Formas, Curso
<1>2. ped[p].confirma => ped[p].cuit = empresa.cuit
      BY <1>1, ConstantesValidas DEF InductivoPuntos, Curso, FronteraViva, EnFrontera
<1> QED BY <1>1, <1>2 DEF Pedido, FasesDeLote, ConCopia

\* A row that the batch changes is the one it had read, and no guard is on it.
LEMMA ExigidoVigente ==
    ASSUME InductivoPuntos, NEW p \in Pedidos, Aplicar(p), NEW pt \in Exigidos(p)
    PROVE  /\ pt \in Puntos /\ pt \in Existentes /\ ~GuardaActiva(pt)
           /\ ped[p].copia[pt] = punto[pt] /\ punto[pt].rev < MaxRevision
           /\ Destino(p, pt) \in Filas
           /\ Destino(p, pt).rev = punto[pt].rev
           /\ ped[p].clase # "editar" => Destino(p, pt).numero = punto[pt].numero
           /\ ped[p].clase = "editar" => pt = ped[p].pt
           /\ ped[p].clase = "importar" /\ EnDocumento(p, punto[pt].numero) =>
                 Destino(p, pt).sistema = ped[p].doc.filas[punto[pt].numero]
<1> DEFINE fila == ped[p].copia[pt]
<1>1. /\ ped[p] \in EstadosPedido /\ ped[p].clase \in {"editar", "sincronizar", "importar"}
      /\ ped[p].copia \in [Puntos -> Filas] /\ Pedido(p) /\ CopiaFiel(p) /\ ped[p].fase = "espera"
      BY LoteListo
<1>2. pt \in Tocados(p)
      BY DEF Exigidos
<1>3. pt \in Puntos /\ fila.rev > 0 /\ (ped[p].clase = "editar" => pt = ped[p].pt)
  <2>1. CASE ped[p].clase = "editar"
        BY <1>1, <1>2, <2>1 DEF Tocados, Pedido
  <2>2. CASE ped[p].clase = "sincronizar"
        BY <1>2, <2>2 DEF Tocados, Leidos
  <2>3. CASE ped[p].clase = "importar"
        BY <1>2, <2>3 DEF Tocados, Leidos, Ausentes
  <2> QED BY <1>1, <2>1, <2>2, <2>3
<1>4. punto[pt].rev = fila.rev /\ ~GuardaActiva(pt) /\ punto[pt].rev < MaxRevision
      BY DEF Aplicar, Prevalidado, RevisionVigente, Cota
<1>5. fila = punto[pt]
      BY <1>1, <1>3, <1>4 DEF CopiaFiel, ConCopia
<1>6. fila \in Filas
      BY <1>1, <1>3
<1> HIDE DEF fila
<1>7. /\ Destino(p, pt) \in Filas /\ Destino(p, pt).rev = fila.rev
      /\ ped[p].clase # "editar" => Destino(p, pt).numero = fila.numero
      /\ ped[p].clase = "importar" /\ EnDocumento(p, fila.numero) =>
            Destino(p, pt).sistema = ped[p].doc.filas[fila.numero]
  <2>1. CASE ped[p].clase = "editar"
    <3>1. Destino(p, pt) = [fila EXCEPT ![ped[p].edicion[1]] = ped[p].edicion[2]]
          BY <2>1 DEF Destino, fila
    <3>2. ped[p].edicion \in Ediciones
          BY <1>1, <2>1 DEF Pedido
    <3> QED BY <2>1, <3>1, <3>2, <1>6, EditadaTipo
  <2>2. CASE ped[p].clase = "sincronizar"
    <3>1. Destino(p, pt) = FilaSincronizada(p, fila)
          BY <2>2 DEF Destino, fila
    <3> QED BY <2>2, <3>1, <1>6, SincronizadaTipo
  <2>3. CASE ped[p].clase = "importar"
    <3>1. Destino(p, pt) = IF EnDocumento(p, fila.numero) THEN FilaImportada(p, fila)
                                                          ELSE [fila EXCEPT !.activo = FALSE]
          BY <2>3 DEF Destino, fila
    <3>2. ped[p].doc \in Constancias
          BY <1>1, <2>3 DEF Pedido
    <3>3. CASE EnDocumento(p, fila.numero)
          BY <2>3, <3>1, <3>2, <3>3, <1>6, ImportadaTipo
    <3>4. CASE ~EnDocumento(p, fila.numero)
          BY <2>3, <3>1, <3>4, <1>6 DEF Filas
    <3> QED BY <3>3, <3>4
  <2> QED BY <1>1, <2>1, <2>2, <2>3
<1>8. pt \in Existentes
      BY <1>3, <1>5 DEF Existentes, Existe
<1> QED BY <1>3, <1>4, <1>5, <1>7, <1>8 DEF fila

\* The place of a number among those of the batch.
Lugar(p, n) == Cardinality({m \in ped[p].alta : m <= n})

\* The new rows take the ids after the last one, one each.
LEMMA CreadosSiguen ==
    ASSUME InductivoPuntos, NEW p \in Pedidos, Aplicar(p)
    PROVE  /\ \E m, k \in Nat :
                 /\ Existentes = 1..m /\ m = Cardinality(Existentes)
                 /\ m + k <= Cardinality(Puntos) /\ Creados(p) = (m+1)..(m+k)
           /\ Cardinality(Puntos) \in Nat
           /\ \A n, o \in ped[p].alta : IdDe(p, n) = IdDe(p, o) => n = o
<1> DEFINE A == ped[p].alta
           k == Cardinality(A)
<1>1. PICK m \in Nat : /\ m = Cardinality(Existentes) /\ m <= Cardinality(Puntos)
                       /\ Existentes = 1..m /\ Cardinality(Puntos) \in Nat
      BY IdsTipo
<1>2. IsFiniteSet(A) /\ A \subseteq Numeros /\ A \subseteq Nat
  <2>1. A \subseteq Numeros
        BY LoteListo DEF EstadosPedido
  <2> QED BY <2>1, FS_Subset, ConstantesValidas
<1>3. k \in Nat
      BY <1>2, FS_CardinalityType
<1>4. ASSUME NEW n \in A
      PROVE  /\ IsFiniteSet({o \in A : o <= n}) /\ Lugar(p, n) \in Nat
             /\ Lugar(p, n) \in 1..k
  <2> DEFINE N == {o \in A : o <= n}
  <2>1. IsFiniteSet(N) /\ Cardinality(N) <= k
        BY <1>2, FS_Subset
  <2>2. n \in N
        BY <1>2
  <2>3. Cardinality(N) \in Nat
        BY <2>1, FS_CardinalityType
  <2>4. Cardinality(N) # 0
        BY <2>1, <2>2, FS_EmptySet
  <2>5. Lugar(p, n) = Cardinality(N)
        BY DEF Lugar
  <2> HIDE DEF N, k
  <2> QED BY <2>1, <2>3, <2>4, <2>5, <1>3 DEF N
<1>5. ASSUME NEW n \in A, NEW o \in A, n < o PROVE Lugar(p, n) < Lugar(p, o)
  <2> DEFINE N == {x \in A : x <= n}
             O == {x \in A : x <= o}
  <2>1. N \in SUBSET O /\ o \in O /\ o \notin N
        BY <1>2, <1>5
  <2>2. Cardinality(N) <= Cardinality(O) /\ Cardinality(N) # Cardinality(O)
        BY <2>1, <1>4, FS_Subset
  <2>3. Lugar(p, n) = Cardinality(N) /\ Lugar(p, o) = Cardinality(O)
        BY DEF Lugar
  <2>4. Lugar(p, n) \in Nat /\ Lugar(p, o) \in Nat
        BY <1>4
  <2> HIDE DEF N, O
  <2> QED BY <2>2, <2>3, <2>4
<1>6. \A n, o \in A : Lugar(p, n) = Lugar(p, o) => n = o
  <2>1. SUFFICES ASSUME NEW n \in A, NEW o \in A, Lugar(p, n) = Lugar(p, o), n # o PROVE FALSE
        OBVIOUS
  <2>2. n < o \/ o < n
        BY <2>1, <1>2
  <2>3. Lugar(p, n) \in Nat /\ Lugar(p, o) \in Nat /\ (n < o => Lugar(p, n) < Lugar(p, o))
        /\ (o < n => Lugar(p, o) < Lugar(p, n))
        BY <1>4, <1>5
  <2> QED BY <2>1, <2>2, <2>3
<1> DEFINE f == [n \in A |-> Lugar(p, n)]
<1>7. f \in Injection(A, 1..k)
      BY <1>4, <1>6 DEF Injection, IsInjective
<1>8. f \in Surjection(A, 1..k)
  <2>1. IsFiniteSet(1..k) /\ Cardinality(1..k) = k
        BY <1>3, FS_Interval
  <2> QED BY <1>7, <2>1, FS_Injection
<1>9. \A i \in 1..k : \E n \in A : Lugar(p, n) = i
      BY <1>8 DEF Surjection
<1>10. \A n : IdDe(p, n) = m + Lugar(p, n)
      BY <1>1 DEF IdDe, Lugar
<1>11. Creados(p) = (m+1)..(m+k)
  <2>1. ASSUME NEW i \in Creados(p) PROVE i \in (m+1)..(m+k)
    <3>1. PICK n \in A : i = m + Lugar(p, n)
          BY <1>10 DEF Creados
    <3>2. Lugar(p, n) \in 1..k
          BY <1>4
    <3> HIDE DEF k
    <3> QED BY <3>1, <3>2, <1>3
  <2>2. ASSUME NEW i \in (m+1)..(m+k) PROVE i \in Creados(p)
    <3>1. i - m \in 1..k
          BY <1>3
    <3>2. PICK n \in A : Lugar(p, n) = i - m
          BY <3>1, <1>9
    <3>3. IdDe(p, n) = i
          BY <3>2, <1>10
    <3> QED BY <3>3 DEF Creados
  <2> QED BY <2>1, <2>2
<1>12. m + k <= Cardinality(Puntos)
  <2>1. IdsLibres = (m+1)..Cardinality(Puntos)
    <3> DEFINE c == Cardinality(Puntos)
    <3>1. Puntos = 1..c /\ c \in Nat /\ IdsLibres = Puntos \ (1..m)
          BY <1>1, ConstantesValidas DEF IdsLibres
    <3> HIDE DEF c
    <3>2. IdsLibres = (m+1)..c
          BY <3>1
    <3> QED BY <3>2 DEF c
  <2>2. Cardinality(IdsLibres) = Cardinality(Puntos) - m
    <3> DEFINE c == Cardinality(Puntos)
    <3>1. c \in Nat /\ m \in Nat /\ m <= c /\ IdsLibres = (m+1)..c
          BY <1>1, <2>1
    <3> HIDE DEF c
    <3>2. Cardinality((m+1)..c) = IF m+1 > c THEN 0 ELSE c - (m+1) + 1
          BY <3>1, FS_Interval
    <3>3. Cardinality(IdsLibres) = c - m
          BY <3>1, <3>2
    <3> QED BY <3>3 DEF c
  <2>3. k <= Cardinality(IdsLibres)
        BY DEF Aplicar, Cota
  <2> DEFINE c == Cardinality(Puntos)
             i == Cardinality(IdsLibres)
  <2>4. c \in Nat /\ i = c - m /\ k <= i
        BY <1>1, <2>2, <2>3
  <2> HIDE DEF k, c, i
  <2>5. m + k <= c
        BY <2>4, <1>3
  <2> QED BY <2>5 DEF c
<1>13. \A n, o \in A : IdDe(p, n) = IdDe(p, o) => n = o
  <2>1. SUFFICES ASSUME NEW n \in A, NEW o \in A, IdDe(p, n) = IdDe(p, o) PROVE n = o
        OBVIOUS
  <2>2. m + Lugar(p, n) = m + Lugar(p, o)
        BY <2>1, <1>10
  <2>3. Lugar(p, n) \in Nat /\ Lugar(p, o) \in Nat
        BY <1>4
  <2> HIDE DEF A
  <2> QED BY <2>2, <2>3, <1>6
<1> QED BY <1>1, <1>3, <1>11, <1>12, <1>13

\* The days of the documents of a ledger never go back.
EnOrden(s) ==
    \A i, j \in DOMAIN s : i < j /\ s[j].dia # NoDia => s[i].dia <= s[j].dia

LEMMA AnexoEnOrden ==
    ASSUME NEW s \in Seq(Revisiones), NEW r \in Revisiones, EnOrden(s),
           r.dia # NoDia => \A i \in DOMAIN s : s[i].dia <= r.dia
    PROVE  /\ Append(s, r) \in Seq(Revisiones) /\ Append(s, r) # <<>>
           /\ Append(s, r)[Len(Append(s, r))] = r
           /\ EnOrden(Append(s, r))
<1> DEFINE t == Append(s, r)
<1>1. /\ t \in Seq(Revisiones) /\ Len(t) = Len(s) + 1 /\ Len(s) \in Nat
      /\ t[Len(s) + 1] = r /\ \A i \in 1..Len(s) : t[i] = s[i]
      /\ DOMAIN t = 1..(Len(s) + 1) /\ DOMAIN s = 1..Len(s)
      OBVIOUS
<1> HIDE DEF t
<1>2. EnOrden(t)
  <2>1. SUFFICES ASSUME NEW i \in 1..(Len(s) + 1), NEW j \in 1..(Len(s) + 1), i < j,
                        t[j].dia # NoDia
                 PROVE  t[i].dia <= t[j].dia
        BY <1>1 DEF EnOrden
  <2>2. i \in 1..Len(s) /\ t[i] = s[i]
        BY <1>1, <2>1
  <2>3. CASE j \in 1..Len(s)
        BY <1>1, <2>1, <2>2, <2>3 DEF EnOrden
  <2>4. CASE j = Len(s) + 1
        BY <1>1, <2>1, <2>2, <2>4
  <2> QED BY <1>1, <2>3, <2>4
<1>3. t # <<>> /\ t[Len(t)] = r
      BY <1>1
<1> QED BY <1>1, <1>2, <1>3 DEF t

\* The row the batch writes over one it had read.
LEMMA ExigidoFinal ==
    ASSUME InductivoPuntos, NEW p \in Pedidos, Aplicar(p), NEW pt \in Exigidos(p)
    PROVE  /\ pt \notin Creados(p)
           /\ FilaFinal(p, pt) = [Destino(p, pt) EXCEPT !.rev = punto[pt].rev + 1]
           /\ FilaFinal(p, pt) \in Filas
           /\ FilaFinal(p, pt).rev = punto[pt].rev + 1
           /\ FilaFinal(p, pt).rev \in 1..MaxRevision
           /\ FilaFinal(p, pt).numero = Destino(p, pt).numero
           /\ FilaFinal(p, pt).sistema = Destino(p, pt).sistema
<1>1. /\ pt \in Puntos /\ pt \in Existentes /\ ped[p].copia[pt] = punto[pt]
      /\ punto[pt].rev < MaxRevision /\ Destino(p, pt) \in Filas
      BY ExigidoVigente
<1>2. PICK m, k \in Nat : Existentes = 1..m /\ Creados(p) = (m+1)..(m+k)
      BY CreadosSiguen
<1>3. pt \notin Creados(p)
      BY <1>1, <1>2
<1>4. FilaFinal(p, pt) = [Destino(p, pt) EXCEPT !.rev = punto[pt].rev + 1]
      BY <1>1, <1>3 DEF FilaFinal
<1>5. punto[pt].rev \in Nat
      BY <1>1 DEF InductivoPuntos, Formas, Filas
<1>6. punto[pt].rev + 1 \in 1..MaxRevision
      BY <1>1, <1>5, ConstantesValidas
<1> QED BY <1>1, <1>3, <1>4, <1>5, <1>6 DEF Filas

\* The row the batch inserts.
LEMMA CreadoFinal ==
    ASSUME InductivoPuntos, NEW p \in Pedidos, Aplicar(p), NEW pt \in Creados(p)
    PROVE  /\ pt \in Puntos /\ pt \notin Existentes /\ pt \notin Exigidos(p)
           /\ NumeroDe(p, pt) \in ped[p].alta /\ IdDe(p, NumeroDe(p, pt)) = pt
           /\ FilaFinal(p, pt) \in Filas
           /\ FilaFinal(p, pt).rev = IF ped[p].confirma THEN 2 ELSE 1
           /\ FilaFinal(p, pt).numero = NumeroDe(p, pt)
           /\ ped[p].clase = "importar" =>
                 FilaFinal(p, pt).sistema = ped[p].doc.filas[FilaFinal(p, pt).numero]
<1> DEFINE n == NumeroDe(p, pt)
           vacia == [SinFila EXCEPT !.numero = n]
           rev == IF ped[p].confirma THEN 2 ELSE 1
<1>1. pt \in Puntos /\ pt \notin Existentes
  <2>1. PICK m, k \in Nat : /\ Existentes = 1..m /\ m + k <= Cardinality(Puntos)
                            /\ Creados(p) = (m+1)..(m+k)
        BY CreadosSiguen
  <2> DEFINE c == Cardinality(Puntos)
  <2>2. Puntos = 1..c /\ c \in Nat /\ m + k <= c
        BY <2>1, CreadosSiguen, ConstantesValidas
  <2> HIDE DEF c
  <2> QED BY <2>1, <2>2
<1>2. pt \notin Exigidos(p)
      BY <1>1, ExigidoVigente
<1>3. n \in ped[p].alta /\ IdDe(p, n) = pt
      BY DEF NumeroDe, Creados
<1>4. /\ ped[p] \in EstadosPedido /\ Pedido(p)
      /\ ped[p].clase \in {"editar", "sincronizar", "importar"}
      BY LoteListo
<1>5. n \in Numeros /\ n \in Nuevos(p) /\ ped[p].clase # "editar"
      BY <1>3, <1>4 DEF EstadosPedido, Pedido
<1> HIDE DEF n
<1>6. vacia \in Filas /\ vacia.numero = n
      BY <1>5 DEF SinFila, Filas, Sistemas
<1> HIDE DEF vacia
<1>7. /\ FilaNueva(p, n) \in Filas /\ FilaNueva(p, n).numero = n
      /\ ped[p].clase = "importar" => FilaNueva(p, n).sistema = ped[p].doc.filas[n]
  <2>1. CASE ped[p].clase = "sincronizar"
    <3>1. FilaNueva(p, n) = FilaSincronizada(p, vacia)
          BY <2>1 DEF FilaNueva, vacia
    <3> QED BY <2>1, <3>1, <1>6, SincronizadaTipo
  <2>2. CASE ped[p].clase = "importar"
    <3>1. FilaNueva(p, n) = FilaImportada(p, vacia)
          BY <2>2 DEF FilaNueva, vacia
    <3>2. EnDocumento(p, n) /\ ped[p].doc \in Constancias
          BY <2>2, <1>4, <1>5 DEF Nuevos, EnDocumento, Pedido
    <3> QED BY <2>2, <3>1, <3>2, <1>6, ImportadaTipo
  <2> QED BY <1>4, <1>5, <2>1, <2>2
<1>8. FilaFinal(p, pt) = [FilaNueva(p, n) EXCEPT !.rev = rev]
      BY DEF FilaFinal, n
<1>9. rev \in Nat
      OBVIOUS
<1> HIDE DEF rev
<1>10. /\ FilaFinal(p, pt) \in Filas /\ FilaFinal(p, pt).rev = rev
       /\ FilaFinal(p, pt).numero = n /\ FilaFinal(p, pt).sistema = FilaNueva(p, n).sistema
      BY <1>7, <1>8, <1>9 DEF Filas
<1> QED BY <1>1, <1>2, <1>3, <1>7, <1>10 DEF n, rev

\* An attestation: the head it publishes is its own.
LEMMA AtestadoAsentado ==
    ASSUME InductivoPuntos, NEW p \in Pedidos, Aplicar(p), NEW pt \in Escritos(p),
           ped[p].confirma
    PROVE  Asentado(pt)' /\ LibroFinal(p, pt) \in Seq(Revisiones)
<1> DEFINE F == FilaFinal(p, pt)
           P == LibroPrevio(p, pt)
           A == Atestada(p, F.rev, F)
           L == LibroFinal(p, pt)
<1>1. /\ ped[p].clase = "importar" /\ ped[p].cuit = empresa.cuit /\ ped[p].cuit \in Cuits
      /\ ped[p].doc \in Constancias
      BY LoteListo DEF Pedido
<1>2. ped[p].doc.dia \in 1..MaxDia
      BY <1>1, ConstantesValidas DEF EsConstancia
<1>3. /\ pt \in Puntos /\ F \in Filas /\ F.rev \in 1..MaxRevision
      /\ P \in Seq(Revisiones) /\ EnOrden(P) /\ \A i \in DOMAIN P : P[i].dia <= ped[p].doc.dia
      /\ EnDocumento(p, F.numero) => F.sistema = ped[p].doc.filas[F.numero]
  <2>1. CASE pt \in Exigidos(p)
    <3>1. /\ pt \in Puntos /\ F \in Filas /\ F.rev \in 1..MaxRevision /\ pt \notin Creados(p)
          /\ EnDocumento(p, F.numero) => F.sistema = ped[p].doc.filas[F.numero]
          BY <1>1, <2>1, ExigidoFinal, ExigidoVigente
    <3>2. P = libro[pt]
          BY <3>1 DEF LibroPrevio
    <3>3. libro[pt] \in Seq(Revisiones) /\ EnOrden(libro[pt])
          BY <3>1 DEF InductivoPuntos, Formas, Registro, DocumentosEnOrden, EnOrden
    <3>4. \A i \in DOMAIN libro[pt] : libro[pt][i].dia <= ped[p].doc.dia
      <4>1. SUFFICES ASSUME NEW i \in DOMAIN libro[pt]
                     PROVE  libro[pt][i].dia <= ped[p].doc.dia
            OBVIOUS
      <4>2. ped[p].doc.dia >= libro[pt][i].dia
            BY <2>1 DEF Aplicar, DocumentoVigente, FechasPrevias
      <4>3. libro[pt][i] \in Revisiones
            BY <3>3
      <4> QED BY <4>2, <4>3, <1>2 DEF Revisiones
    <3> QED BY <3>1, <3>2, <3>3, <3>4
  <2>2. CASE pt \in Creados(p)
    <3>1. /\ pt \in Puntos /\ F \in Filas /\ F.rev = 2
          /\ F.sistema = ped[p].doc.filas[F.numero]
          BY <1>1, <2>2, CreadoFinal
    <3>2. P = <<NoVerificada(1)>>
          BY <2>2 DEF LibroPrevio
    <3>3. /\ P \in Seq(Revisiones) /\ DOMAIN P = {1}
          /\ P[1].dia = NoDia
          BY <3>2, NoVerificadaTipo
    <3>4. EnOrden(P) /\ \A i \in DOMAIN P : P[i].dia <= ped[p].doc.dia
          BY <3>3, <1>2 DEF EnOrden, NoDia
    <3>5. 2 \in 1..MaxRevision
          BY ConstantesValidas
    <3> QED BY <3>1, <3>3, <3>4, <3>5
  <2> QED BY <2>1, <2>2 DEF Escritos
<1>4. /\ A \in Revisiones /\ A.rev = F.rev /\ A.cuit = ped[p].cuit /\ A.numero = F.numero
      /\ A.dia = ped[p].doc.dia
      /\ A.estado = "verificado_rece" =>
            EnDocumento(p, F.numero) /\ ped[p].doc.filas[F.numero] = "rece"
  <2> DEFINE e == IF EnDocumento(p, F.numero) /\ ped[p].doc.filas[F.numero] = "rece"
                  THEN "verificado_rece" ELSE "no_verificado"
  <2>1. A = Revision(e, F.rev, ped[p].doc.dia, ped[p].cuit, F.numero)
        BY DEF Atestada
  <2>2. e \in EstadosRece
        BY DEF EstadosRece
  <2>3. e = "verificado_rece" => EnDocumento(p, F.numero) /\ ped[p].doc.filas[F.numero] = "rece"
        OBVIOUS
  <2>4. F.rev \in Nat /\ F.numero \in Numeros \cup {0} /\ ped[p].doc.dia \in Nat
        BY <1>2, <1>3 DEF Filas
  <2> HIDE DEF e, F
  <2> QED BY <2>1, <2>2, <2>3, <2>4, <1>1 DEF Revision, Revisiones
<1>5. L = Append(P, A)
      BY DEF LibroFinal
<1>6. punto'[pt] = F /\ libro'[pt] = L /\ dictamen'[pt] = "atestado"
      BY <1>3 DEF Aplicar, Suceso
<1>7. empresa' = empresa
      BY DEF Aplicar, Entorno
<1> HIDE DEF F, P, A, L
<1>8. L \in Seq(Revisiones) /\ L # <<>> /\ L[Len(L)] = A /\ EnOrden(L)
      BY <1>3, <1>4, <1>5, AnexoEnOrden
<1>9. Cabeza(pt)' = A
      BY <1>6, <1>8 DEF Cabeza
<1>10. F.rev <= F.rev
      BY <1>3 DEF Filas
<1> QED BY <1>1, <1>3, <1>4, <1>6, <1>7, <1>8, <1>9, <1>10 DEF Asentado, EnOrden, L

\* A ledger whose last revision is not positive says nothing of its point.
LEMMA NegativoAsentado ==
    ASSUME NEW pt \in Puntos, NEW F \in Filas, NEW L \in Seq(Revisiones), NEW n \in Nat,
           punto'[pt] = F, libro'[pt] = L, F.rev \in 1..MaxRevision, n <= F.rev,
           L # <<>>, L[Len(L)] = NoVerificada(n), EnOrden(L)
    PROVE  Asentado(pt)'
<1>1. Cabeza(pt)' = NoVerificada(n)
      BY DEF Cabeza
<1> QED BY <1>1, NoVerificadaTipo DEF Asentado, EnOrden

\* Any other batch: it inserts without evidence, invalidates, or only blocks.
LEMMA InvalidadoAsentado ==
    ASSUME InductivoPuntos, NEW p \in Pedidos, Aplicar(p), NEW pt \in Escritos(p),
           ~ped[p].confirma
    PROVE  Asentado(pt)' /\ LibroFinal(p, pt) \in Seq(Revisiones)
<1> DEFINE F == FilaFinal(p, pt)
           L == LibroFinal(p, pt)
<1>1. CASE pt \in Creados(p)
  <2>1. pt \in Puntos /\ F \in Filas /\ F.rev = 1
        BY <1>1, CreadoFinal
  <2>2. L = <<NoVerificada(1)>>
        BY <1>1 DEF LibroFinal, LibroPrevio
  <2>3. punto'[pt] = F /\ libro'[pt] = L
        BY <2>1 DEF Aplicar
  <2>4. /\ L \in Seq(Revisiones) /\ L # <<>> /\ DOMAIN L = {1} /\ L[Len(L)] = NoVerificada(1)
        BY <2>2, NoVerificadaTipo
  <2>5. EnOrden(L)
        BY <2>4 DEF EnOrden
  <2>6. F.rev \in 1..MaxRevision /\ 1 <= F.rev
        BY <2>1, ConstantesValidas
  <2> HIDE DEF F, L
  <2>7. Asentado(pt)'
        BY <2>1, <2>3, <2>4, <2>5, <2>6, NegativoAsentado
  <2> QED BY <2>4, <2>7 DEF L
<1>2. CASE pt \in Exigidos(p)
  <2>1. /\ pt \in Puntos /\ pt \in Existentes /\ ped[p].copia[pt] = punto[pt]
        /\ Destino(p, pt) \in Filas
        BY <1>2, ExigidoVigente
  <2>2. /\ pt \notin Creados(p) /\ F \in Filas /\ F.rev = punto[pt].rev + 1
        /\ F.rev \in 1..MaxRevision
        /\ F = [Destino(p, pt) EXCEPT !.rev = punto[pt].rev + 1]
        BY <1>2, ExigidoFinal
  <2>3. punto'[pt] = F /\ libro'[pt] = L /\ dictamen'[pt] = Suceso(p, pt) /\ empresa' = empresa
        BY <2>1 DEF Aplicar, Entorno
  <2>4. /\ libro[pt] \in Seq(Revisiones) /\ EnOrden(libro[pt]) /\ punto[pt] \in Filas
        /\ libro[pt] # <<>>
        BY <2>1 DEF InductivoPuntos, Formas, Registro, DocumentosEnOrden, EnOrden, NacenJuntos,
                    Existentes
  <2>5. CASE SoloBloqueoTransitorio(p, pt)
    <3>1. L = libro[pt]
          BY <2>2, <2>5 DEF LibroFinal, LibroPrevio
    <3>2. /\ Destino(p, pt) = [punto[pt] EXCEPT !.bloqueado = TRUE]
          /\ ~punto[pt].bloqueado /\ ~punto[pt].baja
          BY <2>1, <2>5 DEF SoloBloqueoTransitorio
    <3>3. F = [punto[pt] EXCEPT !.bloqueado = TRUE, !.rev = punto[pt].rev + 1]
          BY <2>2, <2>4, <3>2 DEF Filas
    <3> HIDE DEF F
    <3>4. Fisco(F) = [Fisco(punto[pt]) EXCEPT !.bloqueado = TRUE]
          BY <2>4, <3>3 DEF Fisco, Filas
    <3>5. /\ F.numero = punto[pt].numero /\ F.sistema = punto[pt].sistema
          /\ F.rev = punto[pt].rev + 1 /\ punto[pt].rev \in Nat
          BY <2>4, <3>3 DEF Filas
    <3>6. Suceso(p, pt) = IF dictamen[pt] # "tocado" THEN "bloqueado" ELSE "tocado"
          BY <3>2, <3>4 DEF Suceso, F
    <3>7. Cabeza(pt)' = Cabeza(pt)
          BY <2>3, <3>1 DEF Cabeza
    <3>8. /\ Cabeza(pt).rev <= punto[pt].rev /\ Cabeza(pt).rev \in Nat
          /\ dictamen[pt] = "tocado" => Cabeza(pt).estado = "no_verificado"
          /\ Cabeza(pt).estado = "verificado_rece" =>
                /\ Cabeza(pt).cuit = empresa.cuit
                /\ Cabeza(pt).numero = punto[pt].numero
                /\ punto[pt].sistema = "rece"
      <4>1. Cabeza(pt) \in Revisiones
            BY <2>4 DEF Cabeza
      <4> QED BY <2>1, <4>1 DEF InductivoPuntos, Registro, HistoriaFiel, EvidenciaFiel, Revisiones
    <3>9. Cabeza(pt).rev < F.rev /\ Cabeza(pt).rev <= F.rev
          BY <3>5, <3>8
    <3>10. Asentado(pt)'
          BY <2>2, <2>3, <2>4, <3>1, <3>5, <3>6, <3>7, <3>8, <3>9 DEF Asentado, EnOrden
    <3> QED BY <2>4, <3>1, <3>10
  <2>6. CASE ~SoloBloqueoTransitorio(p, pt)
    <3>1. L = Append(libro[pt], NoVerificada(F.rev))
          BY <2>2, <2>6 DEF LibroFinal
    <3>2. F.rev \in Nat /\ F.rev <= F.rev
          BY <2>2 DEF Filas
    <3>3. NoVerificada(F.rev) \in Revisiones /\ NoVerificada(F.rev).dia = NoDia
          BY <3>2, NoVerificadaTipo
    <3> HIDE DEF F, L
    <3>4. /\ L \in Seq(Revisiones) /\ L # <<>> /\ L[Len(L)] = NoVerificada(F.rev)
          /\ EnOrden(L)
          BY <2>4, <3>1, <3>3, AnexoEnOrden
    <3>5. Asentado(pt)'
          BY <2>1, <2>2, <2>3, <3>2, <3>4, NegativoAsentado
    <3> QED BY <3>4, <3>5 DEF L
  <2> QED BY <2>5, <2>6
<1> QED BY <1>1, <1>2 DEF Escritos

\* What a commit does to the rows, and to those the others had read.
LEMMA AplicarFilas ==
    ASSUME InductivoPuntos, NEW p \in Pedidos, Aplicar(p)
    PROVE  /\ Escritos(p) \subseteq Puntos
           /\ Existentes' = Existentes \cup Creados(p)
           /\ punto' \in [Puntos -> Filas]
           /\ \A pt \in Escritos(p) : punto'[pt] = FilaFinal(p, pt)
           /\ \A pt \in Puntos \ Escritos(p) : punto'[pt] = punto[pt]
           /\ \A pt \in Puntos : /\ punto[pt].rev <= punto'[pt].rev
                                 /\ punto[pt].rev = punto'[pt].rev => punto'[pt] = punto[pt]
<1>1. ASSUME NEW pt \in Escritos(p)
      PROVE  /\ pt \in Puntos /\ FilaFinal(p, pt) \in Filas /\ FilaFinal(p, pt).rev > punto[pt].rev
             /\ FilaFinal(p, pt).rev > 0
             /\ pt \in Existentes \/ pt \in Creados(p)
  <2>1. CASE pt \in Exigidos(p)
    <3>1. pt \in Puntos /\ pt \in Existentes
          BY <2>1, ExigidoVigente
    <3>2. punto[pt].rev \in Nat
          BY <3>1 DEF InductivoPuntos, Formas, Filas
    <3> QED BY <2>1, <3>1, <3>2, ExigidoFinal
  <2>2. CASE pt \in Creados(p)
    <3>1. pt \in Puntos /\ pt \notin Existentes
          BY <2>2, CreadoFinal
    <3>2. punto[pt].rev = 0
          BY <3>1 DEF InductivoPuntos, Formas, Filas, Existentes, Existe
    <3> QED BY <2>2, <3>1, <3>2, CreadoFinal
  <2> QED BY <2>1, <2>2 DEF Escritos
<1>2. Escritos(p) \subseteq Puntos
      BY <1>1
<1>3. /\ \A pt \in Escritos(p) : punto'[pt] = FilaFinal(p, pt)
      /\ \A pt \in Puntos \ Escritos(p) : punto'[pt] = punto[pt]
      BY <1>2 DEF Aplicar
<1>4. \A pt \in Puntos : punto[pt] \in Filas /\ punto[pt].rev \in Nat
      BY DEF InductivoPuntos, Formas, Filas
<1>5. punto' \in [Puntos -> Filas]
  <2>1. \A pt \in Puntos : punto'[pt] \in Filas
        BY <1>1, <1>3, <1>4
  <2> QED BY <2>1 DEF Aplicar
<1>6. \A pt \in Puntos : punto'[pt].rev \in Nat
      BY <1>5 DEF Filas
<1>7. \A pt \in Puntos : /\ punto[pt].rev <= punto'[pt].rev
                         /\ punto[pt].rev = punto'[pt].rev => punto'[pt] = punto[pt]
      BY <1>1, <1>3, <1>4, <1>6
<1>8. Existentes' = Existentes \cup Creados(p)
  <2>1. ASSUME NEW pt \in Puntos PROVE Existe(pt)' <=> Existe(pt) \/ pt \in Creados(p)
    <3>1. CASE pt \in Escritos(p)
          BY <3>1, <1>1, <1>3 DEF Existe, Existentes
    <3>2. CASE pt \notin Escritos(p)
          BY <3>2, <1>3 DEF Existe, Escritos
    <3> QED BY <3>1, <3>2
  <2> QED BY <2>1, <1>2 DEF Existentes, Escritos
<1> QED BY <1>2, <1>3, <1>5, <1>7, <1>8

LEMMA AplicarIds ==
    ASSUME InductivoPuntos, NEW p \in Pedidos, Aplicar(p)
    PROVE  IdsEnOrden'
<1>1. PICK m, k \in Nat : /\ Existentes = 1..m /\ m + k <= Cardinality(Puntos)
                          /\ Creados(p) = (m+1)..(m+k)
      BY CreadosSiguen
<1> DEFINE c == Cardinality(Puntos)
<1>2. c \in Nat /\ m + k <= c /\ Existentes' = (1..m) \cup ((m+1)..(m+k))
      BY <1>1, CreadosSiguen, AplicarFilas
<1> HIDE DEF c
<1>3. Existentes' = 1..(m+k) /\ m + k \in 0..c
      BY <1>2
<1> QED BY <1>3 DEF IdsEnOrden, c

\* A number stays with one point: the inserted ones are the batch's own and
\* the edited one is free.
LEMMA AplicarNumeros ==
    ASSUME InductivoPuntos, NEW p \in Pedidos, Aplicar(p)
    PROVE  /\ NumerosUnicos'
           /\ \A q \in Pedidos \ {p} : ped[q].alta \cap NumerosActuales' = {}
<1>1. /\ ped[p] \in EstadosPedido /\ Pedido(p) /\ AltaPropia(p)
      /\ ped[p].clase \in {"editar", "sincronizar", "importar"}
      BY LoteListo
<1>2. /\ Existentes' = Existentes \cup Creados(p) /\ Escritos(p) \subseteq Puntos
      /\ \A pt \in Escritos(p) : punto'[pt] = FilaFinal(p, pt)
      /\ \A pt \in Puntos \ Escritos(p) : punto'[pt] = punto[pt]
      BY AplicarFilas
<1>3. ASSUME NEW pt \in Creados(p)
      PROVE  /\ pt \in Puntos /\ pt \notin Existentes
             /\ punto'[pt].numero = NumeroDe(p, pt)
             /\ NumeroDe(p, pt) \in ped[p].alta /\ IdDe(p, NumeroDe(p, pt)) = pt
      BY <1>2, CreadoFinal DEF Escritos
<1>4. ASSUME NEW pt \in Existentes
      PROVE  /\ pt \in Puntos
             /\ \/ punto'[pt].numero = punto[pt].numero
                \/ /\ ped[p].clase = "editar" /\ pt = ped[p].pt
                   /\ punto'[pt].numero = Destino(p, pt).numero
  <2>1. pt \in Puntos /\ pt \notin Creados(p)
        BY <1>3 DEF Existentes
  <2>2. CASE pt \in Exigidos(p)
        BY <2>1, <2>2, <1>2, ExigidoVigente, ExigidoFinal DEF Escritos
  <2>3. CASE pt \notin Exigidos(p)
        BY <2>1, <2>3, <1>2 DEF Escritos
  <2> QED BY <2>1, <2>2, <2>3
<1>5. NumerosUnicos'
  <2>1. SUFFICES ASSUME NEW pt \in Existentes', NEW qt \in Existentes',
                        punto'[pt].numero = punto'[qt].numero
                 PROVE  pt = qt
        BY DEF NumerosUnicos
  <2>2. \A r, s \in Existentes : punto[r].numero = punto[s].numero => r = s
        BY DEF InductivoPuntos, Registro, NumerosUnicos
  <2>3. \A n, o \in ped[p].alta : IdDe(p, n) = IdDe(p, o) => n = o
        BY CreadosSiguen
  <2>4. ASSUME NEW r \in Creados(p), NEW s \in Existentes PROVE punto'[r].numero # punto'[s].numero
    <3>1. ped[p].clase # "editar"
          BY <2>4, <1>1, <1>3 DEF Pedido
    <3>2. punto'[s].numero = punto[s].numero /\ punto[s].numero \in NumerosActuales
          BY <3>1, <1>4 DEF NumerosActuales
    <3> QED BY <3>2, <2>4, <1>1, <1>3 DEF AltaPropia
  <2>5. CASE pt \in Creados(p) /\ qt \in Creados(p)
        BY <2>1, <2>3, <2>5, <1>3
  <2>6. CASE pt \in Existentes /\ qt \in Existentes
    <3>1. \A s \in Existentes \ {ped[p].pt} :
              ped[p].clase = "editar" => punto[s].numero # Destino(p, ped[p].pt).numero
          BY DEF Aplicar, NumeroLibre
    <3> QED BY <2>1, <2>2, <2>6, <3>1, <1>4
  <2> QED BY <2>1, <2>4, <2>5, <2>6, <1>2
<1>6. ASSUME NEW q \in Pedidos \ {p} PROVE ped[q].alta \cap NumerosActuales' = {}
  <2>1. SUFFICES ASSUME NEW pt \in Existentes' PROVE punto'[pt].numero \notin ped[q].alta
        BY DEF NumerosActuales
  <2>2. ped[q].alta \cap NumerosActuales = {} /\ ped[q].alta \cap ped[p].alta = {}
        BY <1>1 DEF InductivoPuntos, Curso, AltaPropia
  <2>3. CASE pt \in Creados(p)
        BY <2>2, <2>3, <1>3
  <2>4. CASE pt \in Existentes
    <3>1. CASE punto'[pt].numero = punto[pt].numero
          BY <3>1, <2>2, <2>4 DEF NumerosActuales
    <3>2. CASE punto'[pt].numero # punto[pt].numero
          BY <3>2, <2>4, <1>4 DEF Aplicar, NumeroPendiente
    <3> QED BY <3>1, <3>2
  <2> QED BY <2>1, <2>3, <2>4, <1>2
<1> QED BY <1>5, <1>6

LEMMA AplicarConserva ==
    ASSUME InductivoPuntos, NEW p \in Pedidos, Aplicar(p)
    PROVE  InductivoPuntos'
<1>1. /\ Escritos(p) \subseteq Puntos /\ punto' \in [Puntos -> Filas]
      /\ \A pt \in Puntos : /\ punto[pt].rev <= punto'[pt].rev
                            /\ punto[pt].rev = punto'[pt].rev => punto'[pt] = punto[pt]
      /\ \A pt \in Puntos \ Escritos(p) : punto'[pt] = punto[pt]
      BY AplicarFilas
<1>2. /\ UNCHANGED <<guarda, empresa, hoy, arca>> /\ Soltar(p)
      /\ \A pt \in Puntos \ Escritos(p) : libro'[pt] = libro[pt] /\ dictamen'[pt] = dictamen[pt]
      /\ \A pt \in Escritos(p) : libro'[pt] = LibroFinal(p, pt) /\ dictamen'[pt] = Suceso(p, pt)
      BY <1>1 DEF Aplicar, Entorno
<1>3. \A pt \in Escritos(p) : Asentado(pt)' /\ LibroFinal(p, pt) \in Seq(Revisiones)
      BY AtestadoAsentado, InvalidadoAsentado
<1>4. \A pt \in Escritos(p) : ~GuardaActiva(pt)
  <2>1. \A pt \in Exigidos(p) : ~GuardaActiva(pt)
        BY ExigidoVigente
  <2>2. \A pt \in Creados(p) : ~GuardaActiva(pt)
        BY CreadoFinal DEF InductivoPuntos, Registro, GuardasConPunto, Existentes
  <2> QED BY <2>1, <2>2 DEF Escritos
<1>5. Registro'
      BY <1>1, <1>2, <1>3, <1>4, AplicarIds, AplicarNumeros, RegistroEscribe
<1>6. libro' \in [Puntos -> Seq(Revisiones)]
  <2>1. \A pt \in Puntos : libro'[pt] \in Seq(Revisiones)
        BY <1>2, <1>3 DEF InductivoPuntos, Formas
  <2> QED BY <2>1 DEF Aplicar
<1>7. dictamen' \in [Puntos -> {"atestado", "bloqueado", "tocado"}]
  <2>1. \A pt \in Puntos : Suceso(p, pt) \in {"atestado", "bloqueado", "tocado"}
        BY DEF Suceso
  <2>2. \A pt \in Puntos : dictamen'[pt] \in {"atestado", "bloqueado", "tocado"}
        BY <1>2, <2>1 DEF InductivoPuntos, Formas
  <2> QED BY <2>2 DEF Aplicar
<1>8. ASSUME NEW q \in Pedidos \ {p} PROVE CopiaFiel(q)' /\ GuardaPropia(q)'
  <2>1. CopiaFiel(q) /\ GuardaPropia(q) /\ Pedido(q) /\ ped'[q] = ped[q]
        BY <1>2 DEF InductivoPuntos, Formas, Curso, Soltar
  <2>2. CopiaFiel(q)'
    <3>1. SUFFICES ASSUME ped[q].fase \in ConCopia, NEW pt \in Puntos
                   PROVE  /\ ped[q].copia[pt].rev <= punto'[pt].rev
                          /\ ped[q].copia[pt].rev = punto'[pt].rev => ped[q].copia[pt] = punto'[pt]
          BY <2>1 DEF CopiaFiel
    <3>2. /\ ped[q].copia[pt].rev <= punto[pt].rev
          /\ ped[q].copia[pt].rev = punto[pt].rev => ped[q].copia[pt] = punto[pt]
          BY <3>1, <2>1 DEF CopiaFiel
    <3>3. /\ ped[q].copia[pt].rev \in Nat /\ punto[pt].rev \in Nat /\ punto'[pt].rev \in Nat
          BY <3>1, <2>1, <1>1 DEF Pedido, InductivoPuntos, Formas, Filas
    <3> QED BY <3>2, <3>3, <1>1
  <2>3. GuardaPropia(q)'
        BY <2>1, <1>2 DEF GuardaPropia, GuardaActiva
  <2> QED BY <2>2, <2>3
<1>9. \A q \in Pedidos \ {p} :
          CopiaFiel(q)' /\ GuardaPropia(q)' /\ ped[q].alta \cap NumerosActuales' = {}
      BY <1>8, AplicarNumeros
<1>10. /\ Curso'
       /\ ped' \in [Pedidos -> EstadosPedido]
       /\ candado' \in [Puntos -> Pedidos \cup {Nadie}]
       /\ frontera' \in Pedidos \cup {Nadie}
      BY <1>2, <1>9, SueltaCurso
<1> QED BY <1>1, <1>2, <1>5, <1>6, <1>7, <1>10 DEF InductivoPuntos, Formas

-----------------------------------------------------------------------------
(* The inductive invariant holds *)

LEMMA InitCurso ==
    ASSUME Init
    PROVE  /\ Curso /\ ped \in [Pedidos -> EstadosPedido]
           /\ GuardasConPunto /\ GuardaAlDia /\ guarda \in [Puntos -> Guardas]
<1>1. \A p \in Pedidos : ped[p] = Ocioso
      BY DEF Init
<1>2. \A p \in Pedidos :
          /\ Pedido(p) /\ CopiaFiel(p) /\ AltaPropia(p) /\ GuardaPropia(p) /\ ~EnFrontera(p)
      BY <1>1 DEF Ocioso, Pedido, CopiaFiel, AltaPropia, GuardaPropia, EnFrontera,
                  FasesDeLote, FasesDeEmision, ConCopia
<1>3. FronteraViva /\ CandadosVivos
      BY DEF Init, FronteraViva, CandadosVivos
<1>4. ped \in [Pedidos -> EstadosPedido]
      BY OciosoTipo DEF Init
<1>5. guarda \in [Puntos -> Guardas] /\ \A pt \in Puntos : ~GuardaActiva(pt)
      BY SinGuardaTipo DEF Init, GuardaActiva
<1> QED BY <1>2, <1>3, <1>4, <1>5 DEF Curso, GuardasConPunto, GuardaAlDia

LEMMA VacioRegistro ==
    ASSUME Vacio
    PROVE  /\ punto \in [Puntos -> Filas] /\ libro \in [Puntos -> Seq(Revisiones)]
           /\ dictamen \in [Puntos -> {"atestado", "bloqueado", "tocado"}]
           /\ IdsEnOrden /\ NumerosUnicos /\ RevisionesAcotadas /\ NacenJuntos
           /\ HistoriaFiel /\ EvidenciaFiel /\ DocumentosEnOrden
<1>1. SinFila \in Filas /\ SinFila.rev = 0
      BY DEF SinFila, Filas, Sistemas
<1>2. \A pt \in Puntos : punto[pt] = SinFila /\ libro[pt] = <<>>
      BY DEF Vacio
<1>3. Existentes = {}
      BY <1>1, <1>2 DEF Existentes, Existe
<1>4. IdsEnOrden
  <2>1. Cardinality(Puntos) \in Nat
        BY FS_CardinalityType, ConstantesValidas
  <2> DEFINE c == Cardinality(Puntos)
  <2> HIDE DEF c
  <2>2. 0 \in 0..c /\ Existentes = 1..0
        BY <1>3, <2>1 DEF c
  <2> QED BY <2>2 DEF IdsEnOrden, c
<1>5. RevisionesAcotadas /\ NacenJuntos
      BY <1>1, <1>2, ConstantesValidas DEF RevisionesAcotadas, NacenJuntos, Existe
<1>6. DocumentosEnOrden
      BY <1>2 DEF DocumentosEnOrden
<1>7. punto \in [Puntos -> Filas] /\ libro \in [Puntos -> Seq(Revisiones)]
      BY <1>1 DEF Vacio
<1> QED BY <1>3, <1>4, <1>5, <1>6, <1>7 DEF Vacio, NumerosUnicos, HistoriaFiel, EvidenciaFiel

LEMMA AcreditadoRegistro ==
    ASSUME NEW c \in Cuits, Acreditado(c), {1, 2} \subseteq Numeros, empresa.cuit = c
    PROVE  /\ punto \in [Puntos -> Filas] /\ libro \in [Puntos -> Seq(Revisiones)]
           /\ dictamen \in [Puntos -> {"atestado", "bloqueado", "tocado"}]
           /\ IdsEnOrden /\ NumerosUnicos /\ RevisionesAcotadas /\ NacenJuntos
           /\ HistoriaFiel /\ EvidenciaFiel /\ DocumentosEnOrden
<1> DEFINE f == [SinFila EXCEPT !.rev = 2, !.numero = 1, !.activo = TRUE, !.sistema = "rece"]
           g == [SinFila EXCEPT !.rev = 1, !.numero = 2, !.activo = TRUE, !.sistema = "ws"]
           r == Revision("verificado_rece", 2, 1, c, 1)
           s == <<NoVerificada(1), r>>
<1>1. /\ SinFila \in Filas /\ SinFila.rev = 0
      /\ f \in Filas /\ f.rev = 2 /\ f.numero = 1 /\ f.sistema = "rece"
      /\ g \in Filas /\ g.rev = 1 /\ g.numero = 2
      BY DEF SinFila, Filas, Sistemas
<1>2. /\ r \in Revisiones /\ r.rev = 2 /\ r.dia = 1 /\ r.cuit = c /\ r.numero = 1
      /\ r.estado = "verificado_rece"
      BY DEF Revision, Revisiones, EstadosRece
<1>3. /\ punto = [pt \in Puntos |-> IF pt = 1 THEN f ELSE IF pt = 2 THEN g ELSE SinFila]
      /\ libro = [pt \in Puntos |-> IF pt = 1 THEN s ELSE IF pt = 2 THEN <<NoVerificada(1)>> ELSE <<>>]
      /\ dictamen = [pt \in Puntos |-> IF pt = 1 THEN "atestado" ELSE "tocado"]
      BY DEF Acreditado
<1> HIDE DEF f, g, r
<1>4. /\ s \in Seq(Revisiones) /\ s # <<>> /\ Len(s) = 2 /\ s[1] = NoVerificada(1) /\ s[2] = r
      /\ DOMAIN s = {1, 2}
  <2>1. NoVerificada(1) \in Revisiones
        BY NoVerificadaTipo
  <2> QED BY <1>2, <2>1
<1>5. /\ <<NoVerificada(1)>> \in Seq(Revisiones) /\ <<NoVerificada(1)>> # <<>>
      /\ DOMAIN <<NoVerificada(1)>> = {1}
      BY NoVerificadaTipo
<1> HIDE DEF s
<1>6. \A pt \in Puntos :
          \/ pt = 1 /\ punto[pt] = f /\ libro[pt] = s /\ dictamen[pt] = "atestado"
          \/ pt = 2 /\ punto[pt] = g /\ libro[pt] = <<NoVerificada(1)>> /\ dictamen[pt] = "tocado"
          \/ pt \notin {1, 2} /\ punto[pt] = SinFila /\ libro[pt] = <<>> /\ dictamen[pt] = "tocado"
      BY <1>3
<1>7. Existentes = Puntos \cap {1, 2}
      BY <1>1, <1>6 DEF Existentes, Existe
<1>8. punto \in [Puntos -> Filas]
      BY <1>1, <1>3
<1>9. libro \in [Puntos -> Seq(Revisiones)]
      BY <1>3, <1>4, <1>5
<1>10. IdsEnOrden
  <2> DEFINE n == Cardinality(Puntos)
  <2>1. n \in Nat /\ Puntos = 1..n
        BY FS_CardinalityType, ConstantesValidas
  <2> HIDE DEF n
  <2>2. CASE n = 0
    <3>1. Existentes = 1..0 /\ 0 \in 0..n
          BY <1>7, <2>1, <2>2
    <3> QED BY <3>1 DEF IdsEnOrden, n
  <2>3. CASE n = 1
    <3>1. Existentes = 1..1 /\ 1 \in 0..n
          BY <1>7, <2>1, <2>3
    <3> QED BY <3>1 DEF IdsEnOrden, n
  <2>4. CASE n > 1
    <3>1. Existentes = 1..2 /\ 2 \in 0..n
          BY <1>7, <2>1, <2>4
    <3> QED BY <3>1 DEF IdsEnOrden, n
  <2> QED BY <2>1, <2>2, <2>3, <2>4
<1>11. NumerosUnicos
      BY <1>1, <1>6, <1>7 DEF NumerosUnicos
<1>12. RevisionesAcotadas /\ NacenJuntos
  <2>1. 0 <= MaxRevision /\ 1 <= MaxRevision /\ 2 <= MaxRevision
        BY ConstantesValidas
  <2>2. RevisionesAcotadas
        BY <2>1, <1>1, <1>6 DEF RevisionesAcotadas
  <2>3. \A pt \in Puntos : Existe(pt) <=> pt \in {1, 2}
        BY <1>7 DEF Existentes
  <2> QED BY <2>2, <2>3, <1>4, <1>5, <1>6 DEF NacenJuntos
<1>13. \A pt \in Existentes :
          \/ pt = 1 /\ punto[pt] = f /\ Cabeza(pt) = r /\ dictamen[pt] = "atestado"
          \/ pt = 2 /\ punto[pt] = g /\ Cabeza(pt) = NoVerificada(1) /\ dictamen[pt] = "tocado"
  <2>1. s[Len(s)] = r
        BY <1>4
  <2>2. <<NoVerificada(1)>>[Len(<<NoVerificada(1)>>)] = NoVerificada(1)
        OBVIOUS
  <2> QED BY <2>1, <2>2, <1>6, <1>7 DEF Cabeza
<1>14. NoVerificada(1).estado = "no_verificado" /\ NoVerificada(1).rev = 1 /\ NoVerificada(1).dia = 0
      BY NoVerificadaTipo DEF NoDia
<1>15. HistoriaFiel
      BY <1>1, <1>2, <1>13, <1>14 DEF HistoriaFiel
<1>16. EvidenciaFiel
      BY <1>1, <1>2, <1>13, <1>14 DEF EvidenciaFiel
<1>17. DocumentosEnOrden
  <2>1. SUFFICES ASSUME NEW pt \in Puntos PROVE EnOrden(libro[pt])
        BY DEF DocumentosEnOrden, EnOrden
  <2>2. EnOrden(s)
        BY <1>2, <1>4, <1>14 DEF EnOrden
  <2>3. EnOrden(<<NoVerificada(1)>>) /\ EnOrden(<<>>)
        BY <1>5 DEF EnOrden
  <2> QED BY <1>6, <2>2, <2>3
<1> QED BY <1>3, <1>8, <1>9, <1>10, <1>11, <1>12, <1>15, <1>16, <1>17

LEMMA InitInductivo == Init => InductivoPuntos
<1> SUFFICES ASSUME Init PROVE InductivoPuntos
    OBVIOUS
<1>1. /\ empresa \in [cuit : Cuits, admins : SUBSET {Administrador[p] : p \in Pedidos},
                      certificado : BOOLEAN]
      /\ empresa.admins = {Administrador[p] : p \in Pedidos}
      BY DEF Init
<1>2. empresa.admins # {} /\ empresa.cuit \in Cuits
      BY <1>1, ConstantesValidas
<1>3. /\ punto \in [Puntos -> Filas] /\ libro \in [Puntos -> Seq(Revisiones)]
      /\ dictamen \in [Puntos -> {"atestado", "bloqueado", "tocado"}]
      /\ IdsEnOrden /\ NumerosUnicos /\ RevisionesAcotadas /\ NacenJuntos
      /\ HistoriaFiel /\ EvidenciaFiel /\ DocumentosEnOrden
  <2>1. CASE Vacio
        BY <2>1, VacioRegistro
  <2>2. CASE "acreditado" \in Escenarios /\ Acreditado(empresa.cuit)
        BY <2>2, <1>2, ConstantesValidas, AcreditadoRegistro
  <2> QED BY <2>1, <2>2 DEF Init
<1>4. hoy \in 1..MaxDia /\ hoy \in Nat /\ arca \in EstadosArca
      BY ConstantesValidas DEF Init
<1>5. candado \in [Puntos -> Pedidos \cup {Nadie}] /\ frontera \in Pedidos \cup {Nadie}
      BY DEF Init
<1> QED BY <1>1, <1>2, <1>3, <1>4, <1>5, InitCurso DEF InductivoPuntos, Registro, Formas

LEMMA SinPasoConserva == InductivoPuntos /\ UNCHANGED vars => InductivoPuntos'
<1> SUFFICES ASSUME InductivoPuntos, UNCHANGED vars PROVE InductivoPuntos'
    OBVIOUS
<1>1. UNCHANGED <<punto, libro, guarda, dictamen, empresa, hoy, arca, ped, candado, frontera>>
      BY DEF vars
<1>2. Registro'
      BY <1>1, RegistroQuieto
<1>3. Curso'
      BY <1>1, EntornoCurso DEF Fila
<1> QED BY <1>1, <1>2, <1>3 DEF InductivoPuntos, Formas

LEMMA PasoConserva == InductivoPuntos /\ [Next]_vars => InductivoPuntos'
<1> SUFFICES ASSUME InductivoPuntos, [Next]_vars PROVE InductivoPuntos'
    OBVIOUS
<1>1. ASSUME NEW p \in Pedidos,
             \/ Editar(p) \/ Sincronizar(p) \/ Importar(p) \/ LeerPuntos(p)
             \/ TomarFrontera(p) \/ InsertarAltas(p) \/ TomarCandado(p)
             \/ Aplicar(p) \/ Conflicto(p) \/ CrearPunto(p)
             \/ Emitir(p) \/ Capturar(p) \/ Reservar(p) \/ MarcarArcaIniciada(p)
             \/ Terminar(p) \/ Abortar(p)
      PROVE  InductivoPuntos'
      BY <1>1, EditarConserva, SincronizarConserva, ImportarConserva, LeerPuntosConserva,
         TomarFronteraConserva, InsertarAltasConserva, TomarCandadoConserva, AplicarConserva,
         ConflictoConserva, CrearPuntoConserva, EmitirConserva, CapturarConserva,
         ReservarConserva, MarcarArcaIniciadaConserva, TerminarConserva, AbortarConserva
<1>2. ASSUME NEW pt \in Puntos, CerrarGuarda(pt) PROVE InductivoPuntos'
      BY <1>2, CerrarGuardaConserva
<1>3. CASE CambiarCuit \/ Degradar \/ PasarDia \/ ArcaCambia
      BY <1>3, CambiarCuitConserva, DegradarConserva, PasarDiaConserva, ArcaCambiaConserva
<1>4. CASE UNCHANGED vars
      BY <1>4, SinPasoConserva
<1> QED BY <1>1, <1>2, <1>3, <1>4 DEF Next

(* What requests carry, the rows, the ledger and the guards agree after any *)
(* interleaving of edits, synchronisations, constancias, emissions, aborts  *)
(* and changes of the issuer, for any requests, points and documents.       *)
THEOREM InductivoPuntosSiempre == Spec => []InductivoPuntos
<1> QED BY InitInductivo, PasoConserva, PTL DEF Spec

-----------------------------------------------------------------------------
(* What follows from it *)

LEMMA FiscoTipo ==
    ASSUME NEW fila \in Filas PROVE Fisco(fila) \in Campos
BY DEF Fisco, Filas, Campos

LEMMA InductivoCoherente == InductivoPuntos => PuntosCoherentes
<1> SUFFICES ASSUME InductivoPuntos PROVE PuntosCoherentes
    OBVIOUS
<1> USE DEF InductivoPuntos
<1>1. ASSUME NEW pt \in Puntos
      PROVE  /\ punto[pt].rev \in 0..MaxRevision /\ Fisco(punto[pt]) \in Campos
             /\ Existe(pt) <=> libro[pt] # <<>>
             /\ \A i \in DOMAIN libro[pt] : libro[pt][i].estado \in EstadosRece
             /\ guarda[pt].fase \in Activas \cup {"ninguna"}
             /\ candado[pt] # Nadie => candado[pt] \in Pedidos /\ ~Libre(candado[pt])
  <2>1. punto[pt] \in Filas /\ punto[pt].rev \in Nat
        BY DEF Formas, Filas
  <2>2. punto[pt].rev \in 0..MaxRevision
        BY <2>1, ConstantesValidas DEF Registro, RevisionesAcotadas
  <2>3. \A i \in DOMAIN libro[pt] : libro[pt][i].estado \in EstadosRece
    <3>1. libro[pt] \in Seq(Revisiones)
          BY DEF Formas
    <3>2. \A i \in DOMAIN libro[pt] : libro[pt][i] \in Revisiones
          BY <3>1
    <3> QED BY <3>2 DEF Revisiones
  <2>4. guarda[pt].fase \in Activas \cup {"ninguna"}
        BY DEF Formas, Guardas
  <2>5. candado[pt] # Nadie => candado[pt] \in Pedidos /\ ~Libre(candado[pt])
        BY DEF Formas, Curso, CandadosVivos
  <2> QED BY <2>1, <2>2, <2>3, <2>4, <2>5, FiscoTipo DEF Registro, NacenJuntos
<1>2. empresa.cuit \in Cuits
      BY DEF Formas
<1>3. frontera # Nadie => ped[frontera].confirma
      BY DEF Curso, FronteraViva, EnFrontera
<1> QED BY <1>1, <1>2, <1>3 DEF PuntosCoherentes, TypeOK, Registro, NumerosUnicos

(* An active guard names the current revision of its point and the head of *)
(* its ledger, whoever edits, synchronises, imports or attests; a point and *)
(* its ledger are born together, and a number belongs to one point.         *)
THEOREM GuardaSiempreAlDia == Spec => []PuntosCoherentes
<1> QED BY InductivoPuntosSiempre, InductivoCoherente, PTL

LEMMA BloqueadoNoEmite ==
    ASSUME InductivoPuntos, NEW pt \in Existentes, Emitible(pt)
    PROVE  dictamen[pt] = "atestado"
<1>1. /\ dictamen[pt] = "tocado" => Cabeza(pt).estado = "no_verificado"
      /\ dictamen[pt] = "bloqueado" =>
            Cabeza(pt).estado = "no_verificado" \/ Cabeza(pt).rev < punto[pt].rev
      BY DEF InductivoPuntos, Registro, HistoriaFiel
<1>2. Cabeza(pt).estado = "verificado_rece" /\ Cabeza(pt).rev = punto[pt].rev
      BY DEF Emitible, EvidenciaVigente, EvidenciaPropia
<1>3. punto[pt].rev \in Nat /\ dictamen[pt] \in {"atestado", "bloqueado", "tocado"}
      BY DEF InductivoPuntos, Formas, Filas, Existentes
<1> QED BY <1>1, <1>2, <1>3

LEMMA InductivoVeraz == InductivoPuntos => EvidenciaVeraz
<1> SUFFICES ASSUME InductivoPuntos PROVE EvidenciaVeraz
    OBVIOUS
<1>1. CambioCierra
      BY BloqueadoNoEmite DEF CambioCierra, InductivoPuntos, Registro, HistoriaFiel
<1> QED BY <1>1 DEF EvidenciaVeraz, InductivoPuntos, Registro

(* A positive head belongs to the issuer's CUIT and to the point as they    *)
(* are, and to the newest constancia; a point touched or blocked since its  *)
(* attestation cannot emit until the next one.                              *)
THEOREM EvidenciaSiempreVeraz == Spec => []EvidenciaVeraz
<1> QED BY InductivoPuntosSiempre, InductivoVeraz, PTL

-----------------------------------------------------------------------------
(* The ledger *)

LEMMA MismoLibro ==
    ASSUME InductivoPuntos, NEW pt \in Puntos
    PROVE  Len(libro[pt]) \in Nat /\ SubSeq(libro[pt], 1, Len(libro[pt])) = libro[pt]
<1>1. libro[pt] \in Seq(Revisiones)
      BY DEF InductivoPuntos, Formas
<1> QED BY <1>1, LenProperties, SubSeqFull

\* A batch appends one revision at most to the ledger of a point, with the
\* next revision of its row; only an attestation appends a positive one.
LEMMA AplicarLibro ==
    ASSUME InductivoPuntos, NEW p \in Pedidos, Aplicar(p), NEW pt \in Existentes
    PROVE  /\ punto'[pt] # punto[pt] => punto'[pt].rev = punto[pt].rev + 1
           /\ \/ libro'[pt] = libro[pt]
              \/ \E r \in Revisiones : libro'[pt] = Append(libro[pt], r)
<1>1. pt \in Puntos /\ pt \notin Creados(p)
      BY CreadoFinal DEF Existentes
<1>2. CASE pt \notin Escritos(p)
      BY <1>1, <1>2 DEF Aplicar
<1>3. CASE pt \in Exigidos(p)
  <2>1. punto'[pt] = FilaFinal(p, pt) /\ libro'[pt] = LibroFinal(p, pt)
        BY <1>1, <1>3 DEF Aplicar, Escritos
  <2>2. punto'[pt].rev = punto[pt].rev + 1
        BY <1>3, <2>1, ExigidoFinal
  <2>3. LibroFinal(p, pt) \in Seq(Revisiones)
        BY <1>3, AtestadoAsentado, InvalidadoAsentado DEF Escritos
  <2>4. libro'[pt] = libro[pt] \/ \E r : libro'[pt] = Append(libro[pt], r)
        BY <1>1, <2>1 DEF LibroFinal, LibroPrevio
  <2>5. ASSUME NEW r, libro'[pt] = Append(libro[pt], r) PROVE r \in Revisiones
    <3>1. libro[pt] \in Seq(Revisiones)
          BY <1>1 DEF InductivoPuntos, Formas
    <3>2. Len(libro'[pt]) = Len(libro[pt]) + 1 /\ libro'[pt][Len(libro[pt]) + 1] = r
          BY <2>5, <3>1
    <3> QED BY <2>1, <2>3, <3>1, <3>2
  <2> QED BY <2>2, <2>4, <2>5
<1> QED BY <1>1, <1>2, <1>3 DEF Escritos

\* What is published as positive comes from an attestation, under the rows of
\* its administrator and of its issuer.
LEMMA AplicarAutoridad ==
    ASSUME InductivoPuntos, NEW p \in Pedidos, Aplicar(p), NEW pt \in Puntos,
           Len(libro'[pt]) > Len(libro[pt]), libro'[pt][Len(libro'[pt])].estado = "verificado_rece"
    PROVE  frontera # Nadie /\ Administrador[frontera] \in empresa.admins
<1>1. Len(libro[pt]) \in Nat
      BY MismoLibro
<1>2. pt \in Escritos(p) /\ libro'[pt] = LibroFinal(p, pt)
      BY <1>1 DEF Aplicar
<1>3. ped[p].confirma
  <2>1. SUFFICES ASSUME ~ped[p].confirma PROVE FALSE
        OBVIOUS
  <2>2. \/ libro'[pt] = <<NoVerificada(1)>>
        \/ libro'[pt] = libro[pt]
        \/ libro'[pt] = Append(libro[pt], NoVerificada(FilaFinal(p, pt).rev))
        BY <1>2, <2>1 DEF LibroFinal, LibroPrevio
  <2>3. CASE libro'[pt] = <<NoVerificada(1)>>
        BY <2>3 DEF NoVerificada, Revision
  <2>4. CASE libro'[pt] = libro[pt]
        BY <2>4, <1>1
  <2>5. CASE libro'[pt] = Append(libro[pt], NoVerificada(FilaFinal(p, pt).rev))
    <3>1. libro[pt] \in Seq(Revisiones)
          BY DEF InductivoPuntos, Formas
    <3>2. FilaFinal(p, pt).rev \in Nat
          BY <1>2, ExigidoFinal, CreadoFinal DEF Escritos, Filas
    <3>3. NoVerificada(FilaFinal(p, pt).rev) \in Revisiones
          BY <3>2, NoVerificadaTipo
    <3> DEFINE r == NoVerificada(FilaFinal(p, pt).rev)
    <3>4. r.estado = "no_verificado"
          BY <3>2, NoVerificadaTipo
    <3> HIDE DEF r
    <3>5. libro'[pt] = Append(libro[pt], r) /\ r \in Revisiones
          BY <2>5, <3>3 DEF r
    <3>6. libro'[pt][Len(libro'[pt])] = r
          BY <3>1, <3>5
    <3> QED BY <3>4, <3>6
  <2> QED BY <2>2, <2>3, <2>4, <2>5
<1>4. EnFrontera(p)
      BY <1>3 DEF Aplicar, EnFrontera
<1>5. frontera = p
      BY <1>4 DEF InductivoPuntos, Curso
<1> QED BY <1>5, ConstantesValidas DEF InductivoPuntos, Curso, FronteraViva

LEMMA CrearLibro ==
    ASSUME InductivoPuntos, NEW p \in Pedidos, CrearPunto(p)
    PROVE  \A pt \in Puntos :
               \/ /\ punto'[pt] = punto[pt] /\ libro'[pt] = libro[pt]
               \/ /\ pt \notin Existentes /\ libro'[pt] = <<NoVerificada(1)>>
<1> DEFINE k == Min(IdsLibres)
<1>1. /\ \A pt \in Puntos \ {k} : punto'[pt] = punto[pt] /\ libro'[pt] = libro[pt]
      /\ libro' = [libro EXCEPT ![k] = <<NoVerificada(1)>>]
      BY DEF CrearPunto, InductivoPuntos, Formas
<1>2. k \in IdsLibres
  <2>1. PICK m \in Nat : /\ m <= Cardinality(Puntos) /\ Existentes = 1..m
                         /\ Cardinality(Puntos) \in Nat
        BY IdsTipo
  <2>2. IdsLibres # {}
        BY DEF CrearPunto
  <2> DEFINE c == Cardinality(Puntos)
  <2>3. IdsLibres = (1..c) \ (1..m) /\ c \in Nat
        BY <2>1, ConstantesValidas DEF IdsLibres
  <2> HIDE DEF c
  <2>4. m + 1 \in IdsLibres /\ \A y \in IdsLibres : m + 1 <= y
        BY <2>1, <2>2, <2>3
  <2> QED BY <2>4 DEF Min
<1>3. k \in Puntos /\ k \notin Existentes
      BY <1>2 DEF IdsLibres
<1>4. libro'[k] = <<NoVerificada(1)>>
      BY <1>1, <1>3 DEF InductivoPuntos, Formas
<1> QED BY <1>1, <1>3, <1>4

\* Only these two write rows or ledger.
LEMMA SoloEllosEscriben ==
    ASSUME Next
    PROVE  \/ UNCHANGED <<punto, libro>>
           \/ \E p \in Pedidos : Aplicar(p) \/ CrearPunto(p)
<1>1. ASSUME NEW p \in Pedidos,
             \/ Editar(p) \/ Sincronizar(p) \/ Importar(p) \/ LeerPuntos(p)
             \/ TomarFrontera(p) \/ InsertarAltas(p) \/ TomarCandado(p)
             \/ Conflicto(p) \/ Emitir(p) \/ Capturar(p) \/ Reservar(p)
             \/ MarcarArcaIniciada(p) \/ Terminar(p) \/ Abortar(p)
      PROVE  UNCHANGED <<punto, libro>>
      BY <1>1 DEF Editar, Sincronizar, Importar, LeerPuntos, TomarFrontera, InsertarAltas,
                  TomarCandado, Conflicto, Emitir, Capturar, Reservar, MarcarArcaIniciada,
                  Terminar, Abortar, Rechazar, Fila
<1>2. ASSUME NEW pt \in Puntos, CerrarGuarda(pt) PROVE UNCHANGED <<punto, libro>>
      BY <1>2 DEF CerrarGuarda
<1>3. CASE CambiarCuit \/ Degradar \/ PasarDia \/ ArcaCambia
      BY <1>3 DEF CambiarCuit, Degradar, PasarDia, ArcaCambia, Fila
<1> QED BY <1>1, <1>2, <1>3 DEF Next

\* RevisionAvanza, of one step
Avance ==
    \A pt \in Existentes :
        /\ punto'[pt] # punto[pt] => punto'[pt].rev = punto[pt].rev + 1
        /\ Len(libro'[pt]) >= Len(libro[pt])
        /\ SubSeq(libro'[pt], 1, Len(libro[pt])) = libro[pt]

\* AutoridadAlPublicar, of one step
Publicacion ==
    \A pt \in Puntos :
        /\ Len(libro'[pt]) > Len(libro[pt])
        /\ libro'[pt][Len(libro'[pt])].estado = "verificado_rece"
        => frontera # Nadie /\ Administrador[frontera] \in empresa.admins

LEMMA PasoAvanza == InductivoPuntos /\ [Next]_vars => Avance
<1> SUFFICES ASSUME InductivoPuntos, [Next]_vars, NEW pt \in Existentes
             PROVE  /\ punto'[pt] # punto[pt] => punto'[pt].rev = punto[pt].rev + 1
                    /\ Len(libro'[pt]) >= Len(libro[pt])
                    /\ SubSeq(libro'[pt], 1, Len(libro[pt])) = libro[pt]
    BY DEF Avance
<1>1. /\ pt \in Puntos /\ Len(libro[pt]) \in Nat /\ libro[pt] \in Seq(Revisiones)
      /\ SubSeq(libro[pt], 1, Len(libro[pt])) = libro[pt]
      BY MismoLibro DEF Existentes, InductivoPuntos, Formas
<1>2. CASE punto'[pt] = punto[pt] /\ libro'[pt] = libro[pt]
      BY <1>1, <1>2
<1>3. ASSUME NEW p \in Pedidos, Aplicar(p)
      PROVE  /\ punto'[pt] # punto[pt] => punto'[pt].rev = punto[pt].rev + 1
             /\ Len(libro'[pt]) >= Len(libro[pt])
             /\ SubSeq(libro'[pt], 1, Len(libro[pt])) = libro[pt]
  <2>1. CASE libro'[pt] = libro[pt]
        BY <1>1, <1>3, <2>1, AplicarLibro
  <2>2. ASSUME NEW r \in Revisiones, libro'[pt] = Append(libro[pt], r)
        PROVE  /\ Len(libro'[pt]) >= Len(libro[pt])
               /\ SubSeq(libro'[pt], 1, Len(libro[pt])) = libro[pt]
    <3> DEFINE s == libro[pt]
               t == Append(s, r)
               u == SubSeq(t, 1, Len(s))
    <3>1. /\ s \in Seq(Revisiones) /\ Len(s) \in Nat
          /\ Len(t) = Len(s) + 1 /\ \A i \in 1..Len(s) : t[i] = s[i] /\ s[i] \in Revisiones
          BY <1>1
    <3> HIDE DEF s, t
    <3>2. /\ u \in Seq(Revisiones) /\ Len(u) = Len(s) /\ \A i \in 1..Len(s) : u[i] = s[i]
      <4>1. /\ u \in Seq(Revisiones)
            /\ Len(u) = IF 1 <= Len(s) THEN Len(s) - 1 + 1 ELSE 0
            /\ \A i \in 1..(Len(s) - 1 + 1) : u[i] = t[1 + i - 1]
            BY <3>1, SubSeqProperties
      <4> QED BY <4>1, <3>1
    <3>3. u = s
          BY <3>1, <3>2, SeqEqual
    <3> QED BY <3>1, <3>3, <2>2 DEF s, t
  <2> QED BY <1>3, <2>1, <2>2, AplicarLibro
<1>4. ASSUME NEW p \in Pedidos, CrearPunto(p)
      PROVE  punto'[pt] = punto[pt] /\ libro'[pt] = libro[pt]
      BY <1>1, <1>4, CrearLibro
<1>5. CASE UNCHANGED <<punto, libro>>
      BY <1>2, <1>5
<1> QED BY <1>2, <1>3, <1>4, <1>5, SoloEllosEscriben DEF vars

LEMMA PasoPublica == InductivoPuntos /\ [Next]_vars => Publicacion
<1> SUFFICES ASSUME InductivoPuntos, [Next]_vars, NEW pt \in Puntos,
                    Len(libro'[pt]) > Len(libro[pt]),
                    libro'[pt][Len(libro'[pt])].estado = "verificado_rece"
             PROVE  frontera # Nadie /\ Administrador[frontera] \in empresa.admins
    BY DEF Publicacion
<1>1. Len(libro[pt]) \in Nat /\ libro'[pt] # libro[pt]
      BY MismoLibro
<1>2. ASSUME NEW p \in Pedidos, CrearPunto(p) PROVE FALSE
  <2>1. libro'[pt] = <<NoVerificada(1)>>
        BY <1>1, <1>2, CrearLibro
  <2> QED BY <2>1 DEF NoVerificada, Revision
<1>3. ~UNCHANGED <<punto, libro>>
      BY <1>1
<1> QED BY <1>2, <1>3, SoloEllosEscriben, AplicarAutoridad DEF vars

(* A point that changes moves to its next revision, its ledger only grows, *)
(* and evidence is published by an administrator who still is one, holding *)
(* the rows that say so.                                                   *)
THEOREM LibroSiempreFiel == Spec => LibroFiel
<1>1. InductivoPuntos /\ [Next]_vars =>
          [\A pt \in Existentes :
              /\ punto'[pt] # punto[pt] => punto'[pt].rev = punto[pt].rev + 1
              /\ Len(libro'[pt]) >= Len(libro[pt])
              /\ SubSeq(libro'[pt], 1, Len(libro[pt])) = libro[pt]]_vars
      BY PasoAvanza DEF Avance
<1>2. InductivoPuntos /\ [Next]_vars =>
          [\A pt \in Puntos :
              /\ Len(libro'[pt]) > Len(libro[pt])
              /\ libro'[pt][Len(libro'[pt])].estado = "verificado_rece"
              => frontera # Nadie /\ Administrador[frontera] \in empresa.admins]_vars
      BY PasoPublica DEF Publicacion
<1> QED BY InductivoPuntosSiempre, <1>1, <1>2, PTL
        DEF Spec, LibroFiel, RevisionAvanza, AutoridadAlPublicar

-----------------------------------------------------------------------------
(* What leaves for ARCA *)

\* Only marcar_arca_iniciada starts a guard, with the context checked again.
LEMMA SoloElloEnvia ==
    ASSUME InductivoPuntos, Next, NEW pt \in Puntos,
           guarda'[pt].fase = "arca_iniciada", guarda[pt].fase # "arca_iniciada"
    PROVE  \E p \in Pedidos : /\ MarcarArcaIniciada(p) /\ pt = ped[p].pt /\ ContextoIntacto(p)
<1> USE DEF InductivoPuntos
<1>1. ASSUME NEW p \in Pedidos,
             \/ Editar(p) \/ Sincronizar(p) \/ Importar(p) \/ LeerPuntos(p)
             \/ TomarFrontera(p) \/ InsertarAltas(p) \/ TomarCandado(p)
             \/ Aplicar(p) \/ Conflicto(p) \/ CrearPunto(p) \/ Emitir(p) \/ Capturar(p)
      PROVE  guarda' = guarda
      BY <1>1 DEF Editar, Sincronizar, Importar, LeerPuntos, TomarFrontera, InsertarAltas,
                  TomarCandado, Aplicar, Conflicto, CrearPunto, Emitir, Capturar, Rechazar, Fila
<1>2. SinGuarda.fase # "arca_iniciada"
      BY DEF SinGuarda
<1>3. guarda \in [Puntos -> Guardas] /\ \A p \in Pedidos : Pedido(p)
      BY DEF Formas, Curso
<1>4. ASSUME NEW p \in Pedidos, Reservar(p) PROVE FALSE
  <2>1. \/ guarda' = guarda
        \/ guarda' = [guarda EXCEPT ![ped[p].pt] = [fase |-> "pre_arca", ctx |-> ped[p].ctx,
                                                    quien |-> p]]
        BY <1>4 DEF Reservar, Rechazar
  <2> QED BY <2>1, <1>3
<1>5. ASSUME NEW p \in Pedidos, Terminar(p) PROVE FALSE
  <2> DEFINE g == [guarda[ped[p].pt] EXCEPT !.fase = "requiere_reconciliacion", !.quien = Nadie]
  <2>1. ped[p].pt \in Puntos
        BY <1>5, GuardaEnVuelo DEF Terminar
  <2>2. CASE guarda' = [guarda EXCEPT ![ped[p].pt] = SinGuarda]
        BY <2>2, <1>2, <1>3
  <2>3. CASE guarda' = [guarda EXCEPT ![ped[p].pt].fase = "requiere_reconciliacion",
                                      ![ped[p].pt].quien = Nadie]
    <3>1. guarda' = [guarda EXCEPT ![ped[p].pt] = g]
          BY <2>1, <2>3, <1>3 DEF Guardas
    <3>2. g.fase = "requiere_reconciliacion"
          BY <2>1, <1>3 DEF Guardas
    <3> HIDE DEF g
    <3> QED BY <3>1, <3>2, <1>3
  <2> QED BY <1>5, <2>2, <2>3 DEF Terminar
<1>6. ASSUME NEW p \in Pedidos, Abortar(p) PROVE FALSE
  <2>1. guarda'[pt] = guarda[pt] \/ guarda'[pt] = [guarda[pt] EXCEPT !.quien = Nadie]
        BY <1>6 DEF Abortar
  <2>2. [guarda[pt] EXCEPT !.quien = Nadie].fase = guarda[pt].fase
        BY <1>3 DEF Guardas
  <2> QED BY <2>1, <2>2
<1>7. ASSUME NEW qt \in Puntos, CerrarGuarda(qt) PROVE FALSE
  <2>1. guarda' = [guarda EXCEPT ![qt] = SinGuarda]
        BY <1>7 DEF CerrarGuarda
  <2> QED BY <2>1, <1>2, <1>3
<1>8. CASE CambiarCuit \/ Degradar \/ PasarDia \/ ArcaCambia
  <2>1. guarda' = guarda
        BY <1>8 DEF CambiarCuit, Degradar, PasarDia, ArcaCambia, Fila
  <2> QED BY <2>1
<1>9. PICK p \in Pedidos : MarcarArcaIniciada(p)
      BY <1>1, <1>4, <1>5, <1>6, <1>7, <1>8 DEF Next
<1>10. ContextoIntacto(p)
  <2>1. SUFFICES ASSUME ~ContextoIntacto(p) PROVE FALSE
        OBVIOUS
  <2>2. guarda' = [guarda EXCEPT ![ped[p].pt] = SinGuarda]
        BY <1>9, <2>1 DEF MarcarArcaIniciada
  <2> QED BY <2>2, <1>2, <1>3
<1>11. pt = ped[p].pt
  <2>1. guarda' = [guarda EXCEPT ![ped[p].pt] = [guarda[ped[p].pt] EXCEPT !.fase = "arca_iniciada"]]
        BY <1>9, <1>10 DEF MarcarArcaIniciada
  <2> QED BY <2>1, <1>3
<1> QED BY <1>9, <1>10, <1>11

LEMMA PasoAcredita ==
    ASSUME InductivoPuntos, [Next]_vars, NEW pt \in Puntos,
           guarda'[pt].fase = "arca_iniciada", guarda[pt].fase # "arca_iniciada"
    PROVE  dictamen[pt] = "atestado" /\ hoy - Cabeza(pt).dia <= Vigencia
<1>1. Next
      BY DEF vars
<1>2. PICK p \in Pedidos : MarcarArcaIniciada(p) /\ pt = ped[p].pt /\ ContextoIntacto(p)
      BY <1>1, SoloElloEnvia
<1>3. Emitible(pt) /\ pt \in Existentes
      BY <1>2 DEF ContextoIntacto, Emitible, Existentes
<1>4. Cabeza(pt) \in Revisiones
  <2>1. libro[pt] \in Seq(Revisiones) /\ libro[pt] # <<>>
        BY <1>3 DEF InductivoPuntos, Formas, Registro, NacenJuntos, Existentes
  <2> QED BY <2>1 DEF Cabeza
<1>5. Cabeza(pt).dia \in Nat /\ hoy \in Nat /\ Vigencia \in Nat
      BY <1>4, ConstantesValidas DEF Revisiones, InductivoPuntos, Formas
<1>6. hoy - Cabeza(pt).dia <= Vigencia
      BY <1>3, <1>5 DEF Emitible, EvidenciaVigente
<1> QED BY <1>3, <1>6, BloqueadoNoEmite

(* FECAE leaves only for a point nobody has touched since an attestation    *)
(* whose document is at most Vigencia days old, whatever happened while the *)
(* emission was waiting for ARCA or for its locks.                          *)
THEOREM EnvioSiempreAcreditado == Spec => EnvioAcreditado
<1>1. InductivoPuntos /\ [Next]_vars =>
          [\A pt \in Puntos :
              guarda'[pt].fase = "arca_iniciada" /\ guarda[pt].fase # "arca_iniciada" =>
                  dictamen[pt] = "atestado" /\ hoy - Cabeza(pt).dia <= Vigencia]_vars
      BY PasoAcredita
<1> QED BY InductivoPuntosSiempre, <1>1, PTL DEF Spec, EnvioAcreditado

=============================================================================
