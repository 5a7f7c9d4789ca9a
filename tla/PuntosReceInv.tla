----------------------------- MODULE PuntosReceInv -----------------------------
(****************************************************************************)
(* The inductive invariant of PuntosRece.                                   *)
(*                                                                          *)
(* What a request read may be stale, and is only used after comparing the   *)
(* revision: a row changes with its revision and never otherwise, so a copy *)
(* with the current revision is the row.  Numbers being inserted belong to  *)
(* one transaction, an attestation keeps the issuer and its administrator   *)
(* where they were, and a guard keeps the point.                            *)
(****************************************************************************)
EXTENDS PuntosRece

----------------------------------------------------------------------------
(* Shapes.                                                                  *)

Filas ==
    [rev : Nat, numero : Numeros \cup {0}, activo : BOOLEAN, bloqueado : BOOLEAN,
     baja : BOOLEAN, sistema : Sistemas]

Revisiones ==
    [estado : EstadosRece, rev : Nat, dia : Nat, cuit : Cuits \cup {NoCuit},
     numero : Numeros \cup {0}]

Contextos == [rev : Nat, revision : Nat]

Guardas ==
    [fase : Activas \cup {"ninguna"}, ctx : Contextos \cup {<<>>},
     quien : Pedidos \cup {Nadie}]

FasesDeLote    == {"lista", "frontera", "altas", "espera"}
FasesDeEmision == {"capturar", "reservar", "reservado", "enviado"}
ConCopia       == {"frontera", "altas", "espera"}

EstadosPedido ==
    [clase : {"nada", "editar", "sincronizar", "importar", "emitir"},
     fase : {"libre"} \cup FasesDeLote \cup FasesDeEmision,
     pt : Puntos \cup {0}, edicion : Ediciones \cup {<<>>},
     doc : Constancias \cup {<<>>}, confirma : BOOLEAN, cuit : Cuits \cup {NoCuit},
     lista : EstadosArca \cup {<<>>}, copia : [Puntos -> Filas] \cup {<<>>},
     faltan : SUBSET Puntos, alta : SUBSET Numeros, ctx : Contextos \cup {<<>>}]

Formas ==
    /\ punto \in [Puntos -> Filas]
    /\ libro \in [Puntos -> Seq(Revisiones)]
    /\ guarda \in [Puntos -> Guardas]
    /\ empresa \in [cuit : Cuits, admins : SUBSET {Administrador[p] : p \in Pedidos},
                    certificado : BOOLEAN]
    /\ hoy \in Nat
    /\ ped \in [Pedidos -> EstadosPedido]
    /\ candado \in [Puntos -> Pedidos \cup {Nadie}]
    /\ frontera \in Pedidos \cup {Nadie}
    /\ dictamen \in [Puntos -> {"atestado", "bloqueado", "tocado"}]

----------------------------------------------------------------------------
(* Requests.                                                                *)

\* What a request carries, by its kind and its phase
Pedido(p) ==
    LET x == ped[p] IN
    /\ x.fase \in FasesDeLote => x.clase \in {"editar", "sincronizar", "importar"}
    /\ x.fase \in FasesDeEmision => x.clase = "emitir" /\ x.pt \in Puntos
    /\ x.fase \in ConCopia => x.copia \in [Puntos -> Filas]
    /\ x.clase = "editar" =>
          x.fase = "espera" /\ x.edicion \in Ediciones /\ x.pt \in Puntos /\ x.alta = {}
          /\ x.copia[x.pt].rev > 0
    /\ x.clase = "importar" => x.doc \in Constancias
    /\ x.confirma => x.clase = "importar" /\ x.cuit \in Cuits
    /\ x.fase = "frontera" => x.confirma
    /\ x.alta # {} => x.fase = "espera" /\ x.alta \subseteq Nuevos(p)

\* A copy is never ahead of the row, and is the row while the revision stands
CopiaFiel(p) ==
    ped[p].fase \in ConCopia =>
        \A pt \in Puntos :
            /\ ped[p].copia[pt].rev <= punto[pt].rev
            /\ ped[p].copia[pt].rev = punto[pt].rev => ped[p].copia[pt] = punto[pt]

\* uq_puntos_venta_empresa_numero, with the rows not committed yet
AltaPropia(p) ==
    /\ ped[p].alta \cap NumerosActuales = {}
    /\ \A q \in Pedidos \ {p} : ped[q].alta \cap ped[p].alta = {}

\* The request that reserved and is not over still owns its guard
GuardaPropia(p) ==
    ped[p].fase \in {"reservado", "enviado"} =>
        GuardaActiva(ped[p].pt) /\ guarda[ped[p].pt].quien = p

\* bloquear_frontera_atestacion_productiva, until the end of the transaction
EnFrontera(p) == ped[p].confirma /\ ped[p].fase \in {"altas", "espera"}

FronteraViva ==
    frontera # Nadie =>
        /\ EnFrontera(frontera) /\ ped[frontera].cuit = empresa.cuit
        /\ Administrador[frontera] \in empresa.admins

CandadosVivos ==
    \A pt \in Puntos : candado[pt] # Nadie => ~Libre(candado[pt])

Curso ==
    /\ \A p \in Pedidos :
          /\ Pedido(p) /\ CopiaFiel(p) /\ AltaPropia(p) /\ GuardaPropia(p)
          /\ EnFrontera(p) => frontera = p
    /\ FronteraViva /\ CandadosVivos

----------------------------------------------------------------------------
(* Rows, guards and ledger.                                                 *)

NumerosUnicos ==
    \A pt, qt \in Existentes : punto[pt].numero = punto[qt].numero => pt = qt

IdsEnOrden == \E m \in 0..Cardinality(Puntos) : Existentes = 1..m

RevisionesAcotadas == \A pt \in Puntos : punto[pt].rev <= MaxRevision

NacenJuntos == \A pt \in Puntos : Existe(pt) <=> libro[pt] # <<>>

GuardasConPunto == \A pt \in Puntos : GuardaActiva(pt) => Existe(pt)

\* What the head says of a point that was touched, or only blocked
HistoriaFiel ==
    \A pt \in Existentes :
        /\ Cabeza(pt).rev <= punto[pt].rev
        /\ dictamen[pt] = "tocado" => Cabeza(pt).estado = "no_verificado"
        /\ dictamen[pt] = "bloqueado" =>
              Cabeza(pt).estado = "no_verificado" \/ Cabeza(pt).rev < punto[pt].rev

Registro ==
    /\ IdsEnOrden /\ NumerosUnicos /\ RevisionesAcotadas /\ NacenJuntos
    /\ GuardasConPunto /\ GuardaAlDia
    /\ HistoriaFiel /\ EvidenciaFiel /\ DocumentosEnOrden

(* The inductive invariant: what the requests carry, and what the rows, the *)
(* ledger and the guards say, agree.                                        *)
InductivoPuntos ==
    /\ Formas /\ Curso /\ Registro
    /\ hoy \in 1..MaxDia /\ arca \in EstadosArca /\ empresa.admins # {}

=============================================================================
