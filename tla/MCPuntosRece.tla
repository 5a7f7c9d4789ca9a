---------------------------- MODULE MCPuntosRece ----------------------------
(* Two points, two requests that may be of any kind and come again. *)
EXTENDS PuntosReceInv, TLC

CONSTANTS p1, p2, a1, a2

DosAdministradores == p1 :> a1 @@ p2 :> a2
UnAdministrador == p1 :> a1 @@ p2 :> a1

Documento(filas, dia, cuit, completa) ==
    [filas |-> filas, dia |-> dia, cuit |-> cuit, completa |-> completa]

(* Both points RECE; an older one without the second point; one where the  *)
(* first is no longer RECE; one that could not be read whole.              *)
Documentos ==
    {Documento(1 :> "rece" @@ 2 :> "rece", 2, "c1", TRUE),
     Documento(1 :> "rece", 1, "c1", TRUE),
     Documento(1 :> "ws", 2, "c1", TRUE),
     Documento(2 :> "rece", 1, "c1", FALSE)}

(* The two requests and their administrators are interchangeable. *)
Intercambio ==
    {f \in Permutations({p1, p2, a1, a2}) :
        \A p \in Pedidos : f[p] \in Pedidos /\ f[Administrador[p]] = Administrador[f[p]]}

UnDocumento == {Documento(1 :> "rece", 1, "c1", TRUE)}

ListasArca ==
    {1 :> "activo" @@ 2 :> "activo", 1 :> "bloqueado" @@ 2 :> "ausente"}

Cambios == {<<"numero", 2>>, <<"bloqueado", TRUE>>, <<"bloqueado", FALSE>>, <<"activo", FALSE>>}
=============================================================================
