----------------------------- MODULE EmisionUnica ------------------------------
(****************************************************************************)
(* What FactuFlow promises about one idempotency key, without requests,     *)
(* locks, attempts or guards: its FECAESolicitar is sent at most once, ARCA *)
(* decides it once, the key is finished only after ARCA authorised it, and  *)
(* a client hears of success only when it is finished.                      *)
(****************************************************************************)
CONSTANT Claves

VARIABLES
    envio,      \* fate of the only FECAESolicitar of each key
    registro,   \* keys finished with an authorised comprobante
    informada   \* keys some client was told to have succeeded

varsUnica == <<envio, registro, informada>>

InitUnica ==
    /\ envio = [k \in Claves |-> "libre"]
    /\ registro = {}
    /\ informada = {}

Enviar(k) ==
    /\ envio[k] = "libre"
    /\ envio' = [envio EXCEPT ![k] = "enviada"]
    /\ UNCHANGED <<registro, informada>>

Decidir(k) ==
    /\ envio[k] = "enviada"
    /\ envio' \in {[envio EXCEPT ![k] = "autorizada"], [envio EXCEPT ![k] = "rechazada"]}
    /\ UNCHANGED <<registro, informada>>

\* The commit that finishes the key; the client may hear of it in the same step
Registrar(k) ==
    /\ envio[k] = "autorizada" /\ k \notin registro
    /\ registro' = registro \cup {k}
    /\ informada' \in {informada, informada \cup {k}}
    /\ UNCHANGED envio

\* A replay
Informar(k) ==
    /\ k \in registro
    /\ informada' = informada \cup {k}
    /\ UNCHANGED <<envio, registro>>

NextUnica ==
    \E k \in Claves : Enviar(k) \/ Decidir(k) \/ Registrar(k) \/ Informar(k)

SpecUnica == InitUnica /\ [][NextUnica]_varsUnica
=============================================================================
